------------------------ MODULE ComponentLinksProofs ------------------------
(***************************************************************************)
(* What the edits of ComponentLinks keep, for every project, every number  *)
(* of components and files and every sequence of edits of a user who does  *)
(* not make the edits that break links.                                    *)
(*                                                                         *)
(* BothEnds is not inductive: a counterpart that is told of a change finds *)
(* its entry only because a link joins two components of one workflow or a *)
(* component and its own parent, because it is never recorded twice, as a  *)
(* next and an else link or in both directions, and because no directory   *)
(* lies in itself.  Sound adds these.                                      *)
(***************************************************************************)
EXTENDS ComponentLinks, TLAPS

-----------------------------------------------------------------------------
(* The inductive invariant.                                                *)

\* Directories lie in directories, and not in themselves.
Nested ==
  \A c \in Component \ {Root} :
    /\ place[c] # c
    /\ place[c] # Root => place[place[c]] # c

\* The root workflow has no workflow around it and nothing beside it.
RootAlone ==
  Root \in Component /\ json[Root].parent \notin ID /\ Counterparts(Root) = {}

\* A component names its siblings and its parent, not itself or its children.
Near ==
  \A c \in Component \ {Root} : \A d \in Counterparts(c) :
    d # place[c] => d \in Component \ {Root} /\ d # c /\ place[d] = place[c]

AtHome == \A c \in Component \ {Root} : json[c].parent = place[c]

\* forwardTo and origin name children.
Children ==
  \A c \in Component : \A l \in json[c].forwardTo \union json[c].origin :
    l.node \in Component \ {Root} /\ place[l.node] = c

\* A component is linked to another once: by next or by else, one way.
OneLink ==
  \A c \in Component :
    /\ json[c].next \intersect json[c].else = {}
    /\ \A d \in Component :
         d \in json[c].next \union json[c].else => c \notin json[d].next \union json[d].else

\* The four parts of FilesAgree.
SourcesAgree ==
  \A c \in Component : \A l \in json[c].src :
    /\ l.name \in json[c].inputFiles /\ l.node \in Component
    /\ l.node = json[c].parent =>
         L(l.file, c, l.name) \in json[l.node].forwardTo /\ l.file \in json[l.node].inputFiles
    /\ l.node # json[c].parent =>
         L(l.file, c, l.name) \in json[l.node].dst /\ l.file \in json[l.node].outputFiles
TargetsAgree ==
  \A c \in Component : \A l \in json[c].dst :
    /\ l.name \in json[c].outputFiles /\ l.node \in Component
    /\ l.node = json[c].parent =>
         L(l.file, c, l.name) \in json[l.node].origin /\ l.file \in json[l.node].outputFiles
    /\ l.node # json[c].parent =>
         L(l.file, c, l.name) \in json[l.node].src /\ l.file \in json[l.node].inputFiles
ForwardsAgree ==
  \A c \in Component : \A l \in json[c].forwardTo :
    l.node \in Component /\ L(l.file, c, l.name) \in json[l.node].src
OriginsAgree ==
  \A c \in Component : \A l \in json[c].origin :
    l.node \in Component /\ L(l.file, c, l.name) \in json[l.node].dst

Files == SourcesAgree /\ TargetsAgree /\ ForwardsAgree /\ OriginsAgree
Homes == Nested /\ RootAlone /\ Near /\ AtHome
Sound == TypeOK /\ Homes /\ LinksAgree /\ OneLink /\ Files /\ Children

LEMMA SoundSuffices ==
  ASSUME Sound PROVE BothEnds
<1>1. FilesAgree
  BY DEF Sound, Files, SourcesAgree, TargetsAgree, ForwardsAgree, OriginsAgree, FilesAgree
<1>2. OwnWorkflow BY DEF Sound, Homes, Near, AtHome, OwnWorkflow
<1> QED BY <1>1, <1>2 DEF BothEnds, Sound

-----------------------------------------------------------------------------
(* What the type invariant says of one file.                               *)

LEMMA LinkFacts ==
  /\ \A l \in Links : l.node \in ID /\ L(l.name, l.node, l.file) = l
                      /\ \A d \in ID : L(l.file, d, l.name) \in Links
  /\ \A n, c, f : L(n, c, f).name = n /\ L(n, c, f).node = c /\ L(n, c, f).file = f
BY DEF Links, L

LEMMA FileTypes ==
  ASSUME TypeOK, NEW c \in Component
  PROVE  /\ c \in ID /\ json[c] \in Json
         /\ json[c].next \subseteq ID /\ json[c].else \subseteq ID /\ json[c].previous \subseteq ID
         /\ json[c].src \subseteq Links /\ json[c].dst \subseteq Links
         /\ json[c].forwardTo \subseteq Links /\ json[c].origin \subseteq Links
         /\ json[c].inputFiles \subseteq Name \union {UploadOnDemand}
         /\ json[c].outputFiles \subseteq Name \union {UploadOnDemand}
         /\ json[c].parent \in ID \union {None} /\ json[c].type \in Types
BY DEF TypeOK, Component, Json

-----------------------------------------------------------------------------
(* What stays as it is while files are rewritten.                          *)

KeepsLinks(d) ==
  json'[d].next = json[d].next /\ json'[d].else = json[d].else /\ json'[d].previous = json[d].previous
KeepsFileLinks(d) ==
  /\ json'[d].src = json[d].src /\ json'[d].dst = json[d].dst
  /\ json'[d].forwardTo = json[d].forwardTo /\ json'[d].origin = json[d].origin
KeepsNames(d) ==
  json[d].inputFiles \subseteq json'[d].inputFiles /\ json[d].outputFiles \subseteq json'[d].outputFiles
\* A rewrite of files, of components where they are.
Rewrite ==
  /\ TypeOK' /\ place' = place /\ DOMAIN json' = DOMAIN json
  /\ \A d \in Component : json'[d].parent = json[d].parent
Forgets == \A d \in Component : Counterparts(d)' \subseteq Counterparts(d)

LEMMA HomesKept ==
  ASSUME Sound, Rewrite, Forgets
  PROVE  Homes'
<1>1. Component' = Component BY DEF Rewrite, Component
<1>2. Root \in Component BY DEF Sound, Homes, RootAlone
<1>3. Nested' BY <1>1 DEF Sound, Homes, Nested, Rewrite
<1>4. RootAlone' BY <1>1, <1>2 DEF Sound, Homes, RootAlone, Rewrite, Forgets
<1>5. Near' BY <1>1 DEF Sound, Homes, Near, Rewrite, Forgets
<1>6. AtHome' BY <1>1 DEF Sound, Homes, AtHome, Rewrite
<1> QED BY <1>3, <1>4, <1>5, <1>6 DEF Homes

LEMMA LinksKept ==
  ASSUME Sound, Rewrite, \A d \in Component : KeepsLinks(d)
  PROVE  LinksAgree' /\ OneLink'
<1>1. Component' = Component BY DEF Rewrite, Component
<1>2. LinksAgree' BY <1>1 DEF Sound, LinksAgree, KeepsLinks
<1>3. OneLink' BY <1>1 DEF Sound, OneLink, KeepsLinks
<1> QED BY <1>2, <1>3

LEMMA FileLinksKept ==
  ASSUME Sound, Rewrite, \A d \in Component : KeepsFileLinks(d) /\ KeepsNames(d)
  PROVE  Files' /\ Children'
<1>1. Component' = Component BY DEF Rewrite, Component
<1>2. SourcesAgree' BY <1>1 DEF Sound, Files, SourcesAgree, KeepsFileLinks, KeepsNames, Rewrite
<1>3. TargetsAgree' BY <1>1 DEF Sound, Files, TargetsAgree, KeepsFileLinks, KeepsNames, Rewrite
<1>4. ForwardsAgree' BY <1>1 DEF Sound, Files, ForwardsAgree, KeepsFileLinks
<1>5. OriginsAgree' BY <1>1 DEF Sound, Files, OriginsAgree, KeepsFileLinks
<1>6. Children' BY <1>1 DEF Sound, Children, KeepsFileLinks, Rewrite
<1> QED BY <1>2, <1>3, <1>4, <1>5, <1>6 DEF Files

LEMMA CounterpartsKept ==
  ASSUME NEW d, KeepsLinks(d), json'[d].src = json[d].src, json'[d].dst = json[d].dst
  PROVE  Counterparts(d)' = Counterparts(d)
BY DEF Counterparts, KeepsLinks

-----------------------------------------------------------------------------
(* Links.                                                                  *)

\* Two components joined by a link are siblings, and neither is the root.
LEMMA LinkedSiblings ==
  ASSUME Sound, NEW c \in Component,
         NEW d \in json[c].next \union json[c].else \union json[c].previous
  PROVE  /\ d \in Component \ {Root} /\ c # Root /\ d # c /\ place[d] = place[c]
         /\ d \in Counterparts(c) /\ c \in Counterparts(d)
<1>1. d \in Component /\ d \in Counterparts(c) /\ c \in Counterparts(d)
  BY DEF Sound, LinksAgree, Counterparts
<1>2. c # Root /\ d # Root BY <1>1 DEF Sound, Homes, RootAlone
<1>3. d # place[c]
  <2>1. SUFFICES ASSUME d = place[c] PROVE FALSE OBVIOUS
  <2>2. c # place[d] BY <1>1, <1>2, <2>1 DEF Sound, Homes, Nested
  <2>3. place[c] = place[d] BY <1>1, <1>2, <2>2 DEF Sound, Homes, Near
  <2> QED BY <1>1, <1>2, <2>1, <2>3 DEF Sound, Homes, Nested
<1> QED BY <1>1, <1>2, <1>3 DEF Sound, Homes, Near

\* Links of files stay good when links are added between siblings or removed.
LEMMA LinksRewritten ==
  ASSUME Sound, Rewrite,
         \A d \in Component :
           /\ KeepsFileLinks(d) /\ KeepsNames(d)
           /\ \A e \in (json'[d].next \union json'[d].else \union json'[d].previous)
                        \ (json[d].next \union json[d].else \union json[d].previous) : Siblings(d, e)
  PROVE  Homes' /\ Files' /\ Children'
<1>1. Component' = Component BY DEF Rewrite, Component
<1>2. ASSUME NEW d \in Component, NEW e \in Counterparts(d)'
      PROVE  e \in Counterparts(d) \/ Siblings(d, e)
  BY <1>2 DEF Counterparts, KeepsFileLinks
<1>3. Homes'
  <2>1. Nested' BY <1>1 DEF Sound, Homes, Nested, Rewrite
  <2>2. RootAlone' BY <1>1, <1>2 DEF Sound, Homes, RootAlone, Rewrite, Siblings
  <2>3. Near' BY <1>1, <1>2 DEF Sound, Homes, Near, Rewrite, Siblings
  <2>4. AtHome' BY <1>1 DEF Sound, Homes, AtHome, Rewrite
  <2> QED BY <2>1, <2>2, <2>3, <2>4 DEF Homes
<1> QED BY <1>3, FileLinksKept

\* The files after addLink().
LinkAdded(s, d, isElse) ==
  /\ s \in Component /\ d \in Component /\ Siblings(s, d) /\ Siblings(d, s)
  /\ d \notin json[s].next \union json[s].else /\ s \notin json[d].next \union json[d].else
  /\ Rewrite
  /\ \A c \in Component :
       /\ KeepsFileLinks(c) /\ KeepsNames(c)
       /\ json'[c].next = IF c = s /\ ~isElse THEN json[c].next \union {d} ELSE json[c].next
       /\ json'[c].else = IF c = s /\ isElse THEN json[c].else \union {d} ELSE json[c].else
       /\ json'[c].previous = IF c = d THEN json[c].previous \union {s} ELSE json[c].previous

LEMMA AddLinkFiles ==
  ASSUME Sound, NEW s, NEW d, NEW isElse \in BOOLEAN, addLink(s, d, isElse), ~Careless,
         edits' \in 0..MaxEdits
  PROVE  LinkAdded(s, d, isElse)
<1>1. /\ s \in Component /\ d \in Component /\ s # d /\ Siblings(s, d) /\ Siblings(d, s)
      /\ d \notin json[s].next \union json[s].else /\ s \notin json[d].next \union json[d].else
  BY DEF addLink, Siblings
<1>2. json' = IF isElse
              THEN [json EXCEPT ![s].else = @ \union {d}, ![d].previous = @ \union {s}]
              ELSE [json EXCEPT ![s].next = @ \union {d}, ![d].previous = @ \union {s}]
  BY <1>1 DEF addLink
<1>3. /\ DOMAIN json' = Component
      /\ \A c \in Component \ {s, d} : json'[c] = json[c]
      /\ json'[d] = [json[d] EXCEPT !.previous = @ \union {s}]
      /\ isElse => json'[s] = [json[s] EXCEPT !.else = @ \union {d}]
      /\ ~isElse => json'[s] = [json[s] EXCEPT !.next = @ \union {d}]
  BY <1>1, <1>2 DEF Component
<1>4. \A c \in Component :
        /\ KeepsFileLinks(c) /\ KeepsNames(c)
        /\ json'[c].next = IF c = s /\ ~isElse THEN json[c].next \union {d} ELSE json[c].next
        /\ json'[c].else = IF c = s /\ isElse THEN json[c].else \union {d} ELSE json[c].else
        /\ json'[c].previous = IF c = d THEN json[c].previous \union {s} ELSE json[c].previous
        /\ json'[c].parent = json[c].parent /\ json'[c] \in Json
  <2> TAKE c \in Component
  <2>1. json[c] \in Json /\ s \in ID /\ d \in ID BY <1>1, FileTypes DEF Sound
  <2>2. CASE c # s /\ c # d BY <1>3, <2>1, <2>2 DEF KeepsFileLinks, KeepsNames
  <2>3. CASE c = d BY <1>1, <1>3, <2>1, <2>3 DEF KeepsFileLinks, KeepsNames, Json
  <2>4. CASE c = s /\ isElse BY <1>1, <1>3, <2>1, <2>4 DEF KeepsFileLinks, KeepsNames, Json
  <2>5. CASE c = s /\ ~isElse BY <1>1, <1>3, <2>1, <2>5 DEF KeepsFileLinks, KeepsNames, Json
  <2> QED BY <2>2, <2>3, <2>4, <2>5
<1>5. Rewrite BY <1>3, <1>4 DEF Rewrite, addLink, Sound, TypeOK, Component
<1> QED BY <1>1, <1>4, <1>5 DEF LinkAdded

LEMMA AddLinkSound ==
  ASSUME Sound, NEW s, NEW d, NEW isElse \in BOOLEAN, addLink(s, d, isElse), ~Careless,
         edits' \in 0..MaxEdits
  PROVE  Sound'
<1>1. LinkAdded(s, d, isElse) BY AddLinkFiles
<1>2. Component' = Component /\ Rewrite BY <1>1 DEF LinkAdded, Rewrite, Component
<1>3. Homes' /\ Files' /\ Children' BY <1>1, LinksRewritten DEF LinkAdded
<1>4. \A c \in Component : json'[c].next \union json'[c].else =
        IF c = s THEN json[c].next \union json[c].else \union {d} ELSE json[c].next \union json[c].else
  BY <1>1 DEF LinkAdded
<1>5. LinksAgree'
  <2>1. SUFFICES ASSUME NEW c \in Component
        PROVE /\ (json'[c].next \union json'[c].else) \union json'[c].previous \subseteq Component
              /\ \A e \in json'[c].next \union json'[c].else : c \in json'[e].previous
              /\ \A e \in json'[c].previous : c \in json'[e].next \union json'[e].else
    BY <1>2 DEF LinksAgree
  <2>2. /\ (json[c].next \union json[c].else) \union json[c].previous \subseteq Component
        /\ \A e \in json[c].next \union json[c].else : c \in json[e].previous
        /\ \A e \in json[c].previous : c \in json[e].next \union json[e].else
    BY DEF Sound, LinksAgree
  <2>3. \A e \in Component : json[e].previous \subseteq json'[e].previous BY <1>1 DEF LinkAdded
  <2>4. s \in json'[d].previous /\ d \in Component /\ s \in Component BY <1>1 DEF LinkAdded
  <2>5. \A e \in json'[c].next \union json'[c].else : c \in json'[e].previous
    BY <1>4, <2>2, <2>3, <2>4
  <2>6. \A e \in json'[c].previous : e \in json[c].previous \/ (c = d /\ e = s)
    BY <1>1 DEF LinkAdded
  <2>7. \A e \in json'[c].previous : c \in json'[e].next \union json'[e].else
    BY <1>4, <2>2, <2>4, <2>6
  <2> QED BY <1>4, <2>2, <2>4, <2>5, <2>6, <2>7
<1>6. OneLink'
  <2>1. \A c \in Component : json'[c].next \intersect json'[c].else = {}
    <3>1. \A c \in Component : json[c].next \intersect json[c].else = {} BY DEF Sound, OneLink
    <3>2. d \notin json[s].next \union json[s].else BY <1>1 DEF LinkAdded
    <3>3. \A c \in Component :
            /\ json'[c].next \subseteq json[c].next \union {d}
            /\ json'[c].else \subseteq json[c].else \union {d}
            /\ c = s \/ (json'[c].next = json[c].next /\ json'[c].else = json[c].else)
            /\ c = s => json'[c].next = json[c].next \/ json'[c].else = json[c].else
      BY <1>1 DEF LinkAdded
    <3> QED BY <3>1, <3>2, <3>3
  <2>2. \A c, e \in Component : e \in json'[c].next \union json'[c].else
                                  => c \notin json'[e].next \union json'[e].else
    BY <1>1, <1>4 DEF Sound, OneLink, LinkAdded, Siblings
  <2> QED BY <1>2, <2>1, <2>2 DEF OneLink
<1> QED BY <1>2, <1>3, <1>5, <1>6 DEF Sound, Rewrite

-----------------------------------------------------------------------------
(* The removal of links.                                                   *)

\* The files after the entries of R are gone: of those, the first is linked to
\* the second.
LinksRemoved(R) ==
  /\ Rewrite
  /\ \A c \in Component :
       /\ KeepsFileLinks(c) /\ KeepsNames(c)
       /\ json'[c].next = {d \in json[c].next : <<c, d>> \notin R}
       /\ json'[c].else = {d \in json[c].else : <<c, d>> \notin R}
       /\ json'[c].previous = {d \in json[c].previous : <<d, c>> \notin R}

LEMMA LinksRemovedSound ==
  ASSUME Sound, NEW R, LinksRemoved(R)
  PROVE  Sound'
<1>1. Component' = Component /\ Rewrite BY DEF LinksRemoved, Rewrite, Component
<1>2. Homes' /\ Files' /\ Children' BY LinksRewritten DEF LinksRemoved
<1>3. LinksAgree'
  <2>1. SUFFICES ASSUME NEW c \in Component
        PROVE /\ (json'[c].next \union json'[c].else) \union json'[c].previous \subseteq Component
              /\ \A e \in json'[c].next \union json'[c].else : c \in json'[e].previous
              /\ \A e \in json'[c].previous : c \in json'[e].next \union json'[e].else
    BY <1>1 DEF LinksAgree
  <2>2. /\ (json[c].next \union json[c].else) \union json[c].previous \subseteq Component
        /\ \A e \in json[c].next \union json[c].else : c \in json[e].previous
        /\ \A e \in json[c].previous : c \in json[e].next \union json[e].else
    BY DEF Sound, LinksAgree
  <2> QED BY <2>2 DEF LinksRemoved
<1>4. OneLink'
  <2>1. \A c \in Component : json'[c].next \subseteq json[c].next /\ json'[c].else \subseteq json[c].else
    BY DEF LinksRemoved
  <2>2. /\ \A c \in Component : json[c].next \intersect json[c].else = {}
        /\ \A c, d \in Component : d \in json[c].next \union json[c].else
                                     => c \notin json[d].next \union json[d].else
    BY DEF Sound, OneLink
  <2>3. \A c \in Component : json'[c].next \intersect json'[c].else = {} BY <2>1, <2>2
  <2>4. \A c, d \in Component : d \in json'[c].next \union json'[c].else
                                  => c \notin json'[d].next \union json'[d].else
    BY <2>1, <2>2
  <2> QED BY <1>1, <2>3, <2>4 DEF OneLink
<1> QED BY <1>1, <1>2, <1>3, <1>4 DEF Sound, Rewrite

\* previous is dropped with the only link there is.
LEMMA RemoveLinkFiles ==
  ASSUME Sound, NEW s, NEW d, NEW isElse \in BOOLEAN, removeLink(s, d, isElse),
         edits' \in 0..MaxEdits
  PROVE  s \in Component /\ LinksRemoved({<<s, d>>})
<1>1. /\ s \in Component /\ d \in Component
      /\ d \in IF isElse THEN json[s].else ELSE json[s].next
  BY DEF removeLink
<1>2. d # s BY <1>1, LinkedSiblings
<1>3. /\ isElse => d \notin json[s].next
      /\ ~isElse => d \notin json[s].else
  BY <1>1 DEF Sound, OneLink
<1>4. json' = IF isElse
              THEN [json EXCEPT ![s].else = Without(@, d), ![d].previous = Without(@, s)]
              ELSE [json EXCEPT ![s].next = Without(@, d), ![d].previous = Without(@, s)]
  BY DEF removeLink
<1>5. /\ DOMAIN json' = Component
      /\ \A c \in Component \ {s, d} : json'[c] = json[c]
      /\ json'[d] = [json[d] EXCEPT !.previous = Without(@, s)]
      /\ isElse => json'[s] = [json[s] EXCEPT !.else = Without(@, d)]
      /\ ~isElse => json'[s] = [json[s] EXCEPT !.next = Without(@, d)]
  BY <1>1, <1>2, <1>4 DEF Component
<1>6. \A c \in Component :
        /\ KeepsFileLinks(c) /\ KeepsNames(c)
        /\ json'[c].next = IF c = s /\ ~isElse THEN Without(json[c].next, d) ELSE json[c].next
        /\ json'[c].else = IF c = s /\ isElse THEN Without(json[c].else, d) ELSE json[c].else
        /\ json'[c].previous = IF c = d THEN Without(json[c].previous, s) ELSE json[c].previous
        /\ json'[c].parent = json[c].parent /\ json'[c] \in Json
  <2> TAKE c \in Component
  <2>1. json[c] \in Json BY FileTypes DEF Sound
  <2>2. CASE c # s /\ c # d BY <1>5, <2>1, <2>2 DEF KeepsFileLinks, KeepsNames
  <2>3. CASE c = d BY <1>2, <1>5, <2>1, <2>3 DEF KeepsFileLinks, KeepsNames, Json, Without
  <2>4. CASE c = s /\ isElse BY <1>2, <1>5, <2>1, <2>4 DEF KeepsFileLinks, KeepsNames, Json, Without
  <2>5. CASE c = s /\ ~isElse BY <1>2, <1>5, <2>1, <2>5 DEF KeepsFileLinks, KeepsNames, Json, Without
  <2> QED BY <2>2, <2>3, <2>4, <2>5
<1>7. Rewrite BY <1>5, <1>6 DEF Rewrite, removeLink, Sound, TypeOK, Component
<1>8. LinksRemoved({<<s, d>>})
  <2>1. \A c \in Component :
          /\ json'[c].next = {e \in json[c].next : <<c, e>> \notin {<<s, d>>}}
          /\ json'[c].else = {e \in json[c].else : <<c, e>> \notin {<<s, d>>}}
          /\ json'[c].previous = {e \in json[c].previous : <<e, c>> \notin {<<s, d>>}}
    <3> TAKE c \in Component
    <3>1. json'[c].next = {e \in json[c].next : <<c, e>> \notin {<<s, d>>}}
      BY <1>3, <1>6 DEF Without
    <3>2. json'[c].else = {e \in json[c].else : <<c, e>> \notin {<<s, d>>}}
      BY <1>3, <1>6 DEF Without
    <3>3. json'[c].previous = {e \in json[c].previous : <<e, c>> \notin {<<s, d>>}}
      BY <1>6 DEF Without
    <3> QED BY <3>1, <3>2, <3>3
  <2> QED BY <1>6, <1>7, <2>1 DEF LinksRemoved
<1> QED BY <1>1, <1>8

Touching(c) == {e \in Component \X Component : c \in {e[1], e[2]}}

\* No component is both before and after c, so that each is written once.
LEMMA RemoveAllLinkFiles ==
  ASSUME Sound, NEW c, removeAllLink(c), edits' \in 0..MaxEdits
  PROVE  c \in Component /\ LinksRemoved(Touching(c))
<1> DEFINE before == json[c].previous
           after == json[c].next \union json[c].else
<1>1. c \in Component BY DEF removeAllLink
<1>2. before \union after \subseteq Component BY <1>1 DEF Sound, LinksAgree
<1>3. before \intersect after = {}
  BY <1>1, <1>2 DEF Sound, LinksAgree, OneLink
<1>4. json' = [d \in Component |->
         CASE d = c -> [json[c] EXCEPT !.previous = {}, !.next = {}, !.else = {}]
           [] OTHER ->
                [json[d] EXCEPT !.next = IF d \in before THEN Without(@, c) ELSE @,
                                !.else = IF d \in before THEN Without(@, c) ELSE @,
                                !.previous = IF d \in after THEN Without(@, c) ELSE @]]
  <2>1. PICK asSource \in SUBSET (before \intersect Component),
             asTarget \in SUBSET (after \intersect Component) :
          LET complete == before \union after \subseteq Component IN
           /\ complete => asSource \union asTarget = before \union after
                          /\ before \ after \subseteq asSource /\ after \ before \subseteq asTarget
           /\ json' = [d \in Component |->
                CASE d = c /\ complete ->
                       [json[c] EXCEPT !.previous = {}, !.next = {}, !.else = {}]
                  [] OTHER ->
                       [json[d] EXCEPT !.next = IF d \in asSource THEN Without(@, c) ELSE @,
                                       !.else = IF d \in asSource THEN Without(@, c) ELSE @,
                                       !.previous = IF d \in asTarget THEN Without(@, c) ELSE @]]
    BY DEF removeAllLink
  <2>2. asSource = before /\ asTarget = after BY <1>2, <1>3, <2>1
  <2> QED BY <1>2, <2>1, <2>2
<1>5. \A d \in Component :
        /\ KeepsFileLinks(d) /\ KeepsNames(d)
        /\ json'[d].next = IF d = c THEN {} ELSE Without(json[d].next, c)
        /\ json'[d].else = IF d = c THEN {} ELSE Without(json[d].else, c)
        /\ json'[d].previous = IF d = c THEN {} ELSE Without(json[d].previous, c)
        /\ json'[d].parent = json[d].parent /\ json'[d] \in Json
  <2> TAKE d \in Component
  <2>1. json[d] \in Json BY FileTypes DEF Sound
  <2>2. CASE d = c BY <1>4, <2>1, <2>2 DEF KeepsFileLinks, KeepsNames, Json
  <2>3. CASE d # c
    <3>1. /\ d \notin before => c \notin json[d].next \union json[d].else
          /\ d \notin after => c \notin json[d].previous
      BY <1>1 DEF Sound, LinksAgree
    <3>2. json'[d] = [json[d] EXCEPT !.next = IF d \in before THEN Without(@, c) ELSE @,
                                     !.else = IF d \in before THEN Without(@, c) ELSE @,
                                     !.previous = IF d \in after THEN Without(@, c) ELSE @]
      BY <1>4, <2>3
    <3>3. /\ (IF d \in before THEN Without(json[d].next, c) ELSE json[d].next) = Without(json[d].next, c)
          /\ (IF d \in before THEN Without(json[d].else, c) ELSE json[d].else) = Without(json[d].else, c)
          /\ (IF d \in after THEN Without(json[d].previous, c) ELSE json[d].previous)
               = Without(json[d].previous, c)
      BY <3>1 DEF Without
    <3>4. /\ json'[d].next = Without(json[d].next, c) /\ json'[d].else = Without(json[d].else, c)
          /\ json'[d].previous = Without(json[d].previous, c)
          /\ KeepsFileLinks(d) /\ KeepsNames(d) /\ json'[d].parent = json[d].parent
      BY <2>1, <3>2, <3>3 DEF KeepsFileLinks, KeepsNames, Json
    <3>5. json'[d] \in Json
      <4> DEFINE nexts == IF d \in before THEN Without(json[d].next, c) ELSE json[d].next
                 elses == IF d \in before THEN Without(json[d].else, c) ELSE json[d].else
                 previouses == IF d \in after THEN Without(json[d].previous, c) ELSE json[d].previous
      <4>1. /\ json[d].next \subseteq ID /\ json[d].else \subseteq ID /\ json[d].previous \subseteq ID
        BY FileTypes DEF Sound
      <4>2. nexts \in SUBSET ID /\ elses \in SUBSET ID /\ previouses \in SUBSET ID
        BY <4>1 DEF Without
      <4>3. json'[d] = [json[d] EXCEPT !.next = nexts, !.else = elses, !.previous = previouses]
        BY <3>2
      <4> HIDE DEF nexts, elses, previouses
      <4> QED BY <2>1, <4>2, <4>3 DEF Json
    <3> QED BY <2>3, <3>4, <3>5
  <2> QED BY <2>2, <2>3
<1>6. Rewrite BY <1>4, <1>5 DEF Rewrite, removeAllLink, Sound, TypeOK, Component
<1>7. LinksRemoved(Touching(c))
  <2>1. \A d \in Component :
          (json[d].next \union json[d].else) \union json[d].previous \subseteq Component
    BY DEF Sound, LinksAgree
  <2>2. \A d, e \in Component : <<d, e>> \in Touching(c) <=> c = d \/ c = e
    BY DEF Touching
  <2> QED BY <1>5, <1>6, <2>1, <2>2 DEF LinksRemoved, Without
<1> QED BY <1>1, <1>7

-----------------------------------------------------------------------------
(* Links of files as edges: from a component and a file to a component and *)
(* a file, between siblings, down from a parent or up to it.  An edit of   *)
(* links of files is a change of the three sets.                           *)

Names == Name \union {UploadOnDemand}
Edge == ID \X Names \X ID \X Names

Beside == {e \in Edge : /\ e[3] \in Component /\ e[1] # json[e[3]].parent
                        /\ L(e[4], e[1], e[2]) \in json[e[3]].src}
Down == {e \in Edge : /\ e[3] \in Component /\ e[1] = json[e[3]].parent
                      /\ L(e[4], e[1], e[2]) \in json[e[3]].src}
Up == {e \in Edge : e[3] \in Component /\ L(e[4], e[1], e[2]) \in json[e[3]].origin}

\* The files record the edges of B, D and U.
Record(B, D, U) ==
  \A c \in Component : \A n, f \in Names, x \in ID :
    /\ L(n, x, f) \in json[c].src <=> <<x, f, c, n>> \in B \union D
    /\ L(n, x, f) \in json[c].dst <=> <<c, n, x, f>> \in B \union U
    /\ L(n, x, f) \in json[c].forwardTo <=> <<c, n, x, f>> \in D
    /\ L(n, x, f) \in json[c].origin <=> <<x, f, c, n>> \in U

\* Edges of B, D and U join what they should.
Fit(B, D, U) ==
  \A s, d \in ID, o, i \in Names :
    /\ <<s, o, d, i>> \in B =>
         /\ {s, d} \subseteq Component \ {Root} /\ s # d /\ place[s] = place[d]
         /\ o \in json[s].outputFiles /\ i \in json[d].inputFiles
    /\ <<s, o, d, i>> \in D =>
         /\ {s, d} \subseteq Component /\ d # Root /\ s = place[d]
         /\ o \in json[s].inputFiles /\ i \in json[d].inputFiles
    /\ <<s, o, d, i>> \in U =>
         /\ {s, d} \subseteq Component /\ s # Root /\ d = place[s]
         /\ o \in json[s].outputFiles /\ i \in json[d].outputFiles

\* The same of the next state, of sets that may be written with this one.
RecordNext(B, D, U) ==
  \A c \in DOMAIN json' : \A n, f \in Names, x \in ID :
    /\ L(n, x, f) \in json'[c].src <=> <<x, f, c, n>> \in B \union D
    /\ L(n, x, f) \in json'[c].dst <=> <<c, n, x, f>> \in B \union U
    /\ L(n, x, f) \in json'[c].forwardTo <=> <<c, n, x, f>> \in D
    /\ L(n, x, f) \in json'[c].origin <=> <<x, f, c, n>> \in U
FitNext(B, D, U) ==
  \A s, d \in ID, o, i \in Names :
    /\ <<s, o, d, i>> \in B =>
         /\ {s, d} \subseteq DOMAIN json' \ {Root} /\ s # d /\ place'[s] = place'[d]
         /\ o \in json'[s].outputFiles /\ i \in json'[d].inputFiles
    /\ <<s, o, d, i>> \in D =>
         /\ {s, d} \subseteq DOMAIN json' /\ d # Root /\ s = place'[d]
         /\ o \in json'[s].inputFiles /\ i \in json'[d].inputFiles
    /\ <<s, o, d, i>> \in U =>
         /\ {s, d} \subseteq DOMAIN json' /\ s # Root /\ d = place'[s]
         /\ o \in json'[s].outputFiles /\ i \in json'[d].outputFiles

LEMMA LinkForms ==
  ASSUME NEW l \in Links
  PROVE  /\ l.name \in Names /\ l.file \in Names /\ l.node \in ID
         /\ l = L(l.name, l.node, l.file)
BY DEF Links, L, Names

LEMMA LinkParts ==
  /\ \A n, c, f : L(n, c, f).name = n /\ L(n, c, f).node = c /\ L(n, c, f).file = f
  /\ \A n, f \in Names, c \in ID : L(n, c, f) \in Links
  /\ \A n, c, f, m, d, g : L(n, c, f) = L(m, d, g) <=> n = m /\ c = d /\ f = g
BY DEF Links, L, Names

LEMMA EdgeForms ==
  /\ \A s, d \in ID, o, i \in Names : <<s, o, d, i>> \in Edge
  /\ \A e \in Edge : /\ e = <<e[1], e[2], e[3], e[4]>>
                     /\ e[1] \in ID /\ e[2] \in Names /\ e[3] \in ID /\ e[4] \in Names
BY DEF Edge

\* The other end of a link of files is the parent or a sibling.
LEMMA SourceEnds ==
  ASSUME Sound, NEW c \in Component, NEW l \in json[c].src \union json[c].dst
  PROVE  /\ l \in Links /\ l.node \in Component /\ l.node \in Counterparts(c)
         /\ c # Root /\ json[c].parent = place[c] /\ l.node # c
         /\ l.node # place[c] => /\ l.node # Root /\ place[l.node] = place[c]
                                 /\ json[l.node].parent = place[c] /\ place[c] # c
         /\ l.node \notin Component \ {Root} \/ place[l.node] # c
<1>1. l \in Links BY FileTypes DEF Sound
<1>2. l.node \in Component BY DEF Sound, Files, SourcesAgree, TargetsAgree
<1>3. l.node \in Counterparts(c) BY DEF Counterparts
<1>4. c # Root BY <1>3 DEF Sound, Homes, RootAlone
<1>5. json[c].parent = place[c] /\ place[c] # c BY <1>4 DEF Sound, Homes, AtHome, Nested
<1>6. l.node # place[c] => l.node \in Component \ {Root} /\ l.node # c /\ place[l.node] = place[c]
  BY <1>3, <1>4 DEF Sound, Homes, Near
<1>7. l.node # place[c] => json[l.node].parent = place[c] BY <1>6 DEF Sound, Homes, AtHome
<1>8. l.node \notin Component \ {Root} \/ place[l.node] # c
  <2>1. CASE l.node = place[c] BY <1>4, <2>1 DEF Sound, Homes, Nested
  <2>2. CASE l.node # place[c] BY <1>5, <1>6, <2>2
  <2> QED BY <2>1, <2>2
<1> QED BY <1>1, <1>2, <1>3, <1>4, <1>5, <1>6, <1>7, <1>8

LEMMA EdgesRecorded ==
  ASSUME Sound PROVE Record(Beside, Down, Up)
<1> SUFFICES ASSUME NEW c \in Component, NEW n \in Names, NEW f \in Names, NEW x \in ID
    PROVE  /\ L(n, x, f) \in json[c].src <=> <<x, f, c, n>> \in Beside \union Down
           /\ L(n, x, f) \in json[c].dst <=> <<c, n, x, f>> \in Beside \union Up
           /\ L(n, x, f) \in json[c].forwardTo <=> <<c, n, x, f>> \in Down
           /\ L(n, x, f) \in json[c].origin <=> <<x, f, c, n>> \in Up
  BY DEF Record
<1>1. c \in ID BY FileTypes DEF Sound
<1>2. <<x, f, c, n>> \in Edge /\ <<c, n, x, f>> \in Edge BY <1>1, EdgeForms
<1>3. L(n, x, f).name = n /\ L(n, x, f).node = x /\ L(n, x, f).file = f
      /\ L(f, c, n).name = f /\ L(f, c, n).node = c /\ L(f, c, n).file = n
  BY LinkParts
<1>4. L(n, x, f) \in json[c].src <=> <<x, f, c, n>> \in Beside \union Down
  BY <1>2 DEF Beside, Down
<1>5. L(n, x, f) \in json[c].origin <=> <<x, f, c, n>> \in Up
  BY <1>2 DEF Up
<1>6. <<c, n, x, f>> \in Beside <=> /\ x \in Component /\ c # json[x].parent
                                    /\ L(f, c, n) \in json[x].src
  BY <1>2 DEF Beside
<1>7. <<c, n, x, f>> \in Down <=> /\ x \in Component /\ c = json[x].parent
                                  /\ L(f, c, n) \in json[x].src
  BY <1>2 DEF Down
<1>8. <<c, n, x, f>> \in Up <=> x \in Component /\ L(f, c, n) \in json[x].origin
  BY <1>2 DEF Up
<1>9. L(n, x, f) \in json[c].dst => <<c, n, x, f>> \in Beside \union Up
  <2>1. SUFFICES ASSUME L(n, x, f) \in json[c].dst PROVE <<c, n, x, f>> \in Beside \union Up
    OBVIOUS
  <2>2. x \in Component /\ c # Root /\ json[c].parent = place[c]
        /\ (x # place[c] => json[x].parent = place[c] /\ place[c] # c)
    BY <1>3, <2>1, SourceEnds
  <2>3. CASE x = json[c].parent
    BY <1>3, <1>8, <2>1, <2>2, <2>3 DEF Sound, Files, TargetsAgree
  <2>4. CASE x # json[c].parent
    BY <1>3, <1>6, <2>1, <2>2, <2>4 DEF Sound, Files, TargetsAgree
  <2> QED BY <2>3, <2>4
<1>10. <<c, n, x, f>> \in Beside => L(n, x, f) \in json[c].dst
  BY <1>3, <1>6 DEF Sound, Files, SourcesAgree
<1>11. <<c, n, x, f>> \in Up => L(n, x, f) \in json[c].dst
  BY <1>3, <1>8 DEF Sound, Files, OriginsAgree
<1>12. <<c, n, x, f>> \in Down => L(n, x, f) \in json[c].forwardTo
  BY <1>3, <1>7 DEF Sound, Files, SourcesAgree
<1>13. L(n, x, f) \in json[c].forwardTo => <<c, n, x, f>> \in Down
  <2>1. SUFFICES ASSUME L(n, x, f) \in json[c].forwardTo PROVE <<c, n, x, f>> \in Down
    OBVIOUS
  <2>2. x \in Component \ {Root} /\ place[x] = c BY <1>3, <2>1 DEF Sound, Children
  <2>3. json[x].parent = c BY <2>2 DEF Sound, Homes, AtHome
  <2>4. L(f, c, n) \in json[x].src BY <1>3, <2>1 DEF Sound, Files, ForwardsAgree
  <2> QED BY <1>7, <2>2, <2>3, <2>4
<1> QED BY <1>4, <1>5, <1>9, <1>10, <1>11, <1>12, <1>13

LEMMA EdgesFit ==
  ASSUME Sound PROVE Fit(Beside, Down, Up) /\ {Beside, Down, Up} \subseteq SUBSET Edge
<1>0. {Beside, Down, Up} \subseteq SUBSET Edge BY DEF Beside, Down, Up
<1> SUFFICES ASSUME NEW s \in ID, NEW d \in ID, NEW o \in Names, NEW i \in Names
    PROVE
    /\ <<s, o, d, i>> \in Beside =>
         /\ {s, d} \subseteq Component \ {Root} /\ s # d /\ place[s] = place[d]
         /\ o \in json[s].outputFiles /\ i \in json[d].inputFiles
    /\ <<s, o, d, i>> \in Down =>
         /\ {s, d} \subseteq Component /\ d # Root /\ s = place[d]
         /\ o \in json[s].inputFiles /\ i \in json[d].inputFiles
    /\ <<s, o, d, i>> \in Up =>
         /\ {s, d} \subseteq Component /\ s # Root /\ d = place[s]
         /\ o \in json[s].outputFiles /\ i \in json[d].outputFiles
  BY <1>0 DEF Fit
<1>1. L(i, s, o).name = i /\ L(i, s, o).node = s /\ L(i, s, o).file = o BY LinkParts
<1>2. <<s, o, d, i>> \in Edge BY EdgeForms
<1>3. ASSUME <<s, o, d, i>> \in Beside
      PROVE  /\ {s, d} \subseteq Component \ {Root} /\ s # d /\ place[s] = place[d]
             /\ o \in json[s].outputFiles /\ i \in json[d].inputFiles
  <2>1. d \in Component /\ s # json[d].parent /\ L(i, s, o) \in json[d].src BY <1>2, <1>3 DEF Beside
  <2>2. /\ s \in Component /\ d # Root /\ json[d].parent = place[d] /\ s # d
        /\ s # place[d] => s # Root /\ place[s] = place[d]
    BY <1>1, <2>1, SourceEnds
  <2> QED BY <1>1, <2>1, <2>2 DEF Sound, Files, SourcesAgree
<1>4. ASSUME <<s, o, d, i>> \in Down
      PROVE  /\ {s, d} \subseteq Component /\ d # Root /\ s = place[d]
             /\ o \in json[s].inputFiles /\ i \in json[d].inputFiles
  <2>1. d \in Component /\ s = json[d].parent /\ L(i, s, o) \in json[d].src BY <1>2, <1>4 DEF Down
  <2>2. s \in Component /\ d # Root /\ json[d].parent = place[d] BY <1>1, <2>1, SourceEnds
  <2> QED BY <1>1, <2>1, <2>2 DEF Sound, Files, SourcesAgree
<1>5. ASSUME <<s, o, d, i>> \in Up
      PROVE  /\ {s, d} \subseteq Component /\ s # Root /\ d = place[s]
             /\ o \in json[s].outputFiles /\ i \in json[d].outputFiles
  <2>1. d \in Component /\ L(i, s, o) \in json[d].origin BY <1>2, <1>5 DEF Up
  <2>2. s \in Component \ {Root} /\ place[s] = d BY <1>1, <2>1 DEF Sound, Children
  <2>3. json[s].parent = d BY <2>2 DEF Sound, Homes, AtHome
  <2>4. L(o, d, i) \in json[s].dst BY <1>1, <2>1 DEF Sound, Files, OriginsAgree
  <2>5. L(o, d, i).name = o /\ L(o, d, i).node = d /\ L(o, d, i).file = i BY LinkParts
  <2> QED BY <2>1, <2>2, <2>3, <2>4, <2>5 DEF Sound, Files, TargetsAgree
<1> QED BY <1>3, <1>4, <1>5

-----------------------------------------------------------------------------
(* Files that record fitting edges agree.                                  *)

\* A component after the step, and where it is.
Placed ==
  /\ TypeOK' /\ Nested' /\ AtHome' /\ Root \in DOMAIN json' /\ json'[Root].parent \notin ID

LEMMA FileNext ==
  ASSUME Placed, NEW c \in DOMAIN json'
  PROVE  /\ c \in ID /\ json'[c] \in Json
         /\ json'[c].next \subseteq ID /\ json'[c].else \subseteq ID /\ json'[c].previous \subseteq ID
         /\ json'[c].src \subseteq Links /\ json'[c].dst \subseteq Links
         /\ json'[c].forwardTo \subseteq Links /\ json'[c].origin \subseteq Links
         /\ c # Root => /\ json'[c].parent = place'[c] /\ place'[c] # c
                        /\ place'[c] \in DOMAIN json'
BY DEF Placed, TypeOK, Nested, AtHome, Component, Json

\* What a file link that is recorded stands for.
LEMMA SourceNext ==
  ASSUME Placed, NEW B, NEW D, NEW U, RecordNext(B, D, U), FitNext(B, D, U),
         NEW c \in DOMAIN json', NEW l \in json'[c].src
  PROVE  /\ l.name \in json'[c].inputFiles /\ l.node \in DOMAIN json' /\ c # Root /\ l.node # c
         /\ l.node = json'[c].parent => /\ L(l.file, c, l.name) \in json'[l.node].forwardTo
                                        /\ l.file \in json'[l.node].inputFiles
         /\ l.node # json'[c].parent => /\ L(l.file, c, l.name) \in json'[l.node].dst
                                        /\ l.file \in json'[l.node].outputFiles
                                        /\ l.node # Root /\ place'[l.node] = place'[c]
<1>1. l \in Links BY FileNext
<1>2. l.name \in Names /\ l.file \in Names /\ l.node \in ID /\ l = L(l.name, l.node, l.file)
  BY <1>1, LinkForms
<1>3. <<l.node, l.file, c, l.name>> \in B \union D BY <1>2 DEF RecordNext
<1>4. c \in ID BY FileNext
<1>5. CASE <<l.node, l.file, c, l.name>> \in B
  <2>1. /\ {l.node, c} \subseteq DOMAIN json' \ {Root} /\ l.node # c /\ place'[l.node] = place'[c]
        /\ l.file \in json'[l.node].outputFiles /\ l.name \in json'[c].inputFiles
    BY <1>2, <1>4, <1>5 DEF FitNext
  <2>2. L(l.file, c, l.name) \in json'[l.node].dst BY <1>2, <1>4, <1>5, <2>1 DEF RecordNext
  <2>3. l.node # json'[c].parent BY <2>1, FileNext
  <2> QED BY <2>1, <2>2, <2>3
<1>6. CASE <<l.node, l.file, c, l.name>> \in D
  <2>1. /\ {l.node, c} \subseteq DOMAIN json' /\ c # Root /\ l.node = place'[c]
        /\ l.file \in json'[l.node].inputFiles /\ l.name \in json'[c].inputFiles
    BY <1>2, <1>4, <1>6 DEF FitNext
  <2>2. L(l.file, c, l.name) \in json'[l.node].forwardTo BY <1>2, <1>4, <1>6, <2>1 DEF RecordNext
  <2>3. l.node = json'[c].parent /\ l.node # c BY <2>1, FileNext
  <2> QED BY <2>1, <2>2, <2>3
<1> QED BY <1>3, <1>5, <1>6

LEMMA TargetNext ==
  ASSUME Placed, NEW B, NEW D, NEW U, RecordNext(B, D, U), FitNext(B, D, U),
         NEW c \in DOMAIN json', NEW l \in json'[c].dst
  PROVE  /\ l.name \in json'[c].outputFiles /\ l.node \in DOMAIN json' /\ c # Root /\ l.node # c
         /\ l.node = json'[c].parent => /\ L(l.file, c, l.name) \in json'[l.node].origin
                                        /\ l.file \in json'[l.node].outputFiles
         /\ l.node # json'[c].parent => /\ L(l.file, c, l.name) \in json'[l.node].src
                                        /\ l.file \in json'[l.node].inputFiles
                                        /\ l.node # Root /\ place'[l.node] = place'[c]
<1>1. l \in Links BY FileNext
<1>2. l.name \in Names /\ l.file \in Names /\ l.node \in ID /\ l = L(l.name, l.node, l.file)
  BY <1>1, LinkForms
<1>3. <<c, l.name, l.node, l.file>> \in B \union U BY <1>2 DEF RecordNext
<1>4. c \in ID BY FileNext
<1>5. CASE <<c, l.name, l.node, l.file>> \in B
  <2>1. /\ {l.node, c} \subseteq DOMAIN json' \ {Root} /\ l.node # c /\ place'[l.node] = place'[c]
        /\ l.file \in json'[l.node].inputFiles /\ l.name \in json'[c].outputFiles
    BY <1>2, <1>4, <1>5 DEF FitNext
  <2>2. L(l.file, c, l.name) \in json'[l.node].src BY <1>2, <1>4, <1>5, <2>1 DEF RecordNext
  <2>3. l.node # json'[c].parent BY <2>1, FileNext
  <2> QED BY <2>1, <2>2, <2>3
<1>6. CASE <<c, l.name, l.node, l.file>> \in U
  <2>1. /\ {l.node, c} \subseteq DOMAIN json' /\ c # Root /\ l.node = place'[c]
        /\ l.file \in json'[l.node].outputFiles /\ l.name \in json'[c].outputFiles
    BY <1>2, <1>4, <1>6 DEF FitNext
  <2>2. L(l.file, c, l.name) \in json'[l.node].origin BY <1>2, <1>4, <1>6, <2>1 DEF RecordNext
  <2>3. l.node = json'[c].parent /\ l.node # c BY <2>1, FileNext
  <2> QED BY <2>1, <2>2, <2>3
<1> QED BY <1>3, <1>5, <1>6

LEMMA ForwardNext ==
  ASSUME Placed, NEW B, NEW D, NEW U, RecordNext(B, D, U), FitNext(B, D, U),
         NEW c \in DOMAIN json', NEW l \in json'[c].forwardTo
  PROVE  /\ l.node \in DOMAIN json' \ {Root} /\ place'[l.node] = c
         /\ L(l.file, c, l.name) \in json'[l.node].src
<1>1. l \in Links BY FileNext
<1>2. l.name \in Names /\ l.file \in Names /\ l.node \in ID /\ l = L(l.name, l.node, l.file)
  BY <1>1, LinkForms
<1>3. <<c, l.name, l.node, l.file>> \in D BY <1>2 DEF RecordNext
<1>4. c \in ID BY FileNext
<1>5. l.node \in DOMAIN json' \ {Root} /\ place'[l.node] = c BY <1>2, <1>3, <1>4 DEF FitNext
<1> QED BY <1>2, <1>3, <1>4, <1>5 DEF RecordNext

LEMMA OriginNext ==
  ASSUME Placed, NEW B, NEW D, NEW U, RecordNext(B, D, U), FitNext(B, D, U),
         NEW c \in DOMAIN json', NEW l \in json'[c].origin
  PROVE  /\ l.node \in DOMAIN json' \ {Root} /\ place'[l.node] = c
         /\ L(l.file, c, l.name) \in json'[l.node].dst
<1>1. l \in Links BY FileNext
<1>2. l.name \in Names /\ l.file \in Names /\ l.node \in ID /\ l = L(l.name, l.node, l.file)
  BY <1>1, LinkForms
<1>3. <<l.node, l.file, c, l.name>> \in U BY <1>2 DEF RecordNext
<1>4. c \in ID BY FileNext
<1>5. l.node \in DOMAIN json' \ {Root} /\ place'[l.node] = c BY <1>2, <1>3, <1>4 DEF FitNext
<1> QED BY <1>2, <1>3, <1>4, <1>5 DEF RecordNext

LEMMA FilesNext ==
  ASSUME Placed, NEW B, NEW D, NEW U, RecordNext(B, D, U), FitNext(B, D, U)
  PROVE  Files' /\ Children'
<1>1. SourcesAgree' BY SourceNext DEF SourcesAgree, Component
<1>2. TargetsAgree' BY TargetNext DEF TargetsAgree, Component
<1>3. ForwardsAgree' BY ForwardNext DEF ForwardsAgree, Component
<1>4. OriginsAgree' BY OriginNext DEF OriginsAgree, Component
<1>5. Children' BY ForwardNext, OriginNext DEF Children, Component
<1> QED BY <1>1, <1>2, <1>3, <1>4, <1>5 DEF Files

\* An edit of links of files, of components where they are.
FilesRedrawn(B, D, U) ==
  /\ Rewrite /\ RecordNext(B, D, U) /\ FitNext(B, D, U)
  /\ \A c \in Component : KeepsLinks(c)

LEMMA FilesRedrawnSound ==
  ASSUME Sound, NEW B, NEW D, NEW U, FilesRedrawn(B, D, U)
  PROVE  Sound'
<1>1. Rewrite /\ RecordNext(B, D, U) /\ FitNext(B, D, U) /\ \A c \in Component : KeepsLinks(c)
  BY DEF FilesRedrawn
<1>2. Component' = Component /\ DOMAIN json' = Component /\ place' = place BY <1>1 DEF Rewrite, Component
<1>3. Placed
  <2>1. Nested' BY <1>2 DEF Sound, Homes, Nested
  <2>2. AtHome' BY <1>1, <1>2 DEF Sound, Homes, AtHome, Rewrite
  <2> QED BY <1>1, <1>2, <2>1, <2>2 DEF Placed, Rewrite, Sound, Homes, RootAlone
<1>4. Files' /\ Children' BY <1>1, <1>3, FilesNext
<1>5. LinksAgree' /\ OneLink' BY <1>1, LinksKept
<1>6. \A c \in Component : \A d \in Counterparts(c)' :
        \/ d \in json[c].next \union json[c].else \union json[c].previous
        \/ \E l \in json'[c].src \union json'[c].dst : d = l.node
  BY <1>1 DEF Counterparts, KeepsLinks
<1>7. ASSUME NEW c \in Component, NEW d \in Counterparts(c)'
      PROVE  /\ c # Root
             /\ d # place[c] => d \in Component \ {Root} /\ d # c /\ place[d] = place[c]
  <2>1. CASE d \in json[c].next \union json[c].else \union json[c].previous
    BY <2>1, LinkedSiblings
  <2>2. CASE \E l \in json'[c].src : d = l.node
    BY <1>1, <1>2, <1>3, <2>2, SourceNext, FileNext
  <2>3. CASE \E l \in json'[c].dst : d = l.node
    BY <1>1, <1>2, <1>3, <2>3, TargetNext, FileNext
  <2> QED BY <1>6, <1>7, <2>1, <2>2, <2>3
<1>8. RootAlone'
  <2>1. Root \in Component BY DEF Sound, Homes, RootAlone
  <2>2. Counterparts(Root)' = {} BY <1>7, <2>1
  <2> QED BY <1>1, <1>2, <2>1, <2>2 DEF RootAlone, Rewrite, Sound, Homes
<1>9. Near' BY <1>2, <1>7 DEF Near
<1> QED BY <1>1, <1>3, <1>4, <1>5, <1>8, <1>9 DEF Sound, Homes, Rewrite, Placed

-----------------------------------------------------------------------------
(* Names of files and new links of files.                                  *)

LEMMA RewriteOf ==
  ASSUME Sound, place' = place, edits' \in 0..MaxEdits, DOMAIN json' = Component,
         \A c \in Component : json'[c] \in Json /\ json'[c].parent = json[c].parent
  PROVE  Rewrite
BY DEF Rewrite, Sound, TypeOK, Component

\* The files after a file has come to a component.
FileAdded ==
  /\ DOMAIN json' = Component /\ place' = place
  /\ \A d \in Component : /\ KeepsLinks(d) /\ KeepsFileLinks(d) /\ KeepsNames(d)
                           /\ json'[d].parent = json[d].parent /\ json'[d] \in Json

LEMMA AddFileFiles ==
  ASSUME Sound, NEW c \in Component, NEW n \in Name, addInputFile(c, n) \/ addOutputFile(c, n)
  PROVE  FileAdded
<1>1. /\ DOMAIN json' = Component /\ place' = place
      /\ \A d \in Component \ {c} : json'[d] = json[d]
      /\ \/ json'[c] = [json[c] EXCEPT !.inputFiles = @ \union {n}]
         \/ json'[c] = [json[c] EXCEPT !.outputFiles = @ \union {n}]
  BY DEF addInputFile, addOutputFile, Component
<1>2. \A d \in Component : /\ KeepsLinks(d) /\ KeepsFileLinks(d) /\ KeepsNames(d)
                           /\ json'[d].parent = json[d].parent /\ json'[d] \in Json
  <2> TAKE d \in Component
  <2>1. json[d] \in Json /\ n \in Name BY FileTypes DEF Sound
  <2>2. CASE d # c BY <1>1, <2>1, <2>2 DEF KeepsLinks, KeepsFileLinks, KeepsNames
  <2>3. CASE d = c BY <1>1, <2>1, <2>3 DEF KeepsLinks, KeepsFileLinks, KeepsNames, Json
  <2> QED BY <2>2, <2>3
<1> QED BY <1>1, <1>2 DEF FileAdded

LEMMA FileAddedSound ==
  ASSUME Sound, edits' \in 0..MaxEdits, FileAdded
  PROVE  Sound'
<1>2. \A d \in Component : KeepsLinks(d) /\ KeepsFileLinks(d) /\ KeepsNames(d) BY DEF FileAdded
<1>3. Rewrite BY RewriteOf DEF FileAdded
<1>4. Forgets BY <1>2, CounterpartsKept DEF Forgets, KeepsFileLinks
<1> QED BY <1>2, <1>3, <1>4, HomesKept, LinksKept, FileLinksKept DEF Sound, Rewrite

\* The files after an edge is drawn, of a kind: beside, down or up.
EdgeDrawn(kind, s, o, d, i) ==
  /\ place' = place /\ DOMAIN json' = Component
  /\ \A c \in Component :
       /\ KeepsLinks(c) /\ KeepsNames(c) /\ json'[c].parent = json[c].parent /\ json'[c] \in Json
       /\ json'[c].dst = IF c = s /\ kind # "down"
                         THEN json[c].dst \union {L(o, d, i)} ELSE json[c].dst
       /\ json'[c].forwardTo = IF c = s /\ kind = "down"
                               THEN json[c].forwardTo \union {L(o, d, i)} ELSE json[c].forwardTo
       /\ json'[c].src = IF c = d /\ kind # "up"
                         THEN json[c].src \union {L(i, s, o)} ELSE json[c].src
       /\ json'[c].origin = IF c = d /\ kind = "up"
                            THEN json[c].origin \union {L(i, s, o)} ELSE json[c].origin

\* May it be drawn?
EdgeFits(kind, s, o, d, i) ==
  /\ s \in Component /\ d \in Component
  /\ kind = "beside" => /\ Siblings(s, d)
                        /\ o \in json[s].outputFiles /\ i \in json[d].inputFiles
  /\ kind = "down" => /\ d # Root /\ place[d] = s
                      /\ o \in json[s].inputFiles /\ i \in json[d].inputFiles
  /\ kind = "up" => /\ s # Root /\ place[s] = d
                    /\ o \in json[s].outputFiles /\ i \in json[d].outputFiles

LEMMA EdgeDrawnSound ==
  ASSUME Sound, edits' \in 0..MaxEdits, NEW kind \in {"beside", "down", "up"},
         NEW s, NEW d, NEW o \in Names, NEW i \in Names,
         EdgeDrawn(kind, s, o, d, i), EdgeFits(kind, s, o, d, i)
  PROVE  Sound'
<1>0. /\ s \in Component /\ d \in Component
      /\ kind = "beside" => /\ Siblings(s, d)
                            /\ o \in json[s].outputFiles /\ i \in json[d].inputFiles
      /\ kind = "down" => /\ d # Root /\ place[d] = s
                          /\ o \in json[s].inputFiles /\ i \in json[d].inputFiles
      /\ kind = "up" => /\ s # Root /\ place[s] = d
                        /\ o \in json[s].outputFiles /\ i \in json[d].outputFiles
  BY DEF EdgeFits
<1> DEFINE e == <<s, o, d, i>>
           B == IF kind = "beside" THEN Beside \union {e} ELSE Beside
           D == IF kind = "down" THEN Down \union {e} ELSE Down
           U == IF kind = "up" THEN Up \union {e} ELSE Up
<1>1. Rewrite BY RewriteOf DEF EdgeDrawn
<1>2. s \in ID /\ d \in ID BY <1>0, FileTypes DEF Sound
<1>3. RecordNext(B, D, U)
  <2>1. SUFFICES ASSUME NEW c \in Component, NEW n \in Names, NEW f \in Names, NEW x \in ID
        PROVE  /\ L(n, x, f) \in json'[c].src <=> <<x, f, c, n>> \in B \union D
               /\ L(n, x, f) \in json'[c].dst <=> <<c, n, x, f>> \in B \union U
               /\ L(n, x, f) \in json'[c].forwardTo <=> <<c, n, x, f>> \in D
               /\ L(n, x, f) \in json'[c].origin <=> <<x, f, c, n>> \in U
    BY DEF RecordNext, EdgeDrawn
  <2>2. /\ L(n, x, f) \in json[c].src <=> <<x, f, c, n>> \in Beside \union Down
        /\ L(n, x, f) \in json[c].dst <=> <<c, n, x, f>> \in Beside \union Up
        /\ L(n, x, f) \in json[c].forwardTo <=> <<c, n, x, f>> \in Down
        /\ L(n, x, f) \in json[c].origin <=> <<x, f, c, n>> \in Up
    BY EdgesRecorded DEF Record
  <2>3. /\ L(n, x, f) = L(o, d, i) <=> n = o /\ x = d /\ f = i
        /\ L(n, x, f) = L(i, s, o) <=> n = i /\ x = s /\ f = o
    BY LinkParts
  <2>4. /\ <<x, f, c, n>> = e <=> x = s /\ f = o /\ c = d /\ n = i
        /\ <<c, n, x, f>> = e <=> c = s /\ n = o /\ x = d /\ f = i
    OBVIOUS
  <2>5. CASE kind = "beside"
    <3>1. B = Beside \union {e} /\ D = Down /\ U = Up BY <2>5
    <3>2. /\ json'[c].dst = IF c = s THEN json[c].dst \union {L(o, d, i)} ELSE json[c].dst
          /\ json'[c].src = IF c = d THEN json[c].src \union {L(i, s, o)} ELSE json[c].src
          /\ json'[c].forwardTo = json[c].forwardTo /\ json'[c].origin = json[c].origin
      BY <2>5 DEF EdgeDrawn
    <3> HIDE DEF B, D, U, e
    <3> QED BY <1>0, <2>2, <2>3, <2>4, <3>1, <3>2
  <2>6. CASE kind = "down"
    <3>1. B = Beside /\ D = Down \union {e} /\ U = Up BY <2>6
    <3>2. /\ json'[c].forwardTo = IF c = s THEN json[c].forwardTo \union {L(o, d, i)}
                                  ELSE json[c].forwardTo
          /\ json'[c].src = IF c = d THEN json[c].src \union {L(i, s, o)} ELSE json[c].src
          /\ json'[c].dst = json[c].dst /\ json'[c].origin = json[c].origin
      BY <2>6 DEF EdgeDrawn
    <3> HIDE DEF B, D, U, e
    <3> QED BY <1>0, <2>2, <2>3, <2>4, <3>1, <3>2
  <2>7. CASE kind = "up"
    <3>1. B = Beside /\ D = Down /\ U = Up \union {e} BY <2>7
    <3>2. /\ json'[c].dst = IF c = s THEN json[c].dst \union {L(o, d, i)} ELSE json[c].dst
          /\ json'[c].origin = IF c = d THEN json[c].origin \union {L(i, s, o)} ELSE json[c].origin
          /\ json'[c].forwardTo = json[c].forwardTo /\ json'[c].src = json[c].src
      BY <2>7 DEF EdgeDrawn
    <3> HIDE DEF B, D, U, e
    <3> QED BY <1>0, <2>2, <2>3, <2>4, <3>1, <3>2
  <2> QED BY <2>5, <2>6, <2>7
<1>4. FitNext(B, D, U)
  <2>1. SUFFICES ASSUME NEW t \in ID, NEW y \in ID, NEW p \in Names, NEW j \in Names
        PROVE
        /\ <<t, p, y, j>> \in B =>
             /\ {t, y} \subseteq DOMAIN json' \ {Root} /\ t # y /\ place'[t] = place'[y]
             /\ p \in json'[t].outputFiles /\ j \in json'[y].inputFiles
        /\ <<t, p, y, j>> \in D =>
             /\ {t, y} \subseteq DOMAIN json' /\ y # Root /\ t = place'[y]
             /\ p \in json'[t].inputFiles /\ j \in json'[y].inputFiles
        /\ <<t, p, y, j>> \in U =>
             /\ {t, y} \subseteq DOMAIN json' /\ t # Root /\ y = place'[t]
             /\ p \in json'[t].outputFiles /\ j \in json'[y].outputFiles
    BY DEF FitNext
  <2>2. <<t, p, y, j>> = e <=> t = s /\ p = o /\ y = d /\ j = i OBVIOUS
  <2>3. /\ <<t, p, y, j>> \in Beside =>
             /\ {t, y} \subseteq Component \ {Root} /\ t # y /\ place[t] = place[y]
             /\ p \in json[t].outputFiles /\ j \in json[y].inputFiles
        /\ <<t, p, y, j>> \in Down =>
             /\ {t, y} \subseteq Component /\ y # Root /\ t = place[y]
             /\ p \in json[t].inputFiles /\ j \in json[y].inputFiles
        /\ <<t, p, y, j>> \in Up =>
             /\ {t, y} \subseteq Component /\ t # Root /\ y = place[t]
             /\ p \in json[t].outputFiles /\ j \in json[y].outputFiles
    BY EdgesFit DEF Fit
  <2>4. /\ place' = place /\ DOMAIN json' = Component
        /\ \A c \in Component : /\ json[c].inputFiles \subseteq json'[c].inputFiles
                                /\ json[c].outputFiles \subseteq json'[c].outputFiles
    BY DEF EdgeDrawn, KeepsNames
  <2>5. CASE kind = "beside"
    <3>1. B = Beside \union {e} /\ D = Down /\ U = Up BY <2>5
    <3>2. Siblings(s, d) /\ o \in json[s].outputFiles /\ i \in json[d].inputFiles BY <1>0, <2>5
    <3> HIDE DEF B, D, U
    <3> QED BY <1>0, <2>2, <2>3, <2>4, <3>1, <3>2 DEF Siblings
  <2>6. CASE kind = "down"
    <3>1. B = Beside /\ D = Down \union {e} /\ U = Up BY <2>6
    <3>2. d # Root /\ place[d] = s /\ o \in json[s].inputFiles /\ i \in json[d].inputFiles BY <1>0, <2>6
    <3> HIDE DEF B, D, U
    <3> QED BY <1>0, <2>2, <2>3, <2>4, <3>1, <3>2
  <2>7. CASE kind = "up"
    <3>1. B = Beside /\ D = Down /\ U = Up \union {e} BY <2>7
    <3>2. s # Root /\ place[s] = d /\ o \in json[s].outputFiles /\ i \in json[d].outputFiles BY <1>0, <2>7
    <3> HIDE DEF B, D, U
    <3> QED BY <1>0, <2>2, <2>3, <2>4, <3>1, <3>2
  <2> QED BY <2>5, <2>6, <2>7
<1> QED BY <1>1, <1>3, <1>4, FilesRedrawnSound DEF FilesRedrawn, EdgeDrawn

LEMMA AddFileLinkEdge ==
  ASSUME Sound, NEW s, NEW d, NEW o \in Names, NEW i \in Names, addFileLink(s, o, d, i)
  PROVE  \E kind \in {"beside", "down", "up"} :
           EdgeDrawn(kind, s, o, d, i) /\ EdgeFits(kind, s, o, d, i)
<1>1. s # d /\ s \in Component /\ d \in Component /\ place' = place BY DEF addFileLink
<1>2. s \in ID /\ d \in ID /\ json[s] \in Json /\ json[d] \in Json BY <1>1, FileTypes DEF Sound
<1>3. L(o, d, i) \in Links /\ L(i, s, o) \in Links BY <1>2, LinkParts
<1>4. CASE json[s].parent = d
  <2>2. s # Root /\ place[s] = d BY <1>1, <1>2, <1>4 DEF Sound, Homes, RootAlone, AtHome
  <2>0. json[d].parent # s
    BY <1>1, <1>2, <2>2 DEF Sound, Homes, RootAlone, AtHome, Nested
  <2>1. o \in json[s].outputFiles /\ i \in json[d].outputFiles /\ addFileLinkToParent(s, o, d, i)
    BY <1>4, <2>0 DEF addFileLink
  <2>3. /\ DOMAIN json' = Component
        /\ \A c \in Component \ {s, d} : json'[c] = json[c]
        /\ json'[s] = [json[s] EXCEPT !.dst = @ \union {L(o, d, i)}]
        /\ json'[d] = [json[d] EXCEPT !.origin = @ \union {L(i, s, o)}]
    BY <1>1, <2>1 DEF addFileLinkToParent, Component
  <2>4. EdgeDrawn("up", s, o, d, i)
    <3> SUFFICES ASSUME NEW c \in Component PROVE
         /\ KeepsLinks(c) /\ KeepsNames(c) /\ json'[c].parent = json[c].parent /\ json'[c] \in Json
         /\ json'[c].dst = IF c = s THEN json[c].dst \union {L(o, d, i)} ELSE json[c].dst
         /\ json'[c].forwardTo = json[c].forwardTo /\ json'[c].src = json[c].src
         /\ json'[c].origin = IF c = d THEN json[c].origin \union {L(i, s, o)} ELSE json[c].origin
      BY <1>1, <2>3 DEF EdgeDrawn
    <3>1. CASE c # s /\ c # d BY <2>3, <3>1, FileTypes DEF Sound, KeepsLinks, KeepsNames
    <3>2. CASE c = s BY <1>1, <1>2, <1>3, <2>3, <3>2 DEF KeepsLinks, KeepsNames, Json
    <3>3. CASE c = d BY <1>1, <1>2, <1>3, <2>3, <3>3 DEF KeepsLinks, KeepsNames, Json
    <3> QED BY <3>1, <3>2, <3>3
  <2> QED BY <1>1, <2>1, <2>2, <2>4 DEF EdgeFits
<1>5. CASE json[s].parent # d /\ json[d].parent = s
  <2>1. o \in json[s].inputFiles /\ i \in json[d].inputFiles /\ addFileLinkFromParent(s, o, d, i)
    BY <1>5 DEF addFileLink
  <2>2. d # Root /\ place[d] = s BY <1>1, <1>2, <1>5 DEF Sound, Homes, RootAlone, AtHome
  <2>3. /\ DOMAIN json' = Component
        /\ \A c \in Component \ {s, d} : json'[c] = json[c]
        /\ json'[s] = [json[s] EXCEPT !.forwardTo = @ \union {L(o, d, i)}]
        /\ json'[d] = [json[d] EXCEPT !.src = @ \union {L(i, s, o)}, !.inputFiles = @ \union {i}]
    BY <1>1, <2>1 DEF addFileLinkFromParent, Component
  <2>4. EdgeDrawn("down", s, o, d, i)
    <3> SUFFICES ASSUME NEW c \in Component PROVE
         /\ KeepsLinks(c) /\ KeepsNames(c) /\ json'[c].parent = json[c].parent /\ json'[c] \in Json
         /\ json'[c].dst = json[c].dst /\ json'[c].origin = json[c].origin
         /\ json'[c].forwardTo = IF c = s THEN json[c].forwardTo \union {L(o, d, i)}
                                 ELSE json[c].forwardTo
         /\ json'[c].src = IF c = d THEN json[c].src \union {L(i, s, o)} ELSE json[c].src
      BY <1>1, <2>3 DEF EdgeDrawn
    <3>1. CASE c # s /\ c # d BY <2>3, <3>1, FileTypes DEF Sound, KeepsLinks, KeepsNames
    <3>2. CASE c = s BY <1>1, <1>2, <1>3, <2>3, <3>2 DEF KeepsLinks, KeepsNames, Json
    <3>3. CASE c = d
      <4>1. json'[d].inputFiles = json[d].inputFiles \union {i} /\ i \in Name \union {UploadOnDemand}
        BY <1>2, <2>3 DEF Json, Names
      <4>2. json'[d] \in Json
        <5> DEFINE sources == json[d].src \union {L(i, s, o)}
                   inputs == json[d].inputFiles \union {i}
        <5>1. sources \in SUBSET Links /\ inputs \in SUBSET (Name \union {UploadOnDemand})
          BY <1>1, <1>3, <4>1, FileTypes DEF Sound
        <5>2. json'[d] = [json[d] EXCEPT !.src = sources, !.inputFiles = inputs] BY <2>3
        <5> HIDE DEF sources, inputs
        <5> QED BY <1>2, <5>1, <5>2 DEF Json
      <4>3. /\ KeepsLinks(d) /\ json'[d].parent = json[d].parent /\ json'[d].dst = json[d].dst
            /\ json'[d].origin = json[d].origin /\ json'[d].forwardTo = json[d].forwardTo
            /\ json'[d].src = json[d].src \union {L(i, s, o)}
            /\ json'[d].outputFiles = json[d].outputFiles
        BY <1>2, <2>3 DEF KeepsLinks, Json
      <4> QED BY <1>1, <3>3, <4>1, <4>2, <4>3 DEF KeepsNames
    <3> QED BY <3>1, <3>2, <3>3
  <2> QED BY <1>1, <2>1, <2>2, <2>4 DEF EdgeFits
<1>6. CASE json[s].parent # d /\ json[d].parent # s
  <2>1. /\ Siblings(s, d) /\ o \in json[s].outputFiles /\ i \in json[d].inputFiles
        /\ addFileLinkBetweenSiblings(s, o, d, i)
    BY <1>6 DEF addFileLink
  <2>2. /\ DOMAIN json' = Component
        /\ \A c \in Component \ {s, d} : json'[c] = json[c]
        /\ json'[s] = [json[s] EXCEPT !.dst = @ \union {L(o, d, i)}]
        /\ json'[d] = [json[d] EXCEPT !.src = @ \union {L(i, s, o)}, !.inputFiles = @ \union {i}]
    BY <1>1, <2>1 DEF addFileLinkBetweenSiblings, Component
  <2>3. EdgeDrawn("beside", s, o, d, i)
    <3> SUFFICES ASSUME NEW c \in Component PROVE
         /\ KeepsLinks(c) /\ KeepsNames(c) /\ json'[c].parent = json[c].parent /\ json'[c] \in Json
         /\ json'[c].dst = IF c = s THEN json[c].dst \union {L(o, d, i)} ELSE json[c].dst
         /\ json'[c].forwardTo = json[c].forwardTo /\ json'[c].origin = json[c].origin
         /\ json'[c].src = IF c = d THEN json[c].src \union {L(i, s, o)} ELSE json[c].src
      BY <1>1, <2>2 DEF EdgeDrawn
    <3>1. CASE c # s /\ c # d BY <2>2, <3>1, FileTypes DEF Sound, KeepsLinks, KeepsNames
    <3>2. CASE c = s BY <1>1, <1>2, <1>3, <2>2, <3>2 DEF KeepsLinks, KeepsNames, Json
    <3>3. CASE c = d
      <4>1. json'[d].inputFiles = json[d].inputFiles \union {i} /\ i \in Name \union {UploadOnDemand}
        BY <1>2, <2>2 DEF Json, Names
      <4>2. json'[d] \in Json
        <5> DEFINE sources == json[d].src \union {L(i, s, o)}
                   inputs == json[d].inputFiles \union {i}
        <5>1. sources \in SUBSET Links /\ inputs \in SUBSET (Name \union {UploadOnDemand})
          BY <1>1, <1>3, <4>1, FileTypes DEF Sound
        <5>2. json'[d] = [json[d] EXCEPT !.src = sources, !.inputFiles = inputs] BY <2>2
        <5> HIDE DEF sources, inputs
        <5> QED BY <1>2, <5>1, <5>2 DEF Json
      <4>3. /\ KeepsLinks(d) /\ json'[d].parent = json[d].parent /\ json'[d].dst = json[d].dst
            /\ json'[d].origin = json[d].origin /\ json'[d].forwardTo = json[d].forwardTo
            /\ json'[d].src = json[d].src \union {L(i, s, o)}
            /\ json'[d].outputFiles = json[d].outputFiles
        BY <1>2, <2>2 DEF KeepsLinks, Json
      <4> QED BY <1>1, <3>3, <4>1, <4>2, <4>3 DEF KeepsNames
    <3> QED BY <3>1, <3>2, <3>3
  <2> QED BY <1>1, <2>1, <2>3 DEF EdgeFits
<1> QED BY <1>4, <1>5, <1>6

-----------------------------------------------------------------------------
(* The removal of links of files.                                          *)

\* The files record no edge of R any more, and keep the names of the others.
EdgesErased(R) ==
  /\ place' = place /\ DOMAIN json' = Component
  /\ \A c \in Component :
       /\ KeepsLinks(c) /\ json'[c].parent = json[c].parent /\ json'[c] \in Json
       /\ \A n, f \in Names, x \in ID :
            /\ L(n, x, f) \in json'[c].src <=> L(n, x, f) \in json[c].src /\ <<x, f, c, n>> \notin R
            /\ L(n, x, f) \in json'[c].dst <=> L(n, x, f) \in json[c].dst /\ <<c, n, x, f>> \notin R
            /\ L(n, x, f) \in json'[c].forwardTo <=>
                 L(n, x, f) \in json[c].forwardTo /\ <<c, n, x, f>> \notin R
            /\ L(n, x, f) \in json'[c].origin <=>
                 L(n, x, f) \in json[c].origin /\ <<x, f, c, n>> \notin R
       /\ \A n \in json[c].inputFiles \ json'[c].inputFiles : \A f \in Names, x \in ID :
            /\ L(n, x, f) \in json[c].src => <<x, f, c, n>> \in R
            /\ L(n, x, f) \notin json[c].forwardTo
       /\ \A n \in json[c].outputFiles \ json'[c].outputFiles : \A f \in Names, x \in ID :
            /\ L(n, x, f) \in json[c].dst => <<c, n, x, f>> \in R
            /\ L(n, x, f) \notin json[c].origin

LEMMA EdgesErasedSound ==
  ASSUME Sound, edits' \in 0..MaxEdits, NEW R, EdgesErased(R)
  PROVE  Sound'
<1> DEFINE B == Beside \ R
           D == Down \ R
           U == Up \ R
<1>1. Rewrite BY RewriteOf DEF EdgesErased
<1>2. RecordNext(B, D, U)
  <2>1. SUFFICES ASSUME NEW c \in Component, NEW n \in Names, NEW f \in Names, NEW x \in ID
        PROVE  /\ L(n, x, f) \in json'[c].src <=> <<x, f, c, n>> \in B \union D
               /\ L(n, x, f) \in json'[c].dst <=> <<c, n, x, f>> \in B \union U
               /\ L(n, x, f) \in json'[c].forwardTo <=> <<c, n, x, f>> \in D
               /\ L(n, x, f) \in json'[c].origin <=> <<x, f, c, n>> \in U
    BY DEF RecordNext, EdgesErased
  <2>2. /\ L(n, x, f) \in json[c].src <=> <<x, f, c, n>> \in Beside \union Down
        /\ L(n, x, f) \in json[c].dst <=> <<c, n, x, f>> \in Beside \union Up
        /\ L(n, x, f) \in json[c].forwardTo <=> <<c, n, x, f>> \in Down
        /\ L(n, x, f) \in json[c].origin <=> <<x, f, c, n>> \in Up
    BY EdgesRecorded DEF Record
  <2> QED BY <2>2 DEF EdgesErased
<1>3. FitNext(B, D, U)
  <2>1. SUFFICES ASSUME NEW s \in ID, NEW d \in ID, NEW o \in Names, NEW i \in Names
        PROVE
        /\ <<s, o, d, i>> \in B =>
             /\ {s, d} \subseteq DOMAIN json' \ {Root} /\ s # d /\ place'[s] = place'[d]
             /\ o \in json'[s].outputFiles /\ i \in json'[d].inputFiles
        /\ <<s, o, d, i>> \in D =>
             /\ {s, d} \subseteq DOMAIN json' /\ d # Root /\ s = place'[d]
             /\ o \in json'[s].inputFiles /\ i \in json'[d].inputFiles
        /\ <<s, o, d, i>> \in U =>
             /\ {s, d} \subseteq DOMAIN json' /\ s # Root /\ d = place'[s]
             /\ o \in json'[s].outputFiles /\ i \in json'[d].outputFiles
    BY DEF FitNext
  <2>2. /\ <<s, o, d, i>> \in Beside =>
             /\ {s, d} \subseteq Component \ {Root} /\ s # d /\ place[s] = place[d]
             /\ o \in json[s].outputFiles /\ i \in json[d].inputFiles
        /\ <<s, o, d, i>> \in Down =>
             /\ {s, d} \subseteq Component /\ d # Root /\ s = place[d]
             /\ o \in json[s].inputFiles /\ i \in json[d].inputFiles
        /\ <<s, o, d, i>> \in Up =>
             /\ {s, d} \subseteq Component /\ s # Root /\ d = place[s]
             /\ o \in json[s].outputFiles /\ i \in json[d].outputFiles
    BY EdgesFit DEF Fit
  <2>3. ASSUME s \in Component, d \in Component
        PROVE  /\ <<s, o, d, i>> \in Beside => L(i, s, o) \in json[d].src /\ L(o, d, i) \in json[s].dst
               /\ <<s, o, d, i>> \in Down => L(i, s, o) \in json[d].src /\ L(o, d, i) \in json[s].forwardTo
               /\ <<s, o, d, i>> \in Up => L(i, s, o) \in json[d].origin /\ L(o, d, i) \in json[s].dst
    BY <2>3, EdgesRecorded DEF Record
  <2>4. ASSUME NEW c \in Component, NEW n \in json[c].inputFiles, NEW x \in ID, NEW f \in Names,
               \/ L(n, x, f) \in json[c].src /\ <<x, f, c, n>> \notin R
               \/ L(n, x, f) \in json[c].forwardTo
        PROVE  n \in json'[c].inputFiles
    BY <2>4 DEF EdgesErased
  <2>5. ASSUME NEW c \in Component, NEW n \in json[c].outputFiles, NEW x \in ID, NEW f \in Names,
               \/ L(n, x, f) \in json[c].dst /\ <<c, n, x, f>> \notin R
               \/ L(n, x, f) \in json[c].origin
        PROVE  n \in json'[c].outputFiles
    BY <2>5 DEF EdgesErased
  <2>6. place' = place /\ DOMAIN json' = Component BY DEF EdgesErased
  <2>8. ASSUME <<s, o, d, i>> \in B
        PROVE  /\ {s, d} \subseteq DOMAIN json' \ {Root} /\ s # d /\ place'[s] = place'[d]
               /\ o \in json'[s].outputFiles /\ i \in json'[d].inputFiles
    BY <2>2, <2>3, <2>4, <2>5, <2>6, <2>8
  <2>9. ASSUME <<s, o, d, i>> \in D
        PROVE  /\ {s, d} \subseteq DOMAIN json' /\ d # Root /\ s = place'[d]
               /\ o \in json'[s].inputFiles /\ i \in json'[d].inputFiles
    BY <2>2, <2>3, <2>4, <2>5, <2>6, <2>9
  <2>10. ASSUME <<s, o, d, i>> \in U
        PROVE  /\ {s, d} \subseteq DOMAIN json' /\ s # Root /\ d = place'[s]
               /\ o \in json'[s].outputFiles /\ i \in json'[d].outputFiles
    BY <2>2, <2>3, <2>4, <2>5, <2>6, <2>10
  <2> QED BY <2>8, <2>9, <2>10
<1> QED BY <1>1, <1>2, <1>3, FilesRedrawnSound DEF FilesRedrawn, EdgesErased

\* The edges of links of c, by what is recorded in c.
Into(c, links) == {e \in Edge : e[3] = c /\ L(e[4], e[1], e[2]) \in links}
From(c, links) == {e \in Edge : e[1] = c /\ L(e[2], e[3], e[4]) \in links}

EdgesOf(c) == {e \in Edge : c \in {e[1], e[3]}}

LEMMA EdgesNamed ==
  \A c, links : Into(c, links) \in SUBSET EdgesOf(c) /\ From(c, links) \in SUBSET EdgesOf(c)
BY DEF Into, From, EdgesOf

LEMMA EdgesOfLinks ==
  ASSUME NEW c \in ID, NEW links \in SUBSET Links, NEW d \in ID, NEW x \in ID,
         NEW n \in Names, NEW f \in Names
  PROVE  /\ <<x, f, d, n>> \in Into(c, links) <=> d = c /\ L(n, x, f) \in links
         /\ <<d, n, x, f>> \in From(c, links) <=> d = c /\ L(n, x, f) \in links
         /\ L(n, x, f) \in AtOtherEnd(c, links, d) <=> x = c /\ L(f, d, n) \in links
<1>1. <<x, f, d, n>> \in Edge /\ <<d, n, x, f>> \in Edge BY EdgeForms
<1>2. <<x, f, d, n>> \in Into(c, links) <=> d = c /\ L(n, x, f) \in links BY <1>1 DEF Into
<1>3. <<d, n, x, f>> \in From(c, links) <=> d = c /\ L(n, x, f) \in links BY <1>1 DEF From
<1>4. ASSUME L(n, x, f) \in AtOtherEnd(c, links, d) PROVE x = c /\ L(f, d, n) \in links
  <2>1. PICK l \in links : l.node = d /\ L(n, x, f) = L(l.file, c, l.name)
    BY <1>4 DEF AtOtherEnd
  <2>2. n = l.file /\ x = c /\ f = l.name BY <2>1, LinkParts
  <2> QED BY <2>1, <2>2, LinkForms
<1>5. ASSUME x = c, L(f, d, n) \in links PROVE L(n, x, f) \in AtOtherEnd(c, links, d)
  <2>1. L(f, d, n).name = f /\ L(f, d, n).node = d /\ L(f, d, n).file = n BY LinkParts
  <2> QED BY <1>5, <2>1 DEF AtOtherEnd
<1> QED BY <1>2, <1>3, <1>4, <1>5

\* j is the file of d without the edges of R.
Erased(j, d, R) ==
  /\ j \in Json /\ j.parent = json[d].parent
  /\ j.next = json[d].next /\ j.else = json[d].else /\ j.previous = json[d].previous
  /\ j.inputFiles = json[d].inputFiles /\ j.outputFiles = json[d].outputFiles
  /\ \A n, f \in Names, x \in ID :
       /\ L(n, x, f) \in j.src <=> L(n, x, f) \in json[d].src /\ <<x, f, d, n>> \notin R
       /\ L(n, x, f) \in j.dst <=> L(n, x, f) \in json[d].dst /\ <<d, n, x, f>> \notin R
       /\ L(n, x, f) \in j.forwardTo <=>
            L(n, x, f) \in json[d].forwardTo /\ <<d, n, x, f>> \notin R
       /\ L(n, x, f) \in j.origin <=> L(n, x, f) \in json[d].origin /\ <<x, f, d, n>> \notin R

LEMMA ErasedFiles ==
  ASSUME place' = place, DOMAIN json' = Component, NEW R,
         \A d \in Component : Erased(json'[d], d, R)
  PROVE  EdgesErased(R)
BY DEF EdgesErased, Erased, KeepsLinks

\* What a file of d records of the components around it.
LEMMA EntryEnds ==
  ASSUME Sound, NEW d \in Component, NEW x \in ID, NEW n \in Names, NEW f \in Names
  PROVE  /\ L(n, x, f) \in json[d].src \union json[d].dst =>
              /\ x \in Component /\ x # d /\ d # Root /\ json[d].parent = place[d]
              /\ x = Root \/ (place[x] # d /\ json[x].parent # d)
         /\ L(n, x, f) \in json[d].forwardTo \union json[d].origin =>
              x \in Component \ {Root} /\ place[x] = d /\ json[x].parent = d /\ x # d
         /\ json[Root].parent \notin ID
<1>1. L(n, x, f).node = x BY LinkParts
<1>2. ASSUME L(n, x, f) \in json[d].src \union json[d].dst
      PROVE  /\ x \in Component /\ x # d /\ d # Root /\ json[d].parent = place[d]
             /\ x = Root \/ (place[x] # d /\ json[x].parent # d)
  <2>1. /\ x \in Component /\ x # d /\ d # Root /\ json[d].parent = place[d]
        /\ x \notin Component \ {Root} \/ place[x] # d
    BY <1>1, <1>2, SourceEnds
  <2>2. x # Root => json[x].parent = place[x] BY <2>1 DEF Sound, Homes, AtHome
  <2> QED BY <2>1, <2>2
<1>3. ASSUME L(n, x, f) \in json[d].forwardTo \union json[d].origin
      PROVE  x \in Component \ {Root} /\ place[x] = d /\ json[x].parent = d /\ x # d
  <2>1. x \in Component \ {Root} /\ place[x] = d BY <1>1, <1>3 DEF Sound, Children
  <2> QED BY <2>1 DEF Sound, Homes, AtHome, Nested
<1>4. json[Root].parent \notin ID BY DEF Sound, Homes, RootAlone
<1> QED BY <1>2, <1>3, <1>4

LEMMA WithoutSourcesFiles ==
  ASSUME Sound, NEW c \in Component, NEW links \in SUBSET json[c].src, NEW d \in Component
  PROVE  Erased(WithoutSources(c, links)[d], d, Into(c, links))
<1> DEFINE j == WithoutSources(c, links)[d]
           R == Into(c, links)
<1>1. /\ c \in ID /\ d \in ID /\ json[d] \in Json /\ links \in SUBSET Links
      /\ json[d].src \subseteq Links /\ json[d].dst \subseteq Links
      /\ json[d].forwardTo \subseteq Links /\ json[d].origin \subseteq Links
  BY FileTypes DEF Sound
<1>2. \A n, f \in Names, x \in ID :
        /\ <<x, f, d, n>> \in R <=> d = c /\ L(n, x, f) \in links
        /\ <<d, n, x, f>> \in R <=> x = c /\ L(f, d, n) \in links
        /\ L(n, x, f) \in AtOtherEnd(c, links, d) <=> x = c /\ L(f, d, n) \in links
  BY <1>1, EdgesOfLinks
<1>3. \A n, f \in Names, x \in ID :
        /\ L(n, x, f) \in links => x # c /\ c # Root /\ json[c].parent = place[c]
                                   /\ (x = Root \/ (place[x] # c /\ json[x].parent # c))
        /\ L(n, x, f) \in json[d].src \union json[d].dst =>
             x # d /\ (x = Root \/ (place[x] # d /\ json[x].parent # d))
        /\ L(n, x, f) \in json[d].forwardTo \union json[d].origin =>
             x # Root /\ place[x] = d /\ json[x].parent = d /\ x # d
  BY <1>1, EntryEnds
<1> HIDE DEF R
<1>4. CASE d = c
  <2>1. j = [json[d] EXCEPT !.src = @ \ links] BY <1>4 DEF WithoutSources
  <2>2. /\ j \in Json /\ j.parent = json[d].parent
        /\ j.next = json[d].next /\ j.else = json[d].else /\ j.previous = json[d].previous
        /\ j.inputFiles = json[d].inputFiles /\ j.outputFiles = json[d].outputFiles
        /\ j.src = json[d].src \ links /\ j.dst = json[d].dst
        /\ j.forwardTo = json[d].forwardTo /\ j.origin = json[d].origin
    BY <1>1, <2>1 DEF Json
  <2> HIDE DEF j
  <2>3. \A n, f \in Names, x \in ID :
          /\ L(n, x, f) \in j.src <=> L(n, x, f) \in json[d].src /\ <<x, f, d, n>> \notin R
          /\ L(n, x, f) \in j.dst <=> L(n, x, f) \in json[d].dst /\ <<d, n, x, f>> \notin R
          /\ L(n, x, f) \in j.forwardTo <=>
               L(n, x, f) \in json[d].forwardTo /\ <<d, n, x, f>> \notin R
          /\ L(n, x, f) \in j.origin <=> L(n, x, f) \in json[d].origin /\ <<x, f, d, n>> \notin R
    BY <1>2, <1>3, <1>4, <2>2
  <2> QED BY <2>2, <2>3 DEF Erased, j, R
<1>5. CASE d # c /\ d = json[c].parent
  <2>1. j = [json[d] EXCEPT !.forwardTo = @ \ AtOtherEnd(c, links, d)] BY <1>5 DEF WithoutSources
  <2>2. /\ j \in Json /\ j.parent = json[d].parent
        /\ j.next = json[d].next /\ j.else = json[d].else /\ j.previous = json[d].previous
        /\ j.inputFiles = json[d].inputFiles /\ j.outputFiles = json[d].outputFiles
        /\ j.forwardTo = json[d].forwardTo \ AtOtherEnd(c, links, d) /\ j.dst = json[d].dst
        /\ j.src = json[d].src /\ j.origin = json[d].origin
    BY <1>1, <2>1 DEF Json
  <2> HIDE DEF j
  <2>3. \A n, f \in Names, x \in ID :
          /\ L(n, x, f) \in j.src <=> L(n, x, f) \in json[d].src /\ <<x, f, d, n>> \notin R
          /\ L(n, x, f) \in j.dst <=> L(n, x, f) \in json[d].dst /\ <<d, n, x, f>> \notin R
          /\ L(n, x, f) \in j.forwardTo <=>
               L(n, x, f) \in json[d].forwardTo /\ <<d, n, x, f>> \notin R
          /\ L(n, x, f) \in j.origin <=> L(n, x, f) \in json[d].origin /\ <<x, f, d, n>> \notin R
    BY <1>1, <1>2, <1>3, <1>5, <2>2
  <2> QED BY <2>2, <2>3 DEF Erased, j, R
<1>6. CASE d # c /\ d # json[c].parent
  <2>1. j = [json[d] EXCEPT !.dst = @ \ AtOtherEnd(c, links, d)]
    BY <1>6 DEF WithoutSources, removeFileLinkBetweenSiblings
  <2>2. /\ j \in Json /\ j.parent = json[d].parent
        /\ j.next = json[d].next /\ j.else = json[d].else /\ j.previous = json[d].previous
        /\ j.inputFiles = json[d].inputFiles /\ j.outputFiles = json[d].outputFiles
        /\ j.dst = json[d].dst \ AtOtherEnd(c, links, d) /\ j.forwardTo = json[d].forwardTo
        /\ j.src = json[d].src /\ j.origin = json[d].origin
    BY <1>1, <2>1 DEF Json
  <2> HIDE DEF j
  <2>3. \A n, f \in Names, x \in ID :
          /\ L(n, x, f) \in j.src <=> L(n, x, f) \in json[d].src /\ <<x, f, d, n>> \notin R
          /\ L(n, x, f) \in j.dst <=> L(n, x, f) \in json[d].dst /\ <<d, n, x, f>> \notin R
          /\ L(n, x, f) \in j.forwardTo <=>
               L(n, x, f) \in json[d].forwardTo /\ <<d, n, x, f>> \notin R
          /\ L(n, x, f) \in j.origin <=> L(n, x, f) \in json[d].origin /\ <<x, f, d, n>> \notin R
    BY <1>2, <1>3, <1>6, <2>2
  <2> QED BY <2>2, <2>3 DEF Erased, j, R
<1> QED BY <1>4, <1>5, <1>6

LEMMA WithoutTargetsFiles ==
  ASSUME Sound, NEW c \in Component, NEW links \in SUBSET json[c].dst, NEW d \in Component
  PROVE  Erased(WithoutTargets(c, links)[d], d, From(c, links))
<1> DEFINE j == WithoutTargets(c, links)[d]
           R == From(c, links)
<1>1. /\ c \in ID /\ d \in ID /\ json[d] \in Json /\ links \in SUBSET Links
      /\ json[d].src \subseteq Links /\ json[d].dst \subseteq Links
      /\ json[d].forwardTo \subseteq Links /\ json[d].origin \subseteq Links
  BY FileTypes DEF Sound
<1>2. \A n, f \in Names, x \in ID :
        /\ <<d, n, x, f>> \in R <=> d = c /\ L(n, x, f) \in links
        /\ <<x, f, d, n>> \in R <=> x = c /\ L(f, d, n) \in links
        /\ L(n, x, f) \in AtOtherEnd(c, links, d) <=> x = c /\ L(f, d, n) \in links
  BY <1>1, EdgesOfLinks
<1>3. \A n, f \in Names, x \in ID :
        /\ L(n, x, f) \in links => x # c /\ c # Root /\ json[c].parent = place[c]
                                   /\ (x = Root \/ (place[x] # c /\ json[x].parent # c))
        /\ L(n, x, f) \in json[d].src \union json[d].dst =>
             x # d /\ (x = Root \/ (place[x] # d /\ json[x].parent # d))
        /\ L(n, x, f) \in json[d].forwardTo \union json[d].origin =>
             x # Root /\ place[x] = d /\ json[x].parent = d /\ x # d
  BY <1>1, EntryEnds
<1> HIDE DEF R
<1>4. CASE d = c
  <2>1. j = [json[d] EXCEPT !.dst = @ \ links] BY <1>4 DEF WithoutTargets
  <2>2. /\ j \in Json /\ j.parent = json[d].parent
        /\ j.next = json[d].next /\ j.else = json[d].else /\ j.previous = json[d].previous
        /\ j.inputFiles = json[d].inputFiles /\ j.outputFiles = json[d].outputFiles
        /\ j.dst = json[d].dst \ links /\ j.src = json[d].src
        /\ j.forwardTo = json[d].forwardTo /\ j.origin = json[d].origin
    BY <1>1, <2>1 DEF Json
  <2> HIDE DEF j
  <2>3. \A n, f \in Names, x \in ID :
          /\ L(n, x, f) \in j.src <=> L(n, x, f) \in json[d].src /\ <<x, f, d, n>> \notin R
          /\ L(n, x, f) \in j.dst <=> L(n, x, f) \in json[d].dst /\ <<d, n, x, f>> \notin R
          /\ L(n, x, f) \in j.forwardTo <=>
               L(n, x, f) \in json[d].forwardTo /\ <<d, n, x, f>> \notin R
          /\ L(n, x, f) \in j.origin <=> L(n, x, f) \in json[d].origin /\ <<x, f, d, n>> \notin R
    BY <1>2, <1>3, <1>4, <2>2
  <2> QED BY <2>2, <2>3 DEF Erased, j, R
<1>5. CASE d # c /\ d = json[c].parent
  <2>1. j = [json[d] EXCEPT !.origin = @ \ AtOtherEnd(c, links, d)] BY <1>5 DEF WithoutTargets
  <2>2. /\ j \in Json /\ j.parent = json[d].parent
        /\ j.next = json[d].next /\ j.else = json[d].else /\ j.previous = json[d].previous
        /\ j.inputFiles = json[d].inputFiles /\ j.outputFiles = json[d].outputFiles
        /\ j.origin = json[d].origin \ AtOtherEnd(c, links, d) /\ j.dst = json[d].dst
        /\ j.src = json[d].src /\ j.forwardTo = json[d].forwardTo
    BY <1>1, <2>1 DEF Json
  <2> HIDE DEF j
  <2>3. \A n, f \in Names, x \in ID :
          /\ L(n, x, f) \in j.src <=> L(n, x, f) \in json[d].src /\ <<x, f, d, n>> \notin R
          /\ L(n, x, f) \in j.dst <=> L(n, x, f) \in json[d].dst /\ <<d, n, x, f>> \notin R
          /\ L(n, x, f) \in j.forwardTo <=>
               L(n, x, f) \in json[d].forwardTo /\ <<d, n, x, f>> \notin R
          /\ L(n, x, f) \in j.origin <=> L(n, x, f) \in json[d].origin /\ <<x, f, d, n>> \notin R
    BY <1>1, <1>2, <1>3, <1>5, <2>2
  <2> QED BY <2>2, <2>3 DEF Erased, j, R
<1>6. CASE d # c /\ d # json[c].parent
  <2>1. j = [json[d] EXCEPT !.src = @ \ AtOtherEnd(c, links, d)]
    BY <1>6 DEF WithoutTargets, removeFileLinkBetweenSiblings
  <2>2. /\ j \in Json /\ j.parent = json[d].parent
        /\ j.next = json[d].next /\ j.else = json[d].else /\ j.previous = json[d].previous
        /\ j.inputFiles = json[d].inputFiles /\ j.outputFiles = json[d].outputFiles
        /\ j.src = json[d].src \ AtOtherEnd(c, links, d) /\ j.forwardTo = json[d].forwardTo
        /\ j.dst = json[d].dst /\ j.origin = json[d].origin
    BY <1>1, <2>1 DEF Json
  <2> HIDE DEF j
  <2>3. \A n, f \in Names, x \in ID :
          /\ L(n, x, f) \in j.src <=> L(n, x, f) \in json[d].src /\ <<x, f, d, n>> \notin R
          /\ L(n, x, f) \in j.dst <=> L(n, x, f) \in json[d].dst /\ <<d, n, x, f>> \notin R
          /\ L(n, x, f) \in j.forwardTo <=>
               L(n, x, f) \in json[d].forwardTo /\ <<d, n, x, f>> \notin R
          /\ L(n, x, f) \in j.origin <=> L(n, x, f) \in json[d].origin /\ <<x, f, d, n>> \notin R
    BY <1>2, <1>3, <1>6, <2>2
  <2> QED BY <2>2, <2>3 DEF Erased, j, R
<1> QED BY <1>4, <1>5, <1>6

LEMMA RemoveFileLinkEdges ==
  ASSUME Sound, edits' \in 0..MaxEdits, NEW c \in Component, NEW l, removeFileLink(c, l)
  PROVE  \E R \in SUBSET EdgesOf(c) : EdgesErased(R)
<1>1. /\ c \in Component /\ {l} \in SUBSET json[c].src /\ place' = place
      /\ json' = WithoutSources(c, {l})
  BY DEF removeFileLink
<1>2. DOMAIN json' = Component BY <1>1 DEF WithoutSources
<1>3. \A d \in Component : Erased(json'[d], d, Into(c, {l})) BY <1>1, WithoutSourcesFiles
<1>4. EdgesErased(Into(c, {l})) BY <1>1, <1>2, <1>3, ErasedFiles
<1> QED BY <1>4, EdgesNamed

\* The links of the file go with it; nothing of it is forwarded.
LEMMA RemoveInputFileEdges ==
  ASSUME Sound, edits' \in 0..MaxEdits, ~Careless, NEW c \in Component, NEW n, removeInputFile(c, n)
  PROVE  \E R \in SUBSET EdgesOf(c) : EdgesErased(R)
<1> DEFINE links == {l \in json[c].src : l.name = n}
           W == WithoutSources(c, links)
           R == Into(c, links)
<1>1. /\ n \in json[c].inputFiles /\ {l \in json[c].forwardTo : l.name = n} = {} /\ place' = place
      /\ json' = [W EXCEPT ![c].inputFiles = @ \ {n}, ![c].forwardTo = {l \in @ : l.name # n}]
  BY DEF removeInputFile
<1>2. links \in SUBSET json[c].src /\ R \in SUBSET EdgesOf(c) BY EdgesNamed
<1>3. \A d \in Component : Erased(W[d], d, R) BY <1>2, WithoutSourcesFiles
<1>4. DOMAIN W = Component BY DEF WithoutSources
<1>5. /\ DOMAIN json' = Component /\ \A d \in Component \ {c} : json'[d] = W[d]
      /\ json'[c] = [W[c] EXCEPT !.inputFiles = @ \ {n}, !.forwardTo = {l \in @ : l.name # n}]
  BY <1>1, <1>4
<1>6. c \in ID /\ links \in SUBSET Links BY FileTypes DEF Sound
<1> HIDE DEF links
<1>7. \A m, f \in Names, x \in ID : <<x, f, c, m>> \in R <=> L(m, x, f) \in links
  BY <1>6, EdgesOfLinks
<1> HIDE DEF W, R
<1>8. ASSUME NEW d \in Component
      PROVE  /\ KeepsLinks(d) /\ json'[d].parent = json[d].parent /\ json'[d] \in Json
             /\ json'[d].src = W[d].src /\ json'[d].dst = W[d].dst /\ json'[d].origin = W[d].origin
             /\ json'[d].outputFiles = json[d].outputFiles
             /\ d # c => json'[d].forwardTo = W[d].forwardTo /\ json'[d].inputFiles = json[d].inputFiles
             /\ d = c => /\ json'[d].forwardTo = {l \in W[d].forwardTo : l.name # n}
                         /\ json'[d].inputFiles = json[d].inputFiles \ {n}
  <2>1. /\ W[d] \in Json /\ W[d].parent = json[d].parent /\ W[d].next = json[d].next
        /\ W[d].else = json[d].else /\ W[d].previous = json[d].previous
        /\ W[d].inputFiles = json[d].inputFiles /\ W[d].outputFiles = json[d].outputFiles
    BY <1>3 DEF Erased
  <2>2. CASE d # c BY <1>5, <2>1, <2>2 DEF KeepsLinks
  <2>3. CASE d = c
    <3> DEFINE names == W[c].inputFiles \ {n}
               forwards == {l \in W[c].forwardTo : l.name # n}
    <3>1. names \in SUBSET (Name \union {UploadOnDemand}) /\ forwards \in SUBSET Links
      BY <2>1, <2>3 DEF Json
    <3>2. json'[c] = [W[c] EXCEPT !.inputFiles = names, !.forwardTo = forwards] BY <1>5
    <3>3. names = json[c].inputFiles \ {n} BY <2>1, <2>3
    <3> HIDE DEF names
    <3>4. /\ json'[c].forwardTo = forwards /\ json'[c].inputFiles = names
          /\ json'[c].src = W[c].src /\ json'[c].dst = W[c].dst /\ json'[c].origin = W[c].origin
          /\ json'[c].outputFiles = W[c].outputFiles /\ json'[c].parent = W[c].parent
          /\ json'[c].next = W[c].next /\ json'[c].else = W[c].else
          /\ json'[c].previous = W[c].previous
      BY <2>1, <2>3, <3>2 DEF Json
    <3>5. json'[c] \in Json
      <4> HIDE DEF forwards
      <4> QED BY <2>1, <2>3, <3>1, <3>2 DEF Json
    <3> QED BY <2>1, <2>3, <3>3, <3>4, <3>5 DEF KeepsLinks
  <2> QED BY <2>2, <2>3
<1>9. \A m, f \in Names, x \in ID :
        /\ L(m, x, f) \in json[c].forwardTo => m # n
        /\ L(m, x, f).name = m
  BY <1>1, LinkParts
<1>10. \A d \in Component : \A m, f \in Names, x \in ID :
        /\ L(m, x, f) \in json'[d].src <=> L(m, x, f) \in json[d].src /\ <<x, f, d, m>> \notin R
        /\ L(m, x, f) \in json'[d].dst <=> L(m, x, f) \in json[d].dst /\ <<d, m, x, f>> \notin R
        /\ L(m, x, f) \in json'[d].forwardTo <=>
             L(m, x, f) \in json[d].forwardTo /\ <<d, m, x, f>> \notin R
        /\ L(m, x, f) \in json'[d].origin <=> L(m, x, f) \in json[d].origin /\ <<x, f, d, m>> \notin R
  <2> TAKE d \in Component
  <2> TAKE m, f \in Names, x \in ID
  <2>1. /\ L(m, x, f) \in W[d].src <=> L(m, x, f) \in json[d].src /\ <<x, f, d, m>> \notin R
        /\ L(m, x, f) \in W[d].dst <=> L(m, x, f) \in json[d].dst /\ <<d, m, x, f>> \notin R
        /\ L(m, x, f) \in W[d].forwardTo <=>
             L(m, x, f) \in json[d].forwardTo /\ <<d, m, x, f>> \notin R
        /\ L(m, x, f) \in W[d].origin <=> L(m, x, f) \in json[d].origin /\ <<x, f, d, m>> \notin R
    BY <1>3 DEF Erased
  <2>2. L(m, x, f) \in json'[d].forwardTo <=> L(m, x, f) \in W[d].forwardTo
    <3>1. CASE d # c BY <1>8, <3>1
    <3>2. CASE d = c
      <4>1. json'[c].forwardTo = {l \in W[c].forwardTo : l.name # n} BY <1>8
      <4> QED BY <1>9, <2>1, <3>2, <4>1
    <3> QED BY <3>1, <3>2
  <2> QED BY <1>8, <2>1, <2>2
<1>11. \A d \in Component :
         /\ \A m \in json[d].inputFiles \ json'[d].inputFiles : \A f \in Names, x \in ID :
              /\ L(m, x, f) \in json[d].src => <<x, f, d, m>> \in R
              /\ L(m, x, f) \notin json[d].forwardTo
         /\ json[d].outputFiles \ json'[d].outputFiles = {}
  <2> TAKE d \in Component
  <2>1. json[d].outputFiles \ json'[d].outputFiles = {} BY <1>8
  <2>2. ASSUME NEW m \in json[d].inputFiles \ json'[d].inputFiles PROVE d = c /\ m = n
    BY <1>8
  <2>3. n \in Names BY <1>1, FileTypes DEF Sound, Names
  <2>4. ASSUME NEW f \in Names, NEW x \in ID, L(n, x, f) \in json[c].src PROVE L(n, x, f) \in links
    BY <1>9, <2>3, <2>4 DEF links
  <2> QED BY <1>7, <1>9, <2>1, <2>2, <2>3, <2>4
<1>12. \A d \in Component : KeepsLinks(d) /\ json'[d].parent = json[d].parent /\ json'[d] \in Json
  BY <1>8
<1>13. EdgesErased(R)
  <2>1. \A d \in Component :
          /\ \A m \in json[d].inputFiles \ json'[d].inputFiles : \A f \in Names, x \in ID :
               /\ L(m, x, f) \in json[d].src => <<x, f, d, m>> \in R
               /\ L(m, x, f) \notin json[d].forwardTo
          /\ \A m \in json[d].outputFiles \ json'[d].outputFiles : \A f \in Names, x \in ID :
               /\ L(m, x, f) \in json[d].dst => <<d, m, x, f>> \in R
               /\ L(m, x, f) \notin json[d].origin
    BY <1>11
  <2>2. place' = place /\ DOMAIN json' = Component BY <1>1, <1>5
  <2> QED BY <1>10, <1>12, <2>1, <2>2, Zenon DEF EdgesErased
<1> QED BY <1>2, <1>13

LEMMA RemoveOutputFileEdges ==
  ASSUME Sound, edits' \in 0..MaxEdits, ~Careless, NEW c \in Component, NEW n, removeOutputFile(c, n)
  PROVE  \E R \in SUBSET EdgesOf(c) : EdgesErased(R)
<1> DEFINE links == {l \in json[c].dst : l.name = n}
           W == WithoutTargets(c, links)
           R == From(c, links)
<1>1. /\ n \in json[c].outputFiles /\ {l \in json[c].origin : l.name = n} = {} /\ place' = place
      /\ json' = [W EXCEPT ![c].outputFiles = @ \ {n}, ![c].origin = {l \in @ : l.name # n}]
  BY DEF removeOutputFile
<1>2. links \in SUBSET json[c].dst /\ R \in SUBSET EdgesOf(c) BY EdgesNamed
<1>3. \A d \in Component : Erased(W[d], d, R) BY <1>2, WithoutTargetsFiles
<1>4. DOMAIN W = Component BY DEF WithoutTargets
<1>5. /\ DOMAIN json' = Component /\ \A d \in Component \ {c} : json'[d] = W[d]
      /\ json'[c] = [W[c] EXCEPT !.outputFiles = @ \ {n}, !.origin = {l \in @ : l.name # n}]
  BY <1>1, <1>4
<1>6. c \in ID /\ links \in SUBSET Links BY FileTypes DEF Sound
<1> HIDE DEF links
<1>7. \A m, f \in Names, x \in ID : <<c, m, x, f>> \in R <=> L(m, x, f) \in links
  BY <1>6, EdgesOfLinks
<1> HIDE DEF W, R
<1>8. ASSUME NEW d \in Component
      PROVE  /\ KeepsLinks(d) /\ json'[d].parent = json[d].parent /\ json'[d] \in Json
             /\ json'[d].src = W[d].src /\ json'[d].dst = W[d].dst
             /\ json'[d].forwardTo = W[d].forwardTo /\ json'[d].inputFiles = json[d].inputFiles
             /\ d # c => json'[d].origin = W[d].origin /\ json'[d].outputFiles = json[d].outputFiles
             /\ d = c => /\ json'[d].origin = {l \in W[d].origin : l.name # n}
                         /\ json'[d].outputFiles = json[d].outputFiles \ {n}
  <2>1. /\ W[d] \in Json /\ W[d].parent = json[d].parent /\ W[d].next = json[d].next
        /\ W[d].else = json[d].else /\ W[d].previous = json[d].previous
        /\ W[d].inputFiles = json[d].inputFiles /\ W[d].outputFiles = json[d].outputFiles
    BY <1>3 DEF Erased
  <2>2. CASE d # c BY <1>5, <2>1, <2>2 DEF KeepsLinks
  <2>3. CASE d = c
    <3> DEFINE names == W[c].outputFiles \ {n}
               origins == {l \in W[c].origin : l.name # n}
    <3>1. names \in SUBSET (Name \union {UploadOnDemand}) /\ origins \in SUBSET Links
      BY <2>1, <2>3 DEF Json
    <3>2. json'[c] = [W[c] EXCEPT !.outputFiles = names, !.origin = origins] BY <1>5
    <3>3. names = json[c].outputFiles \ {n} BY <2>1, <2>3
    <3> HIDE DEF names
    <3>4. /\ json'[c].origin = origins /\ json'[c].outputFiles = names
          /\ json'[c].src = W[c].src /\ json'[c].dst = W[c].dst
          /\ json'[c].forwardTo = W[c].forwardTo
          /\ json'[c].inputFiles = W[c].inputFiles /\ json'[c].parent = W[c].parent
          /\ json'[c].next = W[c].next /\ json'[c].else = W[c].else
          /\ json'[c].previous = W[c].previous
      BY <2>1, <2>3, <3>2 DEF Json
    <3>5. json'[c] \in Json
      <4> HIDE DEF origins
      <4> QED BY <2>1, <2>3, <3>1, <3>2 DEF Json
    <3> QED BY <2>1, <2>3, <3>3, <3>4, <3>5 DEF KeepsLinks
  <2> QED BY <2>2, <2>3
<1>9. \A m, f \in Names, x \in ID :
        /\ L(m, x, f) \in json[c].origin => m # n
        /\ L(m, x, f).name = m
  BY <1>1, LinkParts
<1>10. \A d \in Component : \A m, f \in Names, x \in ID :
        /\ L(m, x, f) \in json'[d].src <=> L(m, x, f) \in json[d].src /\ <<x, f, d, m>> \notin R
        /\ L(m, x, f) \in json'[d].dst <=> L(m, x, f) \in json[d].dst /\ <<d, m, x, f>> \notin R
        /\ L(m, x, f) \in json'[d].forwardTo <=>
             L(m, x, f) \in json[d].forwardTo /\ <<d, m, x, f>> \notin R
        /\ L(m, x, f) \in json'[d].origin <=> L(m, x, f) \in json[d].origin /\ <<x, f, d, m>> \notin R
  <2> TAKE d \in Component
  <2> TAKE m, f \in Names, x \in ID
  <2>1. /\ L(m, x, f) \in W[d].src <=> L(m, x, f) \in json[d].src /\ <<x, f, d, m>> \notin R
        /\ L(m, x, f) \in W[d].dst <=> L(m, x, f) \in json[d].dst /\ <<d, m, x, f>> \notin R
        /\ L(m, x, f) \in W[d].forwardTo <=>
             L(m, x, f) \in json[d].forwardTo /\ <<d, m, x, f>> \notin R
        /\ L(m, x, f) \in W[d].origin <=> L(m, x, f) \in json[d].origin /\ <<x, f, d, m>> \notin R
    BY <1>3 DEF Erased
  <2>2. L(m, x, f) \in json'[d].origin <=> L(m, x, f) \in W[d].origin
    <3>1. CASE d # c BY <1>8, <3>1
    <3>2. CASE d = c
      <4>1. json'[c].origin = {l \in W[c].origin : l.name # n} BY <1>8
      <4> QED BY <1>9, <2>1, <3>2, <4>1
    <3> QED BY <3>1, <3>2
  <2> QED BY <1>8, <2>1, <2>2
<1>11. \A d \in Component :
         /\ \A m \in json[d].outputFiles \ json'[d].outputFiles : \A f \in Names, x \in ID :
              /\ L(m, x, f) \in json[d].dst => <<d, m, x, f>> \in R
              /\ L(m, x, f) \notin json[d].origin
         /\ json[d].inputFiles \ json'[d].inputFiles = {}
  <2> TAKE d \in Component
  <2>1. json[d].inputFiles \ json'[d].inputFiles = {} BY <1>8
  <2>2. ASSUME NEW m \in json[d].outputFiles \ json'[d].outputFiles PROVE d = c /\ m = n
    BY <1>8
  <2>3. n \in Names BY <1>1, FileTypes DEF Sound, Names
  <2>4. ASSUME NEW f \in Names, NEW x \in ID, L(n, x, f) \in json[c].dst PROVE L(n, x, f) \in links
    BY <1>9, <2>3, <2>4 DEF links
  <2> QED BY <1>7, <1>9, <2>1, <2>2, <2>3, <2>4
<1>12. \A d \in Component : KeepsLinks(d) /\ json'[d].parent = json[d].parent /\ json'[d] \in Json
  BY <1>8
<1>13. EdgesErased(R)
  <2>1. \A d \in Component :
          /\ \A m \in json[d].inputFiles \ json'[d].inputFiles : \A f \in Names, x \in ID :
               /\ L(m, x, f) \in json[d].src => <<x, f, d, m>> \in R
               /\ L(m, x, f) \notin json[d].forwardTo
          /\ \A m \in json[d].outputFiles \ json'[d].outputFiles : \A f \in Names, x \in ID :
               /\ L(m, x, f) \in json[d].dst => <<d, m, x, f>> \in R
               /\ L(m, x, f) \notin json[d].origin
    BY <1>11
  <2>2. place' = place /\ DOMAIN json' = Component BY <1>1, <1>5
  <2> QED BY <1>10, <1>12, <2>1, <2>2, Zenon DEF EdgesErased
<1> QED BY <1>2, <1>13

LEMMA OnlyUpdate ==
  ASSUME NEW l, NEW gone \in LostUpdates({l}) PROVE gone = {l}
<1>1. gone \in SUBSET {l} /\ gone # {} BY DEF LostUpdates
<1>2. \A m \in gone : m = l BY <1>1
<1>3. l \in gone BY <1>1, <1>2
<1> QED BY <1>2, <1>3

\* The only link of the file comes from a sibling, and goes from both ends.
LEMMA RemoveAllFileLinkEdges ==
  ASSUME Sound, edits' \in 0..MaxEdits, ~Careless, NEW c \in Component, NEW i, removeAllFileLink(c, i)
  PROVE  \E R \in SUBSET EdgesOf(c) : EdgesErased(R)
<1>1. PICK l \in json[c].src : {m \in json[c].src : m.name = i} = {l} /\ l.node # json[c].parent
  BY DEF removeAllFileLink
<1>2. l.node \in Component /\ l.file \in json[l.node].outputFiles
  BY <1>1 DEF Sound, Files, SourcesAgree
<1>3. {m \in {l} : m.node \in Component /\ m.file \in json[m.node].outputFiles} = {l} BY <1>2
<1>4. PICK here \in LostUpdates({l}), there \in LostUpdates({l}) :
        json' = [d \in Component |->
                  [json[d] EXCEPT !.src = IF d = c THEN @ \ here ELSE @,
                     !.dst = @ \ {L(m.file, c, m.name) : m \in {k \in there : k.node = d}}]]
  <2> DEFINE links == {m \in json[c].src : m.name = i}
             good == {m \in links : m.node \in Component /\ m.file \in json[m.node].outputFiles}
  <2>1. IF good = {} THEN UNCHANGED json ELSE
        \E here \in LostUpdates(good), there \in LostUpdates(good) :
          /\ {m.node : m \in there} = {m.node : m \in good}
          /\ json' = [d \in Component |->
                  [json[d] EXCEPT !.src = IF d = c THEN @ \ here ELSE @,
                     !.dst = @ \ {L(m.file, c, m.name) : m \in {k \in there : k.node = d}}]]
    BY DEF removeAllFileLink
  <2>2. good = {l} BY <1>1, <1>3
  <2> HIDE DEF good
  <2> QED BY <2>1, <2>2
<1>5. here = {l} /\ there = {l} BY <1>4, OnlyUpdate
<1> DEFINE R == Into(c, {l})
<1>6. /\ DOMAIN json' = Component /\ place' = place
      /\ \A d \in Component : json'[d] =
           [json[d] EXCEPT !.src = IF d = c THEN @ \ {l} ELSE @, !.dst = @ \ AtOtherEnd(c, {l}, d)]
  BY <1>4, <1>5 DEF AtOtherEnd, removeAllFileLink
<1>7. /\ c \in ID /\ l \in Links /\ {l} \in SUBSET Links /\ l.node \in ID
      /\ l = L(l.name, l.node, l.file) /\ l.name \in Names /\ l.file \in Names
      /\ l.node # c /\ json[c].parent = place[c] /\ c # Root
      /\ l.node # Root /\ place[l.node] = place[c]
  <2>1. l \in Links /\ c \in ID BY FileTypes DEF Sound
  <2> QED BY <1>1, <2>1, SourceEnds, LinkForms
<1>8. ASSUME NEW d \in Component PROVE Erased(json'[d], d, R)
  <2> DEFINE sources == IF d = c THEN json[d].src \ {l} ELSE json[d].src
             targets == json[d].dst \ AtOtherEnd(c, {l}, d)
  <2>1. /\ d \in ID /\ json[d] \in Json /\ json[d].src \subseteq Links /\ json[d].dst \subseteq Links
    BY FileTypes DEF Sound
  <2>2. sources \in SUBSET Links /\ targets \in SUBSET Links BY <2>1
  <2>3. json'[d] = [json[d] EXCEPT !.src = sources, !.dst = targets] BY <1>6
  <2>4. \A n, f \in Names, x \in ID :
          /\ <<x, f, d, n>> \in R <=> d = c /\ L(n, x, f) \in {l}
          /\ <<d, n, x, f>> \in R <=> x = c /\ L(f, d, n) \in {l}
          /\ L(n, x, f) \in AtOtherEnd(c, {l}, d) <=> x = c /\ L(f, d, n) \in {l}
    BY <1>7, <2>1, EdgesOfLinks
  <2>5. \A n, f \in Names, x \in ID :
          /\ L(n, x, f) = l => x = l.node
          /\ L(f, d, n) = l => d = l.node
          /\ L(n, x, f) \in json[d].forwardTo \union json[d].origin => json[x].parent = d /\ x # d
          /\ L(n, x, f) \in json[d].src \union json[d].dst => x # d
    BY <2>1, EntryEnds, LinkParts
  <2>6. \A n, f \in Names, x \in ID :
          /\ L(n, x, f) \in sources <=> L(n, x, f) \in json[d].src /\ <<x, f, d, n>> \notin R
          /\ L(n, x, f) \in targets <=> L(n, x, f) \in json[d].dst /\ <<d, n, x, f>> \notin R
    <3> HIDE DEF R
    <3> QED BY <2>4
  <2>7. \A n, f \in Names, x \in ID :
          /\ L(n, x, f) \in json[d].forwardTo => <<d, n, x, f>> \notin R
          /\ L(n, x, f) \in json[d].origin => <<x, f, d, n>> \notin R
    <3>1. ASSUME NEW n \in Names, NEW f \in Names, NEW x \in ID, L(n, x, f) \in json[d].forwardTo
          PROVE  <<d, n, x, f>> \notin R
      <4> HIDE DEF R
      <4>1. SUFFICES ASSUME x = c, L(f, d, n) = l PROVE FALSE BY <2>4
      <4>2. d = l.node BY <2>5, <4>1
      <4>3. json[c].parent = d BY <2>5, <3>1, <4>1
      <4> QED BY <1>1, <4>2, <4>3
    <3>2. ASSUME NEW n \in Names, NEW f \in Names, NEW x \in ID, L(n, x, f) \in json[d].origin
          PROVE  <<x, f, d, n>> \notin R
      <4>1. json[x].parent = d /\ x # d BY <2>5, <3>2
      <4>2. x \in Component /\ x # Root /\ place[x] = d BY <2>1, <3>2, EntryEnds
      <4> HIDE DEF R
      <4>3. SUFFICES ASSUME d = c, L(n, x, f) = l PROVE FALSE BY <2>4
      <4>4. x = l.node BY <2>5, <4>3
      <4>5. place[c] = c BY <1>7, <4>2, <4>3, <4>4
      <4> QED BY <1>7, <4>5 DEF Sound, Homes, Nested
    <3> QED BY <3>1, <3>2
  <2> HIDE DEF sources, targets, R
  <2>8. /\ json'[d] \in Json /\ json'[d].parent = json[d].parent /\ json'[d].next = json[d].next
        /\ json'[d].else = json[d].else /\ json'[d].previous = json[d].previous
        /\ json'[d].inputFiles = json[d].inputFiles /\ json'[d].outputFiles = json[d].outputFiles
        /\ json'[d].src = sources /\ json'[d].dst = targets
        /\ json'[d].forwardTo = json[d].forwardTo /\ json'[d].origin = json[d].origin
    BY <2>1, <2>2, <2>3 DEF Json
  <2> QED BY <2>6, <2>7, <2>8 DEF Erased
<1>9. EdgesErased(R) BY <1>6, <1>8, ErasedFiles
<1> QED BY <1>9, EdgesNamed

LEMMA RemoveAllFileLinkFromChildrenEdges ==
  ASSUME Sound, edits' \in 0..MaxEdits, ~Careless, NEW c \in Component, NEW o,
         removeAllFileLinkFromChildren(c, o)
  PROVE  \E R \in SUBSET EdgesOf(c) : EdgesErased(R)
<1>1. PICK l \in json[c].origin : {m \in json[c].origin : m.name = o} = {l}
  BY DEF removeAllFileLinkFromChildren
<1>2. /\ l \in Links /\ {l} \in SUBSET Links /\ c \in ID /\ l.node \in ID
      /\ l = L(l.name, l.node, l.file) /\ l.name \in Names /\ l.file \in Names
  <2>1. l \in Links /\ c \in ID BY FileTypes DEF Sound
  <2> QED BY <2>1, LinkForms
<1>3. l.node \in Component \ {Root} /\ place[l.node] = c /\ json[l.node].parent = c /\ l.node # c
  BY <1>2, EntryEnds
<1>4. L(l.file, c, l.name) \in json[l.node].dst BY <1>1 DEF Sound, Files, OriginsAgree
<1>5. l.file \in json[l.node].outputFiles
  <2>1. L(l.file, c, l.name).name = l.file BY LinkParts
  <2> QED BY <1>3, <1>4, <2>1 DEF Sound, Files, TargetsAgree
<1>6. {m \in {l} : m.node \in Component /\ m.file \in json[m.node].outputFiles} = {l} BY <1>3, <1>5
<1>7. PICK here \in LostUpdates({l}), there \in LostUpdates({l}) :
        json' = [d \in Component |->
                  [json[d] EXCEPT !.origin = IF d = c THEN @ \ here ELSE @,
                     !.dst = @ \ {L(m.file, c, m.name) : m \in {k \in there : k.node = d}}]]
  <2> DEFINE links == {m \in json[c].origin : m.name = o}
             good == {m \in links : m.node \in Component /\ m.file \in json[m.node].outputFiles}
  <2>1. IF good = {} THEN UNCHANGED json ELSE
        \E here \in LostUpdates(good), there \in LostUpdates(good) :
          /\ {m.node : m \in there} = {m.node : m \in good}
          /\ json' = [d \in Component |->
                  [json[d] EXCEPT !.origin = IF d = c THEN @ \ here ELSE @,
                     !.dst = @ \ {L(m.file, c, m.name) : m \in {k \in there : k.node = d}}]]
    BY DEF removeAllFileLinkFromChildren
  <2>2. good = {l} BY <1>1, <1>6
  <2> HIDE DEF good
  <2> QED BY <2>1, <2>2
<1>8. here = {l} /\ there = {l} BY <1>7, OnlyUpdate
<1> DEFINE R == Into(c, {l})
<1>9. /\ DOMAIN json' = Component /\ place' = place
      /\ \A d \in Component : json'[d] =
           [json[d] EXCEPT !.origin = IF d = c THEN @ \ {l} ELSE @, !.dst = @ \ AtOtherEnd(c, {l}, d)]
  BY <1>7, <1>8 DEF AtOtherEnd, removeAllFileLinkFromChildren
<1>10. ASSUME NEW d \in Component PROVE Erased(json'[d], d, R)
  <2> DEFINE origins == IF d = c THEN json[d].origin \ {l} ELSE json[d].origin
             targets == json[d].dst \ AtOtherEnd(c, {l}, d)
  <2>1. /\ d \in ID /\ json[d] \in Json /\ json[d].origin \subseteq Links /\ json[d].dst \subseteq Links
    BY FileTypes DEF Sound
  <2>2. origins \in SUBSET Links /\ targets \in SUBSET Links BY <2>1
  <2>3. json'[d] = [json[d] EXCEPT !.origin = origins, !.dst = targets] BY <1>9
  <2>4. \A n, f \in Names, x \in ID :
          /\ <<x, f, d, n>> \in R <=> d = c /\ L(n, x, f) \in {l}
          /\ <<d, n, x, f>> \in R <=> x = c /\ L(f, d, n) \in {l}
          /\ L(n, x, f) \in AtOtherEnd(c, {l}, d) <=> x = c /\ L(f, d, n) \in {l}
    BY <1>2, <2>1, EdgesOfLinks
  <2>5. \A n, f \in Names, x \in ID :
          /\ L(n, x, f) = l => x = l.node
          /\ L(f, d, n) = l => d = l.node
          /\ L(n, x, f) \in json[d].forwardTo \union json[d].origin => place[x] = d
          /\ L(n, x, f) \in json[d].src \union json[d].dst => x = Root \/ place[x] # d
    BY <2>1, EntryEnds, LinkParts
  <2> HIDE DEF R
  <2>6. \A n, f \in Names, x \in ID :
          /\ L(n, x, f) \in origins <=> L(n, x, f) \in json[d].origin /\ <<x, f, d, n>> \notin R
          /\ L(n, x, f) \in targets <=> L(n, x, f) \in json[d].dst /\ <<d, n, x, f>> \notin R
    BY <2>4
  <2>7. \A n, f \in Names, x \in ID :
          /\ L(n, x, f) \in json[d].forwardTo => <<d, n, x, f>> \notin R
          /\ L(n, x, f) \in json[d].src => <<x, f, d, n>> \notin R
    <3>1. ASSUME NEW n \in Names, NEW f \in Names, NEW x \in ID, L(n, x, f) \in json[d].forwardTo
          PROVE  <<d, n, x, f>> \notin R
      <4>1. SUFFICES ASSUME x = c, L(f, d, n) = l PROVE FALSE BY <2>4
      <4>2. d = l.node /\ place[c] = d /\ c # Root
        BY <1>3, <2>1, <2>5, <3>1, <4>1, EntryEnds
      <4> QED BY <1>3, <4>2 DEF Sound, Homes, Nested
    <3>2. ASSUME NEW n \in Names, NEW f \in Names, NEW x \in ID, L(n, x, f) \in json[d].src
          PROVE  <<x, f, d, n>> \notin R
      <4>1. SUFFICES ASSUME d = c, L(n, x, f) = l PROVE FALSE BY <2>4
      <4> QED BY <1>3, <2>5, <3>2, <4>1
    <3> QED BY <3>1, <3>2
  <2> HIDE DEF origins, targets
  <2>8. /\ json'[d] \in Json /\ json'[d].parent = json[d].parent /\ json'[d].next = json[d].next
        /\ json'[d].else = json[d].else /\ json'[d].previous = json[d].previous
        /\ json'[d].inputFiles = json[d].inputFiles /\ json'[d].outputFiles = json[d].outputFiles
        /\ json'[d].src = json[d].src /\ json'[d].dst = targets
        /\ json'[d].forwardTo = json[d].forwardTo /\ json'[d].origin = origins
    BY <2>1, <2>2, <2>3 DEF Json
  <2> QED BY <2>6, <2>7, <2>8 DEF Erased
<1>11. EdgesErased(R) BY <1>9, <1>10, ErasedFiles
<1> QED BY <1>11, EdgesNamed

-----------------------------------------------------------------------------
(* The new name of a file.                                                 *)

LEMMA OwnRenamedLinks ==
  ASSUME NEW links \in SUBSET Links, NEW old \in Names, NEW new \in Names, old # new,
         NEW n \in Names, NEW x \in ID, NEW f \in Names
  PROVE  /\ L(n, x, f) \in OwnRenamed(links, old, new) <=>
              \/ n = new /\ L(old, x, f) \in links
              \/ n # old /\ L(n, x, f) \in links
         /\ OwnRenamed(links, old, new) \in SUBSET Links
<1>1. ASSUME NEW l \in links
      PROVE  /\ l \in Links /\ l = L(l.name, l.node, l.file)
             /\ [l EXCEPT !.name = new] = L(new, l.node, l.file)
  BY DEF Links, L
<1>2. ASSUME L(n, x, f) \in OwnRenamed(links, old, new)
      PROVE  \/ n = new /\ L(old, x, f) \in links
             \/ n # old /\ L(n, x, f) \in links
  <2>1. PICK l \in links : L(n, x, f) = IF l.name = old THEN [l EXCEPT !.name = new] ELSE l
    BY <1>2 DEF OwnRenamed
  <2>2. CASE l.name = old
    <3>1. L(n, x, f) = L(new, l.node, l.file) BY <1>1, <2>1, <2>2
    <3>2. n = new /\ x = l.node /\ f = l.file BY <3>1, LinkParts
    <3> QED BY <1>1, <2>2, <3>2
  <2>3. CASE l.name # old
    <3>1. L(n, x, f) = l BY <2>1, <2>3
    <3> QED BY <2>3, <3>1, LinkParts
  <2> QED BY <2>2, <2>3
<1>3. ASSUME n = new, L(old, x, f) \in links PROVE L(n, x, f) \in OwnRenamed(links, old, new)
  <2>1. PICK l \in links : l = L(old, x, f) BY <1>3
  <2>2. l.name = old /\ l.node = x /\ l.file = f BY <2>1, LinkParts
  <2>3. [l EXCEPT !.name = new] = L(n, x, f) BY <1>1, <1>3, <2>2
  <2> QED BY <2>2, <2>3 DEF OwnRenamed
<1>4. ASSUME n # old, L(n, x, f) \in links PROVE L(n, x, f) \in OwnRenamed(links, old, new)
  <2>1. L(n, x, f).name = n BY LinkParts
  <2> QED BY <1>4, <2>1 DEF OwnRenamed
<1>5. OwnRenamed(links, old, new) \in SUBSET Links
  <2>1. ASSUME NEW l \in links PROVE (IF l.name = old THEN [l EXCEPT !.name = new] ELSE l) \in Links
    BY <1>1, LinkParts, LinkForms
  <2> QED BY <2>1 DEF OwnRenamed
<1> QED BY <1>2, <1>3, <1>4, <1>5

LEMMA OtherRenamedLinks ==
  ASSUME NEW links \in SUBSET Links, NEW old \in Names, NEW new \in Names, old # new, NEW c \in ID,
         NEW n \in Names, NEW x \in ID, NEW f \in Names
  PROVE  /\ L(n, x, f) \in OtherRenamed(links, c, old, new) <=>
              \/ x = c /\ f = new /\ L(n, c, old) \in links
              \/ (x # c \/ f # old) /\ L(n, x, f) \in links
         /\ OtherRenamed(links, c, old, new) \in SUBSET Links
<1>1. ASSUME NEW l \in links
      PROVE  /\ l \in Links /\ l = L(l.name, l.node, l.file)
             /\ [l EXCEPT !.file = new] = L(l.name, l.node, new)
  BY DEF Links, L
<1>2. ASSUME L(n, x, f) \in OtherRenamed(links, c, old, new)
      PROVE  \/ x = c /\ f = new /\ L(n, c, old) \in links
             \/ (x # c \/ f # old) /\ L(n, x, f) \in links
  <2>1. PICK l \in links :
          L(n, x, f) = IF l.node = c /\ l.file = old THEN [l EXCEPT !.file = new] ELSE l
    BY <1>2 DEF OtherRenamed
  <2>2. CASE l.node = c /\ l.file = old
    <3>1. L(n, x, f) = L(l.name, l.node, new) BY <1>1, <2>1, <2>2
    <3>2. n = l.name /\ x = l.node /\ f = new BY <3>1, LinkParts
    <3> QED BY <1>1, <2>2, <3>2
  <2>3. CASE ~(l.node = c /\ l.file = old)
    <3>1. L(n, x, f) = l BY <2>1, <2>3
    <3> QED BY <2>3, <3>1, LinkParts
  <2> QED BY <2>2, <2>3
<1>3. ASSUME x = c, f = new, L(n, c, old) \in links
      PROVE  L(n, x, f) \in OtherRenamed(links, c, old, new)
  <2>1. PICK l \in links : l = L(n, c, old) BY <1>3
  <2>2. l.name = n /\ l.node = c /\ l.file = old BY <2>1, LinkParts
  <2>3. [l EXCEPT !.file = new] = L(n, x, f) BY <1>1, <1>3, <2>2
  <2> QED BY <2>2, <2>3 DEF OtherRenamed
<1>4. ASSUME x # c \/ f # old, L(n, x, f) \in links
      PROVE  L(n, x, f) \in OtherRenamed(links, c, old, new)
  <2>1. L(n, x, f).node = x /\ L(n, x, f).file = f BY LinkParts
  <2> QED BY <1>4, <2>1 DEF OtherRenamed
<1>5. OtherRenamed(links, c, old, new) \in SUBSET Links
  <2>1. ASSUME NEW l \in links
        PROVE  (IF l.node = c /\ l.file = old THEN [l EXCEPT !.file = new] ELSE l) \in Links
    BY <1>1, LinkParts, LinkForms
  <2> QED BY <2>1 DEF OtherRenamed
<1> QED BY <1>2, <1>3, <1>4, <1>5

\* Edges to, or from, the file old of c, which is called new.
IntoRenamed(E, c, old, new) ==
  {e \in Edge : IF e[3] = c /\ e[4] = new THEN <<e[1], e[2], c, old>> \in E
                ELSE e \in E /\ ~(e[3] = c /\ e[4] = old)}
FromRenamed(E, c, old, new) ==
  {e \in Edge : IF e[1] = c /\ e[2] = new THEN <<c, old, e[3], e[4]>> \in E
                ELSE e \in E /\ ~(e[1] = c /\ e[2] = old)}

\* What the edges of Sound say of the names of c.
LEMMA EdgeEnds ==
  ASSUME Sound, NEW s \in ID, NEW d \in ID, NEW o \in Names, NEW i \in Names
  PROVE  /\ <<s, o, d, i>> \in Beside =>
              /\ s # d /\ s # place[d] /\ d # place[s]
              /\ o \in json[s].outputFiles /\ i \in json[d].inputFiles
              /\ L(i, s, o) \in json[d].src /\ L(o, d, i) \in json[s].dst
              /\ s \in Component \ {Root} /\ d \in Component \ {Root} /\ place[s] = place[d]
         /\ <<s, o, d, i>> \in Down =>
              /\ s # d /\ s = place[d] /\ (s = Root \/ place[s] # d)
              /\ o \in json[s].inputFiles /\ i \in json[d].inputFiles
              /\ L(i, s, o) \in json[d].src /\ L(o, d, i) \in json[s].forwardTo
              /\ s \in Component /\ d \in Component \ {Root}
         /\ <<s, o, d, i>> \in Up =>
              /\ s # d /\ d = place[s] /\ (d = Root \/ place[d] # s)
              /\ o \in json[s].outputFiles /\ i \in json[d].outputFiles
              /\ L(i, s, o) \in json[d].origin /\ L(o, d, i) \in json[s].dst
              /\ s \in Component \ {Root} /\ d \in Component
<1>1. \A c \in Component \ {Root} : place[c] # c /\ (place[c] # Root => place[place[c]] # c)
  BY DEF Sound, Homes, Nested
<1>2. /\ <<s, o, d, i>> \in Beside =>
           /\ {s, d} \subseteq Component \ {Root} /\ s # d /\ place[s] = place[d]
           /\ o \in json[s].outputFiles /\ i \in json[d].inputFiles
      /\ <<s, o, d, i>> \in Down =>
           /\ {s, d} \subseteq Component /\ d # Root /\ s = place[d]
           /\ o \in json[s].inputFiles /\ i \in json[d].inputFiles
      /\ <<s, o, d, i>> \in Up =>
           /\ {s, d} \subseteq Component /\ s # Root /\ d = place[s]
           /\ o \in json[s].outputFiles /\ i \in json[d].outputFiles
  BY EdgesFit DEF Fit
<1>3. ASSUME s \in Component, d \in Component
      PROVE  /\ <<s, o, d, i>> \in Beside => L(i, s, o) \in json[d].src /\ L(o, d, i) \in json[s].dst
             /\ <<s, o, d, i>> \in Down => L(i, s, o) \in json[d].src /\ L(o, d, i) \in json[s].forwardTo
             /\ <<s, o, d, i>> \in Up => L(i, s, o) \in json[d].origin /\ L(o, d, i) \in json[s].dst
  BY <1>3, EdgesRecorded DEF Record
<1> QED BY <1>1, <1>2, <1>3

\* The files after the inputFile old of c is called new.
InputRenamed(c, old, new, sources) ==
  /\ place' = place /\ DOMAIN json' = Component
  /\ \A d \in Component :
       /\ KeepsLinks(d) /\ json'[d].parent = json[d].parent /\ json'[d] \in Json
       /\ json'[d].outputFiles = json[d].outputFiles
       /\ json'[d].inputFiles = IF d = c THEN Renamed(json[d].inputFiles, old, new)
                                ELSE json[d].inputFiles
       /\ json'[d].src = IF d = c THEN OwnRenamed(json[d].src, old, new) ELSE json[d].src
       /\ json'[d].dst = IF d \in sources THEN OtherRenamed(json[d].dst, c, old, new)
                         ELSE json[d].dst
       /\ json'[d].forwardTo = IF d = c THEN OwnRenamed(json[d].forwardTo, old, new)
                               ELSE IF d \in sources
                                    THEN OtherRenamed(json[d].forwardTo, c, old, new)
                                    ELSE json[d].forwardTo
       /\ json'[d].origin = json[d].origin

LEMMA RenameInputFiles ==
  ASSUME Sound, NEW c \in Component, NEW old \in Names, NEW new \in Names, old # new,
         renameInputFile(c, old, new),
         NEW sources, sources = {l.node : l \in {m \in json[c].src : m.name = old}}
  PROVE  InputRenamed(c, old, new, sources)
<1>1. /\ sources \subseteq Component /\ place' = place /\ c \notin sources
  <2>1. \A l \in json[c].src : l.node \in Component /\ l.node # c BY SourceEnds
  <2>2. place' = place BY DEF renameInputFile
  <2> QED BY <2>1, <2>2
<1>2. json' = [d \in Component |->
         IF d = c
         THEN [json[c] EXCEPT !.inputFiles = Renamed(@, old, new), !.src = OwnRenamed(@, old, new),
                              !.forwardTo = OwnRenamed(@, old, new)]
         ELSE IF d \in sources
         THEN [json[d] EXCEPT !.dst = OtherRenamed(@, c, old, new),
                              !.forwardTo = OtherRenamed(@, c, old, new)]
         ELSE json[d]]
  BY DEF renameInputFile
<1>3. ASSUME NEW d \in Component
      PROVE  /\ KeepsLinks(d) /\ json'[d].parent = json[d].parent /\ json'[d] \in Json
             /\ json'[d].outputFiles = json[d].outputFiles
             /\ json'[d].inputFiles = IF d = c THEN Renamed(json[d].inputFiles, old, new)
                                      ELSE json[d].inputFiles
             /\ json'[d].src = IF d = c THEN OwnRenamed(json[d].src, old, new) ELSE json[d].src
             /\ json'[d].dst = IF d \in sources THEN OtherRenamed(json[d].dst, c, old, new)
                               ELSE json[d].dst
             /\ json'[d].forwardTo = IF d = c THEN OwnRenamed(json[d].forwardTo, old, new)
                                     ELSE IF d \in sources
                                          THEN OtherRenamed(json[d].forwardTo, c, old, new)
                                          ELSE json[d].forwardTo
             /\ json'[d].origin = json[d].origin
  <2>1. /\ json[d] \in Json /\ c \in ID /\ json[d].src \in SUBSET Links /\ json[d].dst \in SUBSET Links
        /\ json[d].forwardTo \in SUBSET Links
        /\ json[d].inputFiles \in SUBSET Names
    BY FileTypes DEF Sound, Names
  <2>2. CASE d = c
    <3> DEFINE inputs == Renamed(json[c].inputFiles, old, new)
               srcs == OwnRenamed(json[c].src, old, new)
               forwards == OwnRenamed(json[c].forwardTo, old, new)
    <3>1. inputs \in SUBSET Names BY <2>1, <2>2 DEF Renamed
    <3>2. srcs \in SUBSET Links /\ forwards \in SUBSET Links BY <2>1, <2>2, OwnRenamedLinks
    <3>3. json'[c] = [json[c] EXCEPT !.inputFiles = inputs, !.src = srcs, !.forwardTo = forwards]
      BY <1>2
    <3> HIDE DEF inputs, srcs, forwards
    <3>4. /\ json'[c] \in Json /\ json'[c].parent = json[c].parent
          /\ json'[c].next = json[c].next /\ json'[c].else = json[c].else
          /\ json'[c].previous = json[c].previous
          /\ json'[c].outputFiles = json[c].outputFiles /\ json'[c].inputFiles = inputs
          /\ json'[c].src = srcs /\ json'[c].dst = json[c].dst
          /\ json'[c].forwardTo = forwards /\ json'[c].origin = json[c].origin
      BY <2>1, <2>2, <3>1, <3>2, <3>3 DEF Json, Names
    <3> QED BY <1>1, <2>2, <3>4 DEF KeepsLinks, inputs, srcs, forwards
  <2>3. CASE d # c /\ d \in sources
    <3> DEFINE dsts == OtherRenamed(json[d].dst, c, old, new)
               forwards == OtherRenamed(json[d].forwardTo, c, old, new)
    <3>1. dsts \in SUBSET Links /\ forwards \in SUBSET Links BY <2>1, OtherRenamedLinks
    <3>2. json'[d] = [json[d] EXCEPT !.dst = dsts, !.forwardTo = forwards] BY <1>2, <2>3
    <3> HIDE DEF dsts, forwards
    <3>3. /\ json'[d] \in Json /\ json'[d].parent = json[d].parent
          /\ json'[d].next = json[d].next /\ json'[d].else = json[d].else
          /\ json'[d].previous = json[d].previous
          /\ json'[d].outputFiles = json[d].outputFiles /\ json'[d].inputFiles = json[d].inputFiles
          /\ json'[d].src = json[d].src /\ json'[d].dst = dsts
          /\ json'[d].forwardTo = forwards /\ json'[d].origin = json[d].origin
      BY <2>1, <3>1, <3>2 DEF Json
    <3> QED BY <2>3, <3>3 DEF KeepsLinks, dsts, forwards
  <2>4. CASE d # c /\ d \notin sources
    <3>1. json'[d] = json[d] BY <1>2, <2>4
    <3> QED BY <2>1, <2>4, <3>1 DEF KeepsLinks
  <2> QED BY <2>2, <2>3, <2>4
<1> QED BY <1>1, <1>2, <1>3 DEF InputRenamed

LEMMA InputRenamedSound ==
  ASSUME Sound, edits' \in 0..MaxEdits, NEW c \in Component, NEW old \in json[c].inputFiles,
         NEW new \in Names, new \notin json[c].inputFiles,
         {l \in json[c].forwardTo : l.name = old} = {},
         NEW sources, sources = {l.node : l \in {m \in json[c].src : m.name = old}},
         InputRenamed(c, old, new, sources)
  PROVE  Sound'
<1> DEFINE B == IntoRenamed(Beside, c, old, new)
           D == IntoRenamed(Down, c, old, new)
<1>1. Rewrite BY RewriteOf DEF InputRenamed
<1>2. old \in Names /\ old # new /\ c \in ID BY FileTypes DEF Sound, Names
<1>3. \A s, d \in ID, o, i \in Names :
        /\ <<s, o, d, i>> \in B <=> IF d = c /\ i = new THEN <<s, o, c, old>> \in Beside
                                    ELSE <<s, o, d, i>> \in Beside /\ ~(d = c /\ i = old)
        /\ <<s, o, d, i>> \in D <=> IF d = c /\ i = new THEN <<s, o, c, old>> \in Down
                                    ELSE <<s, o, d, i>> \in Down /\ ~(d = c /\ i = old)
  <2> TAKE s, d \in ID, o, i \in Names
  <2>1. <<s, o, d, i>> \in Edge BY EdgeForms
  <2> QED BY <2>1 DEF IntoRenamed
<1> HIDE DEF B, D
<1>4. \A f \in Names, x \in ID : L(old, x, f) \notin json[c].forwardTo
  BY LinkParts
<1>5. \A x \in ID, f \in Names : L(old, x, f) \in json[c].src => x \in sources
  BY LinkParts
<1>6. ASSUME NEW x \in sources
      PROVE  x # c /\ x # Root => place[x] # c
  <2>1. PICK l \in json[c].src : x = l.node OBVIOUS
  <2> QED BY <2>1, SourceEnds
<1>7. RecordNext(B, D, Up)
  <2>1. SUFFICES ASSUME NEW d \in Component, NEW n \in Names, NEW f \in Names, NEW x \in ID
        PROVE  /\ L(n, x, f) \in json'[d].src <=> <<x, f, d, n>> \in B \union D
               /\ L(n, x, f) \in json'[d].dst <=> <<d, n, x, f>> \in B \union Up
               /\ L(n, x, f) \in json'[d].forwardTo <=> <<d, n, x, f>> \in D
               /\ L(n, x, f) \in json'[d].origin <=> <<x, f, d, n>> \in Up
    BY DEF RecordNext, InputRenamed
  <2>2. d \in ID BY FileTypes DEF Sound
  <2>3. \A m, g \in Names, y \in ID :
        /\ L(m, y, g) \in json[d].src <=> <<y, g, d, m>> \in Beside \union Down
        /\ L(m, y, g) \in json[d].dst <=> <<d, m, y, g>> \in Beside \union Up
        /\ L(m, y, g) \in json[d].forwardTo <=> <<d, m, y, g>> \in Down
        /\ L(m, y, g) \in json[d].origin <=> <<y, g, d, m>> \in Up
    BY EdgesRecorded DEF Record
  <2>4. \A o, i \in Names, s \in ID :
        /\ <<s, o, c, i>> \in Beside \union Down => i \in json[c].inputFiles /\ s # c
        /\ <<d, o, c, i>> \in Up => d # Root /\ d # c /\ place[d] = c
        /\ <<d, o, c, i>> \in Beside => L(i, d, o) \in json[c].src /\ (d = Root \/ place[d] # c)
        /\ <<d, o, c, i>> \in Down => L(i, d, o) \in json[c].src /\ (d = Root \/ place[d] # c)
    BY <1>2, <2>2, EdgeEnds
  <2>5. L(n, x, f) \in json'[d].src <=> <<x, f, d, n>> \in B \union D
    <3>1. CASE d = c
      <4>1. json'[d].src = OwnRenamed(json[d].src, old, new) BY <3>1 DEF InputRenamed
      <4>2. json[d].src \in SUBSET Links BY FileTypes DEF Sound
      <4>3. L(n, x, f) \in json'[d].src <=> \/ n = new /\ L(old, x, f) \in json[d].src
                                            \/ n # old /\ L(n, x, f) \in json[d].src
        BY <1>2, <4>1, <4>2, OwnRenamedLinks
      <4>4. L(new, x, f) \notin json[c].src BY <2>3, <2>4, <3>1
      <4> QED BY <1>2, <1>3, <2>2, <2>3, <3>1, <4>3, <4>4
    <3>2. CASE d # c
      <4>1. json'[d].src = json[d].src BY <3>2 DEF InputRenamed
      <4> QED BY <1>3, <2>2, <2>3, <3>2, <4>1
    <3> QED BY <3>1, <3>2
  <2>6. L(n, x, f) \in json'[d].dst <=> <<d, n, x, f>> \in B \union Up
    <3>1. CASE d \in sources
      <4>1. json'[d].dst = OtherRenamed(json[d].dst, c, old, new) BY <3>1 DEF InputRenamed
      <4>2. json[d].dst \in SUBSET Links BY FileTypes DEF Sound
      <4>3. L(n, x, f) \in json'[d].dst <=> \/ x = c /\ f = new /\ L(n, c, old) \in json[d].dst
                                            \/ (x # c \/ f # old) /\ L(n, x, f) \in json[d].dst
        BY <1>2, <4>1, <4>2, OtherRenamedLinks
      <4>4. <<d, n, c, old>> \notin Up /\ <<d, n, c, new>> \notin Up
        BY <1>2, <1>6, <2>4, <3>1
      <4>5. <<d, n, c, new>> \notin Beside BY <2>2, <2>4
      <4> QED BY <1>2, <1>3, <2>2, <2>3, <4>3, <4>4, <4>5
    <3>2. CASE d \notin sources
      <4>1. json'[d].dst = json[d].dst BY <3>2 DEF InputRenamed
      <4>2. <<d, n, c, old>> \notin Beside BY <1>2, <1>5, <2>2, <2>4, <3>2
      <4>3. <<d, n, c, new>> \notin Beside BY <2>2, <2>4
      <4> QED BY <1>2, <1>3, <2>2, <2>3, <4>1, <4>2, <4>3
    <3> QED BY <3>1, <3>2
  <2>7. L(n, x, f) \in json'[d].forwardTo <=> <<d, n, x, f>> \in D
    <3>1. CASE d = c
      <4>1. json'[d].forwardTo = OwnRenamed(json[d].forwardTo, old, new) BY <3>1 DEF InputRenamed
      <4>2. json[d].forwardTo \in SUBSET Links BY FileTypes DEF Sound
      <4>3. L(n, x, f) \in json'[d].forwardTo <=>
              \/ n = new /\ L(old, x, f) \in json[d].forwardTo
              \/ n # old /\ L(n, x, f) \in json[d].forwardTo
        BY <1>2, <4>1, <4>2, OwnRenamedLinks
      <4>4. L(n, x, f) \in json'[d].forwardTo <=> L(n, x, f) \in json[d].forwardTo
        BY <1>4, <3>1, <4>3
      <4>5. <<c, n, c, f>> \notin Down /\ <<c, n, c, old>> \notin Down BY <1>2, <2>4
      <4> QED BY <1>2, <1>3, <2>2, <2>3, <3>1, <4>4, <4>5
    <3>2. CASE d # c /\ d \in sources
      <4>1. json'[d].forwardTo = OtherRenamed(json[d].forwardTo, c, old, new)
        BY <3>2 DEF InputRenamed
      <4>2. json[d].forwardTo \in SUBSET Links BY FileTypes DEF Sound
      <4>3. L(n, x, f) \in json'[d].forwardTo <=>
              \/ x = c /\ f = new /\ L(n, c, old) \in json[d].forwardTo
              \/ (x # c \/ f # old) /\ L(n, x, f) \in json[d].forwardTo
        BY <1>2, <4>1, <4>2, OtherRenamedLinks
      <4>4. <<d, n, c, new>> \notin Down BY <2>2, <2>4
      <4> QED BY <1>2, <1>3, <2>2, <2>3, <4>3, <4>4
    <3>3. CASE d # c /\ d \notin sources
      <4>1. json'[d].forwardTo = json[d].forwardTo BY <3>3 DEF InputRenamed
      <4>2. <<d, n, c, old>> \notin Down BY <1>2, <1>5, <2>2, <2>4, <3>3
      <4>3. <<d, n, c, new>> \notin Down BY <2>2, <2>4
      <4> QED BY <1>2, <1>3, <2>2, <2>3, <4>1, <4>2, <4>3
    <3> QED BY <3>1, <3>2, <3>3
  <2>8. L(n, x, f) \in json'[d].origin <=> <<x, f, d, n>> \in Up
    <3>1. json'[d].origin = json[d].origin BY DEF InputRenamed
    <3> QED BY <2>3, <3>1
  <2> QED BY <2>5, <2>6, <2>7, <2>8
<1>8. FitNext(B, D, Up)
  <2>1. SUFFICES ASSUME NEW s \in ID, NEW d \in ID, NEW o \in Names, NEW i \in Names
        PROVE
        /\ <<s, o, d, i>> \in B =>
             /\ {s, d} \subseteq DOMAIN json' \ {Root} /\ s # d /\ place'[s] = place'[d]
             /\ o \in json'[s].outputFiles /\ i \in json'[d].inputFiles
        /\ <<s, o, d, i>> \in D =>
             /\ {s, d} \subseteq DOMAIN json' /\ d # Root /\ s = place'[d]
             /\ o \in json'[s].inputFiles /\ i \in json'[d].inputFiles
        /\ <<s, o, d, i>> \in Up =>
             /\ {s, d} \subseteq DOMAIN json' /\ s # Root /\ d = place'[s]
             /\ o \in json'[s].outputFiles /\ i \in json'[d].outputFiles
    BY DEF FitNext
  <2>2. /\ place' = place /\ DOMAIN json' = Component
        /\ \A e \in Component :
             /\ json'[e].outputFiles = json[e].outputFiles
             /\ json'[e].inputFiles = IF e = c THEN (json[c].inputFiles \ {old}) \union {new}
                                      ELSE json[e].inputFiles
    BY DEF InputRenamed, Renamed
  <2>3. \A j \in Names :
         /\ <<s, o, d, j>> \in Beside =>
              /\ s # d /\ o \in json[s].outputFiles /\ j \in json[d].inputFiles
              /\ s \in Component \ {Root} /\ d \in Component \ {Root} /\ place[s] = place[d]
         /\ <<s, o, d, j>> \in Down =>
              /\ s = place[d] /\ o \in json[s].inputFiles /\ j \in json[d].inputFiles
              /\ s \in Component /\ d \in Component \ {Root}
              /\ (s = c => o # old)
         /\ <<s, o, d, j>> \in Up =>
              /\ d = place[s] /\ o \in json[s].outputFiles /\ j \in json[d].outputFiles
              /\ s \in Component \ {Root} /\ d \in Component
    BY <1>4, EdgeEnds
  <2>4. ASSUME <<s, o, d, i>> \in B
        PROVE  /\ {s, d} \subseteq DOMAIN json' \ {Root} /\ s # d /\ place'[s] = place'[d]
               /\ o \in json'[s].outputFiles /\ i \in json'[d].inputFiles
    BY <1>2, <1>3, <2>2, <2>3, <2>4
  <2>5. ASSUME <<s, o, d, i>> \in D
        PROVE  /\ {s, d} \subseteq DOMAIN json' /\ d # Root /\ s = place'[d]
               /\ o \in json'[s].inputFiles /\ i \in json'[d].inputFiles
    BY <1>2, <1>3, <2>2, <2>3, <2>5
  <2> QED BY <2>2, <2>3, <2>4, <2>5
<1> QED BY <1>1, <1>7, <1>8, FilesRedrawnSound DEF FilesRedrawn, InputRenamed

LEMMA RenameInputFileSound ==
  ASSUME Sound, edits' \in 0..MaxEdits, ~Careless, NEW c \in Component, NEW old, NEW new \in Name,
         renameInputFile(c, old, new)
  PROVE  Sound'
<1>1. /\ old \in json[c].inputFiles /\ new \notin json[c].inputFiles
      /\ {l \in json[c].forwardTo : l.name = old} = {}
  BY DEF renameInputFile
<1>2. old \in Names /\ new \in Names /\ old # new BY <1>1, FileTypes DEF Sound, Names
<1>3. PICK sources : sources = {l.node : l \in {m \in json[c].src : m.name = old}} OBVIOUS
<1>4. InputRenamed(c, old, new, sources) BY <1>2, <1>3, RenameInputFiles
<1> QED BY <1>1, <1>2, <1>3, <1>4, InputRenamedSound

\* The files after the outputFile old of c is called new.
OutputRenamed(c, old, new, targets) ==
  /\ place' = place /\ DOMAIN json' = Component
  /\ \A d \in Component :
       /\ KeepsLinks(d) /\ json'[d].parent = json[d].parent /\ json'[d] \in Json
       /\ json'[d].inputFiles = json[d].inputFiles
       /\ json'[d].outputFiles = IF d = c THEN Renamed(json[d].outputFiles, old, new)
                                 ELSE json[d].outputFiles
       /\ json'[d].dst = IF d = c THEN OwnRenamed(json[d].dst, old, new) ELSE json[d].dst
       /\ json'[d].src = IF d \in targets THEN OtherRenamed(json[d].src, c, old, new)
                         ELSE json[d].src
       /\ json'[d].origin = IF d = c THEN OwnRenamed(json[d].origin, old, new)
                            ELSE IF d \in targets
                                 THEN OtherRenamed(json[d].origin, c, old, new)
                                 ELSE json[d].origin
       /\ json'[d].forwardTo = json[d].forwardTo

LEMMA RenameOutputFiles ==
  ASSUME Sound, NEW c \in Component, NEW old \in Names, NEW new \in Names, old # new,
         renameOutputFile(c, old, new),
         NEW targets, targets = {l.node : l \in {m \in json[c].dst : m.name = old}}
  PROVE  OutputRenamed(c, old, new, targets)
<1>1. /\ targets \subseteq Component /\ place' = place /\ c \notin targets
  <2>1. \A l \in json[c].dst : l.node \in Component /\ l.node # c BY SourceEnds
  <2>2. place' = place BY DEF renameOutputFile
  <2> QED BY <2>1, <2>2
<1>2. json' = [d \in Component |->
         IF d = c
         THEN [json[c] EXCEPT !.outputFiles = Renamed(@, old, new), !.dst = OwnRenamed(@, old, new),
                              !.origin = OwnRenamed(@, old, new)]
         ELSE IF d \in targets
         THEN [json[d] EXCEPT !.src = OtherRenamed(@, c, old, new),
                              !.origin = OtherRenamed(@, c, old, new)]
         ELSE json[d]]
  BY DEF renameOutputFile
<1>3. ASSUME NEW d \in Component
      PROVE  /\ KeepsLinks(d) /\ json'[d].parent = json[d].parent /\ json'[d] \in Json
             /\ json'[d].inputFiles = json[d].inputFiles
             /\ json'[d].outputFiles = IF d = c THEN Renamed(json[d].outputFiles, old, new)
                                       ELSE json[d].outputFiles
             /\ json'[d].dst = IF d = c THEN OwnRenamed(json[d].dst, old, new) ELSE json[d].dst
             /\ json'[d].src = IF d \in targets THEN OtherRenamed(json[d].src, c, old, new)
                               ELSE json[d].src
             /\ json'[d].origin = IF d = c THEN OwnRenamed(json[d].origin, old, new)
                                  ELSE IF d \in targets
                                       THEN OtherRenamed(json[d].origin, c, old, new)
                                       ELSE json[d].origin
             /\ json'[d].forwardTo = json[d].forwardTo
  <2>1. /\ json[d] \in Json /\ c \in ID /\ json[d].src \in SUBSET Links /\ json[d].dst \in SUBSET Links
        /\ json[d].origin \in SUBSET Links
        /\ json[d].outputFiles \in SUBSET Names
    BY FileTypes DEF Sound, Names
  <2>2. CASE d = c
    <3> DEFINE outputs == Renamed(json[c].outputFiles, old, new)
               dsts == OwnRenamed(json[c].dst, old, new)
               origins == OwnRenamed(json[c].origin, old, new)
    <3>1. outputs \in SUBSET Names BY <2>1, <2>2 DEF Renamed
    <3>2. dsts \in SUBSET Links /\ origins \in SUBSET Links BY <2>1, <2>2, OwnRenamedLinks
    <3>3. json'[c] = [json[c] EXCEPT !.outputFiles = outputs, !.dst = dsts, !.origin = origins]
      BY <1>2
    <3> HIDE DEF outputs, dsts, origins
    <3>4. /\ json'[c] \in Json /\ json'[c].parent = json[c].parent
          /\ json'[c].next = json[c].next /\ json'[c].else = json[c].else
          /\ json'[c].previous = json[c].previous
          /\ json'[c].inputFiles = json[c].inputFiles /\ json'[c].outputFiles = outputs
          /\ json'[c].dst = dsts /\ json'[c].src = json[c].src
          /\ json'[c].origin = origins /\ json'[c].forwardTo = json[c].forwardTo
      BY <2>1, <2>2, <3>1, <3>2, <3>3 DEF Json, Names
    <3> QED BY <1>1, <2>2, <3>4 DEF KeepsLinks, outputs, dsts, origins
  <2>3. CASE d # c /\ d \in targets
    <3> DEFINE srcs == OtherRenamed(json[d].src, c, old, new)
               origins == OtherRenamed(json[d].origin, c, old, new)
    <3>1. srcs \in SUBSET Links /\ origins \in SUBSET Links BY <2>1, OtherRenamedLinks
    <3>2. json'[d] = [json[d] EXCEPT !.src = srcs, !.origin = origins] BY <1>2, <2>3
    <3> HIDE DEF srcs, origins
    <3>3. /\ json'[d] \in Json /\ json'[d].parent = json[d].parent
          /\ json'[d].next = json[d].next /\ json'[d].else = json[d].else
          /\ json'[d].previous = json[d].previous
          /\ json'[d].outputFiles = json[d].outputFiles /\ json'[d].inputFiles = json[d].inputFiles
          /\ json'[d].dst = json[d].dst /\ json'[d].src = srcs
          /\ json'[d].origin = origins /\ json'[d].forwardTo = json[d].forwardTo
      BY <2>1, <3>1, <3>2 DEF Json
    <3> QED BY <2>3, <3>3 DEF KeepsLinks, srcs, origins
  <2>4. CASE d # c /\ d \notin targets
    <3>1. json'[d] = json[d] BY <1>2, <2>4
    <3> QED BY <2>1, <2>4, <3>1 DEF KeepsLinks
  <2> QED BY <2>2, <2>3, <2>4
<1> QED BY <1>1, <1>2, <1>3 DEF OutputRenamed

LEMMA OutputRenamedSound ==
  ASSUME Sound, edits' \in 0..MaxEdits, NEW c \in Component, NEW old \in json[c].outputFiles,
         NEW new \in Names, new \notin json[c].outputFiles,
         {l \in json[c].origin : l.name = old} = {},
         NEW targets, targets = {l.node : l \in {m \in json[c].dst : m.name = old}},
         OutputRenamed(c, old, new, targets)
  PROVE  Sound'
<1> DEFINE B == FromRenamed(Beside, c, old, new)
           U == FromRenamed(Up, c, old, new)
<1>1. Rewrite BY RewriteOf DEF OutputRenamed
<1>2. old \in Names /\ old # new /\ c \in ID BY FileTypes DEF Sound, Names
<1>3. \A s, d \in ID, o, i \in Names :
        /\ <<s, o, d, i>> \in B <=> IF s = c /\ o = new THEN <<c, old, d, i>> \in Beside
                                    ELSE <<s, o, d, i>> \in Beside /\ ~(s = c /\ o = old)
        /\ <<s, o, d, i>> \in U <=> IF s = c /\ o = new THEN <<c, old, d, i>> \in Up
                                    ELSE <<s, o, d, i>> \in Up /\ ~(s = c /\ o = old)
  <2> TAKE s, d \in ID, o, i \in Names
  <2>1. <<s, o, d, i>> \in Edge BY EdgeForms
  <2> QED BY <2>1 DEF FromRenamed
<1> HIDE DEF B, U
<1>4. \A f \in Names, x \in ID : L(old, x, f) \notin json[c].origin
  BY LinkParts
<1>5. \A x \in ID, f \in Names : L(old, x, f) \in json[c].dst => x \in targets
  BY LinkParts
<1>6. ASSUME NEW x \in targets
      PROVE  x # c /\ x # Root => place[x] # c
  <2>1. PICK l \in json[c].dst : x = l.node OBVIOUS
  <2> QED BY <2>1, SourceEnds
<1>7. RecordNext(B, Down, U)
  <2>1. SUFFICES ASSUME NEW d \in Component, NEW n \in Names, NEW f \in Names, NEW x \in ID
        PROVE  /\ L(n, x, f) \in json'[d].src <=> <<x, f, d, n>> \in B \union Down
               /\ L(n, x, f) \in json'[d].dst <=> <<d, n, x, f>> \in B \union U
               /\ L(n, x, f) \in json'[d].forwardTo <=> <<d, n, x, f>> \in Down
               /\ L(n, x, f) \in json'[d].origin <=> <<x, f, d, n>> \in U
    BY DEF RecordNext, OutputRenamed
  <2>2. d \in ID BY FileTypes DEF Sound
  <2>3. \A m, g \in Names, y \in ID :
        /\ L(m, y, g) \in json[d].src <=> <<y, g, d, m>> \in Beside \union Down
        /\ L(m, y, g) \in json[d].dst <=> <<d, m, y, g>> \in Beside \union Up
        /\ L(m, y, g) \in json[d].forwardTo <=> <<d, m, y, g>> \in Down
        /\ L(m, y, g) \in json[d].origin <=> <<y, g, d, m>> \in Up
    BY EdgesRecorded DEF Record
  <2>4. \A o, i \in Names, s \in ID :
        /\ <<c, o, s, i>> \in Beside \union Up => o \in json[c].outputFiles /\ s # c
        /\ <<c, o, d, i>> \in Down => d # Root /\ d # c /\ place[d] = c
        /\ <<c, o, d, i>> \in Beside => L(o, d, i) \in json[c].dst /\ (d = Root \/ place[d] # c)
        /\ <<c, o, d, i>> \in Up => L(o, d, i) \in json[c].dst /\ (d = Root \/ place[d] # c)
    BY <1>2, <2>2, EdgeEnds
  <2>5. L(n, x, f) \in json'[d].dst <=> <<d, n, x, f>> \in B \union U
    <3>1. CASE d = c
      <4>1. json'[d].dst = OwnRenamed(json[d].dst, old, new) BY <3>1 DEF OutputRenamed
      <4>2. json[d].dst \in SUBSET Links BY FileTypes DEF Sound
      <4>3. L(n, x, f) \in json'[d].dst <=> \/ n = new /\ L(old, x, f) \in json[d].dst
                                            \/ n # old /\ L(n, x, f) \in json[d].dst
        BY <1>2, <4>1, <4>2, OwnRenamedLinks
      <4>4. L(new, x, f) \notin json[c].dst BY <2>3, <2>4, <3>1
      <4> QED BY <1>2, <1>3, <2>2, <2>3, <3>1, <4>3, <4>4
    <3>2. CASE d # c
      <4>1. json'[d].dst = json[d].dst BY <3>2 DEF OutputRenamed
      <4> QED BY <1>3, <2>2, <2>3, <3>2, <4>1
    <3> QED BY <3>1, <3>2
  <2>6. L(n, x, f) \in json'[d].src <=> <<x, f, d, n>> \in B \union Down
    <3>1. CASE d \in targets
      <4>1. json'[d].src = OtherRenamed(json[d].src, c, old, new) BY <3>1 DEF OutputRenamed
      <4>2. json[d].src \in SUBSET Links BY FileTypes DEF Sound
      <4>3. L(n, x, f) \in json'[d].src <=> \/ x = c /\ f = new /\ L(n, c, old) \in json[d].src
                                            \/ (x # c \/ f # old) /\ L(n, x, f) \in json[d].src
        BY <1>2, <4>1, <4>2, OtherRenamedLinks
      <4>4. <<c, old, d, n>> \notin Down /\ <<c, new, d, n>> \notin Down
        BY <1>2, <1>6, <2>4, <3>1
      <4>5. <<c, new, d, n>> \notin Beside BY <2>2, <2>4
      <4> QED BY <1>2, <1>3, <2>2, <2>3, <4>3, <4>4, <4>5
    <3>2. CASE d \notin targets
      <4>1. json'[d].src = json[d].src BY <3>2 DEF OutputRenamed
      <4>2. <<c, old, d, n>> \notin Beside BY <1>2, <1>5, <2>2, <2>4, <3>2
      <4>3. <<c, new, d, n>> \notin Beside BY <2>2, <2>4
      <4> QED BY <1>2, <1>3, <2>2, <2>3, <4>1, <4>2, <4>3
    <3> QED BY <3>1, <3>2
  <2>7. L(n, x, f) \in json'[d].origin <=> <<x, f, d, n>> \in U
    <3>1. CASE d = c
      <4>1. json'[d].origin = OwnRenamed(json[d].origin, old, new) BY <3>1 DEF OutputRenamed
      <4>2. json[d].origin \in SUBSET Links BY FileTypes DEF Sound
      <4>3. L(n, x, f) \in json'[d].origin <=>
              \/ n = new /\ L(old, x, f) \in json[d].origin
              \/ n # old /\ L(n, x, f) \in json[d].origin
        BY <1>2, <4>1, <4>2, OwnRenamedLinks
      <4>4. L(n, x, f) \in json'[d].origin <=> L(n, x, f) \in json[d].origin
        BY <1>4, <3>1, <4>3
      <4>5. <<c, f, c, n>> \notin Up /\ <<c, old, c, n>> \notin Up BY <1>2, <2>4
      <4> QED BY <1>2, <1>3, <2>2, <2>3, <3>1, <4>4, <4>5
    <3>2. CASE d # c /\ d \in targets
      <4>1. json'[d].origin = OtherRenamed(json[d].origin, c, old, new)
        BY <3>2 DEF OutputRenamed
      <4>2. json[d].origin \in SUBSET Links BY FileTypes DEF Sound
      <4>3. L(n, x, f) \in json'[d].origin <=>
              \/ x = c /\ f = new /\ L(n, c, old) \in json[d].origin
              \/ (x # c \/ f # old) /\ L(n, x, f) \in json[d].origin
        BY <1>2, <4>1, <4>2, OtherRenamedLinks
      <4>4. <<c, new, d, n>> \notin Up BY <2>2, <2>4
      <4> QED BY <1>2, <1>3, <2>2, <2>3, <4>3, <4>4
    <3>3. CASE d # c /\ d \notin targets
      <4>1. json'[d].origin = json[d].origin BY <3>3 DEF OutputRenamed
      <4>2. <<c, old, d, n>> \notin Up BY <1>2, <1>5, <2>2, <2>4, <3>3
      <4>3. <<c, new, d, n>> \notin Up BY <2>2, <2>4
      <4> QED BY <1>2, <1>3, <2>2, <2>3, <4>1, <4>2, <4>3
    <3> QED BY <3>1, <3>2, <3>3
  <2>8. L(n, x, f) \in json'[d].forwardTo <=> <<d, n, x, f>> \in Down
    <3>1. json'[d].forwardTo = json[d].forwardTo BY DEF OutputRenamed
    <3> QED BY <2>3, <3>1
  <2> QED BY <2>5, <2>6, <2>7, <2>8
<1>8. FitNext(B, Down, U)
  <2>1. SUFFICES ASSUME NEW s \in ID, NEW d \in ID, NEW o \in Names, NEW i \in Names
        PROVE
        /\ <<s, o, d, i>> \in B =>
             /\ {s, d} \subseteq DOMAIN json' \ {Root} /\ s # d /\ place'[s] = place'[d]
             /\ o \in json'[s].outputFiles /\ i \in json'[d].inputFiles
        /\ <<s, o, d, i>> \in Down =>
             /\ {s, d} \subseteq DOMAIN json' /\ d # Root /\ s = place'[d]
             /\ o \in json'[s].inputFiles /\ i \in json'[d].inputFiles
        /\ <<s, o, d, i>> \in U =>
             /\ {s, d} \subseteq DOMAIN json' /\ s # Root /\ d = place'[s]
             /\ o \in json'[s].outputFiles /\ i \in json'[d].outputFiles
    BY DEF FitNext
  <2>2. /\ place' = place /\ DOMAIN json' = Component
        /\ \A e \in Component :
             /\ json'[e].inputFiles = json[e].inputFiles
             /\ json'[e].outputFiles = IF e = c THEN (json[c].outputFiles \ {old}) \union {new}
                                       ELSE json[e].outputFiles
    BY DEF OutputRenamed, Renamed
  <2>3. \A p \in Names :
         /\ <<s, p, d, i>> \in Beside =>
              /\ s # d /\ p \in json[s].outputFiles /\ i \in json[d].inputFiles
              /\ s \in Component \ {Root} /\ d \in Component \ {Root} /\ place[s] = place[d]
         /\ <<s, p, d, i>> \in Down =>
              /\ s = place[d] /\ p \in json[s].inputFiles /\ i \in json[d].inputFiles
              /\ s \in Component /\ d \in Component \ {Root}
         /\ <<s, p, d, i>> \in Up =>
              /\ d = place[s] /\ p \in json[s].outputFiles /\ i \in json[d].outputFiles
              /\ s \in Component \ {Root} /\ d \in Component
              /\ (d = c => i # old)
    BY <1>4, EdgeEnds
  <2>4. ASSUME <<s, o, d, i>> \in B
        PROVE  /\ {s, d} \subseteq DOMAIN json' \ {Root} /\ s # d /\ place'[s] = place'[d]
               /\ o \in json'[s].outputFiles /\ i \in json'[d].inputFiles
    BY <1>2, <1>3, <2>2, <2>3, <2>4
  <2>5. ASSUME <<s, o, d, i>> \in U
        PROVE  /\ {s, d} \subseteq DOMAIN json' /\ s # Root /\ d = place'[s]
               /\ o \in json'[s].outputFiles /\ i \in json'[d].outputFiles
    BY <1>2, <1>3, <2>2, <2>3, <2>5
  <2> QED BY <2>2, <2>3, <2>4, <2>5
<1> QED BY <1>1, <1>7, <1>8, FilesRedrawnSound DEF FilesRedrawn, OutputRenamed

LEMMA RenameOutputFileSound ==
  ASSUME Sound, edits' \in 0..MaxEdits, ~Careless, NEW c \in Component, NEW old, NEW new \in Names,
         renameOutputFile(c, old, new)
  PROVE  Sound'
<1>1. /\ old \in json[c].outputFiles /\ new \notin json[c].outputFiles
      /\ {l \in json[c].origin : l.name = old} = {}
  BY DEF renameOutputFile
<1>2. old \in Names /\ old # new BY <1>1, FileTypes DEF Sound, Names
<1>3. PICK targets : targets = {l.node : l \in {m \in json[c].dst : m.name = old}} OBVIOUS
<1>4. OutputRenamed(c, old, new, targets) BY <1>2, <1>3, RenameOutputFiles
<1> QED BY <1>1, <1>2, <1>3, <1>4, OutputRenamedSound

-----------------------------------------------------------------------------
(* Components that come, go and move.                                      *)

\* Links join siblings in the next state.
LinksNear ==
  \A c \in DOMAIN json' : \A d \in (json'[c].next \union json'[c].else) \union json'[c].previous :
    c # Root /\ d \in DOMAIN json' \ {Root} /\ d # c /\ place'[d] = place'[c]

LEMMA NextSound ==
  ASSUME Placed, NEW B, NEW D, NEW U, RecordNext(B, D, U), FitNext(B, D, U),
         LinksAgree', OneLink', LinksNear
  PROVE  Sound'
<1>1. Files' /\ Children' BY FilesNext
<1>2. ASSUME NEW c \in DOMAIN json', NEW d \in Counterparts(c)'
      PROVE  /\ c # Root
             /\ d # place'[c] => d \in DOMAIN json' \ {Root} /\ d # c /\ place'[d] = place'[c]
  <2>1. CASE d \in (json'[c].next \union json'[c].else) \union json'[c].previous
    BY <2>1 DEF LinksNear
  <2>2. CASE \E l \in json'[c].src : d = l.node
    <3>1. PICK l \in json'[c].src : d = l.node BY <2>2
    <3> QED BY <3>1, SourceNext, FileNext
  <2>3. CASE \E l \in json'[c].dst : d = l.node
    <3>1. PICK l \in json'[c].dst : d = l.node BY <2>3
    <3> QED BY <3>1, TargetNext, FileNext
  <2>4. \/ d \in (json'[c].next \union json'[c].else) \union json'[c].previous
        \/ \E l \in json'[c].src : d = l.node
        \/ \E l \in json'[c].dst : d = l.node
    BY <1>2 DEF Counterparts
  <2> QED BY <2>1, <2>2, <2>3, <2>4
<1>3. RootAlone' BY <1>2 DEF RootAlone, Placed, Component
<1>4. Near' BY <1>2 DEF Near, Component
<1> QED BY <1>1, <1>3, <1>4 DEF Sound, Homes, Placed

\* What is in a directory.
LEMMA Descendants ==
  ASSUME NEW c \in Component
  PROVE  /\ getDescendantsIDs(c) \subseteq Component /\ c \in getDescendantsIDs(c)
         /\ \A e \in Component \ {Root} : place[e] \in getDescendantsIDs(c)
                                           => e \in getDescendantsIDs(c)
         /\ \A e \in getDescendantsIDs(c) \ {c} : e # Root /\ place[e] \in getDescendantsIDs(c)
<1> DEFINE D == getDescendantsIDs(c)
           Closed(S) == c \in S /\ {e \in Component \ {Root} : place[e] \in S} \subseteq S
<1>1. D = {d \in Component : \A S \in SUBSET Component : Closed(S) => d \in S}
  BY DEF getDescendantsIDs
<1>2. D \subseteq Component /\ c \in D BY <1>1
<1>3. \A e \in Component \ {Root} : place[e] \in D => e \in D
  <2>1. SUFFICES ASSUME NEW e \in Component \ {Root}, place[e] \in D,
                        NEW S \in SUBSET Component, Closed(S)
        PROVE  e \in S
    BY <1>1
  <2>2. place[e] \in S BY <1>1, <2>1
  <2> QED BY <2>1, <2>2
<1>4. \A e \in D \ {c} : e # Root /\ place[e] \in D
  <2> DEFINE S == {e \in D : e = c \/ (e # Root /\ place[e] \in D)}
  <2>1. S \in SUBSET Component BY <1>2
  <2>2. c \in S BY <1>2
  <2>3. \A e \in Component \ {Root} : place[e] \in S => e \in S BY <1>3
  <2>4. \A e \in D : e \in S
    <3>1. Closed(S) BY <2>2, <2>3
    <3> QED BY <1>1, <2>1, <3>1
  <2> QED BY <2>4
<1> QED BY <1>2, <1>3, <1>4

LEMMA CreateSound ==
  ASSUME Sound, edits' \in 0..MaxEdits, NEW p \in Component, NEW t \in Creatable, NEW c \in ID \ Component,
         createNewComponent(p, t, c)
  PROVE  Sound'
<1>1. /\ DOMAIN json' = Component \union {c} /\ DOMAIN place' = Component \union {c}
      /\ \A d \in Component : json'[d] = json[d] /\ place'[d] = place[d] /\ d # c
      /\ json'[c] = New(t, p) /\ place'[c] = p
  BY DEF createNewComponent
<1>2. t \in Types /\ p \in ID BY TypeAssumption, FileTypes DEF Sound
<1>3. /\ New(t, p) \in Json /\ New(t, p).parent = p
      /\ New(t, p).next = {} /\ New(t, p).else = {} /\ New(t, p).previous = {}
      /\ New(t, p).src = {} /\ New(t, p).dst = {} /\ New(t, p).forwardTo = {}
      /\ New(t, p).origin = {}
  BY <1>2 DEF New, Json
<1>4. Root \in Component /\ json[Root].parent \notin ID BY DEF Sound, Homes, RootAlone
<1>5. \A d \in Component \ {Root} : place[d] \in Component BY DEF Sound, TypeOK, Component
<1>6. \A d \in Component : json[d] \in Json BY FileTypes DEF Sound
<1>7. Placed
  <2>1. TypeOK'
    <3>1. DOMAIN json' \subseteq ID /\ DOMAIN place' = DOMAIN json'
      BY <1>1 DEF Sound, TypeOK, Component
    <3>2. \A d \in DOMAIN json' : json'[d] \in Json BY <1>1, <1>3, <1>6
    <3>3. \A d \in DOMAIN json' \ {Root} : place'[d] \in DOMAIN json' BY <1>1, <1>4, <1>5
    <3> QED BY <3>1, <3>2, <3>3 DEF Sound, TypeOK
  <2>2. Nested'
    <3>1. \A d \in Component \ {Root} : place[d] # d /\ (place[d] # Root => place[place[d]] # d)
      BY DEF Sound, Homes, Nested
    <3> QED BY <1>1, <1>4, <1>5, <3>1 DEF Nested, Component
  <2>3. AtHome'
    <3>1. \A d \in Component \ {Root} : json[d].parent = place[d] BY DEF Sound, Homes, AtHome
    <3> QED BY <1>1, <1>3, <1>4, <3>1 DEF AtHome, Component
  <2> QED BY <1>1, <1>4, <2>1, <2>2, <2>3 DEF Placed
<1>8. RecordNext(Beside, Down, Up)
  <2>1. SUFFICES ASSUME NEW d \in Component \union {c}, NEW n \in Names, NEW f \in Names, NEW x \in ID
        PROVE  /\ L(n, x, f) \in json'[d].src <=> <<x, f, d, n>> \in Beside \union Down
               /\ L(n, x, f) \in json'[d].dst <=> <<d, n, x, f>> \in Beside \union Up
               /\ L(n, x, f) \in json'[d].forwardTo <=> <<d, n, x, f>> \in Down
               /\ L(n, x, f) \in json'[d].origin <=> <<x, f, d, n>> \in Up
    BY <1>1 DEF RecordNext
  <2>2. CASE d \in Component BY <1>1, <2>2, EdgesRecorded DEF Record
  <2>3. CASE d = c
    <3>1. c \in ID /\ c \notin Component OBVIOUS
    <3>2. /\ <<x, f, c, n>> \notin Beside /\ <<x, f, c, n>> \notin Down /\ <<x, f, c, n>> \notin Up
          /\ <<c, n, x, f>> \notin Beside /\ <<c, n, x, f>> \notin Down /\ <<c, n, x, f>> \notin Up
      BY <3>1, EdgeEnds
    <3> QED BY <1>1, <1>3, <2>3, <3>2
  <2> QED BY <2>2, <2>3
<1>9. FitNext(Beside, Down, Up)
  <2>1. SUFFICES ASSUME NEW s \in ID, NEW d \in ID, NEW o \in Names, NEW i \in Names
        PROVE
        /\ <<s, o, d, i>> \in Beside =>
             /\ {s, d} \subseteq DOMAIN json' \ {Root} /\ s # d /\ place'[s] = place'[d]
             /\ o \in json'[s].outputFiles /\ i \in json'[d].inputFiles
        /\ <<s, o, d, i>> \in Down =>
             /\ {s, d} \subseteq DOMAIN json' /\ d # Root /\ s = place'[d]
             /\ o \in json'[s].inputFiles /\ i \in json'[d].inputFiles
        /\ <<s, o, d, i>> \in Up =>
             /\ {s, d} \subseteq DOMAIN json' /\ s # Root /\ d = place'[s]
             /\ o \in json'[s].outputFiles /\ i \in json'[d].outputFiles
    BY DEF FitNext
  <2>2. /\ <<s, o, d, i>> \in Beside =>
             /\ {s, d} \subseteq Component \ {Root} /\ s # d /\ place[s] = place[d]
             /\ o \in json[s].outputFiles /\ i \in json[d].inputFiles
        /\ <<s, o, d, i>> \in Down =>
             /\ {s, d} \subseteq Component /\ d # Root /\ s = place[d]
             /\ o \in json[s].inputFiles /\ i \in json[d].inputFiles
        /\ <<s, o, d, i>> \in Up =>
             /\ {s, d} \subseteq Component /\ s # Root /\ d = place[s]
             /\ o \in json[s].outputFiles /\ i \in json[d].outputFiles
    BY EdgesFit DEF Fit
  <2> QED BY <1>1, <2>2
<1>10. \A d \in Component : json[d].next \subseteq Component /\ json[d].else \subseteq Component
                            /\ json[d].previous \subseteq Component
  BY DEF Sound, LinksAgree
<1>11. LinksAgree'
  <2>1. SUFFICES ASSUME NEW d \in Component \union {c}
        PROVE /\ (json'[d].next \union json'[d].else) \union json'[d].previous \subseteq Component
              /\ \A e \in json'[d].next \union json'[d].else : d \in json'[e].previous
              /\ \A e \in json'[d].previous : d \in json'[e].next \union json'[e].else
    BY <1>1 DEF LinksAgree, Component
  <2>2. CASE d \in Component BY <1>1, <1>10, <2>2 DEF Sound, LinksAgree
  <2>3. CASE d = c BY <1>1, <1>3, <2>3
  <2> QED BY <2>2, <2>3
<1>12. OneLink' BY <1>1, <1>3 DEF Sound, OneLink, Component
<1>13. LinksNear
  <2>1. \A d \in Component : \A e \in (json[d].next \union json[d].else) \union json[d].previous :
          d # Root /\ e \in Component \ {Root} /\ e # d /\ place[e] = place[d]
    BY LinkedSiblings
  <2> QED BY <1>1, <1>3, <2>1 DEF LinksNear
<1> QED BY <1>7, <1>8, <1>9, <1>11, <1>12, <1>13, NextSound

\* The files after the components of gone are removed: the others forget them.
Gone(gone) ==
  /\ gone \subseteq Component
  /\ DOMAIN json' = Component \ gone /\ DOMAIN place' = Component \ gone
  /\ \A d \in Component \ gone :
       /\ place'[d] = place[d] /\ json'[d] \in Json /\ json'[d].parent = json[d].parent
       /\ json'[d].next = json[d].next \ gone /\ json'[d].else = json[d].else \ gone
       /\ json'[d].previous = json[d].previous \ gone
       /\ json'[d].src = {l \in json[d].src : l.node \notin gone}
       /\ json'[d].dst = {l \in json[d].dst : l.node \notin gone}
       /\ json'[d].forwardTo = json[d].forwardTo /\ json'[d].origin = json[d].origin
       /\ json'[d].inputFiles = json[d].inputFiles /\ json'[d].outputFiles = json[d].outputFiles

\* Only c and its siblings have links that cross the border of what goes.
LEMMA RemoveFiles ==
  ASSUME Sound, ~Careless, NEW c, removeComponent(c)
  PROVE  c \in Component \ {Root} /\ ~LinkedToParent(c) /\ Gone(getDescendantsIDs(c))
<1> DEFINE gone == getDescendantsIDs(c)
           F == removeAllLinkFromComponent(gone)
<1>1. c \in Component \ {Root} /\ ~LinkedToParent(c) BY DEF removeComponent
<1>2. /\ gone \subseteq Component /\ c \in gone
      /\ \A e \in Component \ {Root} : place[e] \in gone => e \in gone
      /\ \A e \in gone \ {c} : e # Root /\ place[e] \in gone
  BY <1>1, Descendants
<1>3. \A d \in Component : Counterparts(d) \subseteq Component
  <2>1. SUFFICES ASSUME NEW d \in Component, NEW e \in Counterparts(d) PROVE e \in Component
    OBVIOUS
  <2>2. d # Root BY DEF Sound, Homes, RootAlone
  <2>3. place[d] \in Component BY <2>2 DEF Sound, TypeOK, Component
  <2> QED BY <2>2, <2>3 DEF Sound, Homes, Near
<1>4. json' = Restrict(F, Component \ gone) /\ place' = Restrict(place, Component \ gone)
  BY <1>2, <1>3 DEF removeComponent
<1>5. /\ DOMAIN json' = Component \ gone /\ DOMAIN place' = Component \ gone
      /\ \A d \in Component \ gone : json'[d] = F[d] /\ place'[d] = place[d]
  BY <1>4 DEF Restrict
<1>7. ASSUME NEW d \in Component \ gone
      PROVE  /\ json'[d] \in Json /\ json'[d].parent = json[d].parent
             /\ json'[d].next = json[d].next \ gone /\ json'[d].else = json[d].else \ gone
             /\ json'[d].previous = json[d].previous \ gone
             /\ json'[d].src = {l \in json[d].src : l.node \notin gone}
             /\ json'[d].dst = {l \in json[d].dst : l.node \notin gone}
             /\ json'[d].forwardTo = json[d].forwardTo /\ json'[d].origin = json[d].origin
             /\ json'[d].inputFiles = json[d].inputFiles /\ json'[d].outputFiles = json[d].outputFiles
  <2> DEFINE after == {x \in gone : d \in json[x].previous}
             before == {x \in gone : d \in json[x].next \union json[x].else}
             filesFrom == {x \in gone : d \in {l.node : l \in json[x].src}}
             filesTo == {x \in gone : d \in {l.node : l \in json[x].dst}}
  <2> DEFINE nexts == json[d].next \ after
             elses == json[d].else \ after
             previouses == json[d].previous \ before
             dsts == {l \in json[d].dst : l.node \notin filesFrom}
             srcs == {l \in json[d].src : l.node \notin filesTo}
  <2>1. json'[d] = [json[d] EXCEPT !.next = nexts, !.else = elses, !.previous = previouses,
                                   !.dst = dsts, !.src = srcs]
    BY <1>5 DEF removeAllLinkFromComponent
  <2>2. nexts = json[d].next \ gone /\ elses = json[d].else \ gone
    <3>1. \A x \in json[d].next \union json[d].else : d \in json[x].previous
      BY DEF Sound, LinksAgree
    <3>2. nexts = json[d].next \ gone BY <3>1
    <3>3. elses = json[d].else \ gone BY <3>1
    <3> QED BY <3>2, <3>3
  <2>3. previouses = json[d].previous \ gone
    <3>1. \A x \in json[d].previous : d \in json[x].next \union json[x].else
      BY DEF Sound, LinksAgree
    <3> QED BY <3>1
  <2>4. ASSUME NEW l \in json[d].src \union json[d].dst, l.node \in gone
        PROVE  /\ d # Root /\ l.node # json[d].parent
               /\ L(l.file, d, l.name) \in json[l.node].src => l.node \in filesFrom
               /\ L(l.file, d, l.name) \in json[l.node].dst => l.node \in filesTo
    <3>1. d # Root /\ json[d].parent = place[d] BY <2>4, SourceEnds
    <3>2. place[d] \notin gone BY <1>2, <3>1
    <3>3. L(l.file, d, l.name).node = d BY LinkParts
    <3> QED BY <2>4, <3>1, <3>2, <3>3
  <2>5. srcs = {l \in json[d].src : l.node \notin gone}
    <3>1. \A l \in json[d].src : l.node \in gone => l.node \in filesTo
      BY <2>4 DEF Sound, Files, SourcesAgree
    <3> QED BY <3>1
  <2>6. dsts = {l \in json[d].dst : l.node \notin gone}
    <3>1. \A l \in json[d].dst : l.node \in gone => l.node \in filesFrom
      BY <2>4 DEF Sound, Files, TargetsAgree
    <3> QED BY <3>1
  <2>7. /\ json[d] \in Json /\ nexts \in SUBSET ID /\ elses \in SUBSET ID /\ previouses \in SUBSET ID
        /\ srcs \in SUBSET Links /\ dsts \in SUBSET Links
    BY FileTypes DEF Sound
  <2> HIDE DEF nexts, elses, previouses, srcs, dsts
  <2>8. /\ json'[d] \in Json /\ json'[d].parent = json[d].parent
        /\ json'[d].next = nexts /\ json'[d].else = elses /\ json'[d].previous = previouses
        /\ json'[d].src = srcs /\ json'[d].dst = dsts
        /\ json'[d].forwardTo = json[d].forwardTo /\ json'[d].origin = json[d].origin
        /\ json'[d].inputFiles = json[d].inputFiles /\ json'[d].outputFiles = json[d].outputFiles
    BY <2>1, <2>7 DEF Json
  <2> QED BY <2>2, <2>3, <2>5, <2>6, <2>8
<1> QED BY <1>1, <1>2, <1>5, <1>7 DEF Gone

\* No one around c is left with an entry of what goes with c.
LEMMA RemoveSound ==
  ASSUME Sound, edits' \in 0..MaxEdits, ~Careless, NEW c, removeComponent(c)
  PROVE  Sound'
<1> DEFINE gone == getDescendantsIDs(c)
           B == {e \in Beside : e[1] \notin gone /\ e[3] \notin gone}
           D == {e \in Down : e[1] \notin gone /\ e[3] \notin gone}
           U == {e \in Up : e[1] \notin gone /\ e[3] \notin gone}
<1>1. c \in Component \ {Root} /\ ~LinkedToParent(c) /\ Gone(gone) BY RemoveFiles
<1>2. /\ gone \subseteq Component /\ c \in gone
      /\ \A e \in Component \ {Root} : place[e] \in gone => e \in gone
      /\ \A e \in gone \ {c} : e # Root /\ place[e] \in gone
  BY <1>1, Descendants
<1>5. /\ DOMAIN json' = Component \ gone /\ DOMAIN place' = Component \ gone
      /\ \A d \in Component \ gone : place'[d] = place[d]
  BY <1>1 DEF Gone
<1>6. \A n, f \in Names, s, d \in ID :
        /\ <<s, n, d, f>> \in B <=> <<s, n, d, f>> \in Beside /\ s \notin gone /\ d \notin gone
        /\ <<s, n, d, f>> \in D <=> <<s, n, d, f>> \in Down /\ s \notin gone /\ d \notin gone
        /\ <<s, n, d, f>> \in U <=> <<s, n, d, f>> \in Up /\ s \notin gone /\ d \notin gone
  OBVIOUS
<1> HIDE DEF B, D, U
<1>7. \A d \in Component \ gone :
        /\ json'[d] \in Json /\ json'[d].parent = json[d].parent
        /\ json'[d].next = json[d].next \ gone /\ json'[d].else = json[d].else \ gone
        /\ json'[d].previous = json[d].previous \ gone
        /\ json'[d].src = {l \in json[d].src : l.node \notin gone}
        /\ json'[d].dst = {l \in json[d].dst : l.node \notin gone}
        /\ json'[d].forwardTo = json[d].forwardTo /\ json'[d].origin = json[d].origin
        /\ json'[d].inputFiles = json[d].inputFiles /\ json'[d].outputFiles = json[d].outputFiles
  BY <1>1 DEF Gone
<1>8. Root \in Component /\ json[Root].parent \notin ID /\ Root \notin gone
  BY <1>1, <1>2 DEF Sound, Homes, RootAlone
<1>9. \A d \in Component \ {Root} : place[d] \in Component BY DEF Sound, TypeOK, Component
<1> HIDE DEF gone
<1>10. Placed
  <2>1. TypeOK'
    <3>1. DOMAIN json' \subseteq ID /\ DOMAIN place' = DOMAIN json'
      BY <1>2, <1>5 DEF Sound, TypeOK, Component
    <3>2. \A d \in DOMAIN json' \ {Root} : place'[d] \in DOMAIN json' BY <1>2, <1>5, <1>9
    <3> QED BY <1>5, <1>7, <3>1, <3>2 DEF Sound, TypeOK
  <2>2. Nested'
    <3>1. \A d \in Component \ {Root} : place[d] # d /\ (place[d] # Root => place[place[d]] # d)
      BY DEF Sound, Homes, Nested
    <3> QED BY <1>2, <1>5, <1>9, <3>1 DEF Nested, Component
  <2>3. AtHome'
    <3>1. \A d \in Component \ {Root} : json[d].parent = place[d] BY DEF Sound, Homes, AtHome
    <3> QED BY <1>5, <1>7, <3>1 DEF AtHome, Component
  <2> QED BY <1>5, <1>7, <1>8, <2>1, <2>2, <2>3 DEF Placed
<1>11. \A d \in Component \ gone : \A n, f \in Names, x \in ID :
         /\ <<d, n, x, f>> \in Down => x \notin gone
         /\ <<x, f, d, n>> \in Up => x \notin gone
  <2>1. SUFFICES ASSUME NEW d \in Component \ gone, NEW n \in Names, NEW f \in Names,
                        NEW x \in gone,
                        <<d, n, x, f>> \in Down \/ <<x, f, d, n>> \in Up
        PROVE  FALSE
    OBVIOUS
  <2>2. x \in ID /\ d \in ID /\ x \in Component BY <1>2, FileTypes DEF Sound
  <2>3. d = place[x] /\ (L(f, d, n) \in json[x].src \/ L(f, d, n) \in json[x].dst)
    BY <2>1, <2>2, EdgeEnds
  <2>4. x = c BY <1>2, <2>3
  <2>5. L(f, d, n).node = d BY LinkParts
  <2>6. d \in Counterparts(c) BY <2>3, <2>4, <2>5 DEF Counterparts
  <2>7. json[c].parent = d BY <1>1, <2>3, <2>4 DEF Sound, Homes, AtHome
  <2> QED BY <1>1, <2>6, <2>7 DEF LinkedToParent
<1>12. RecordNext(B, D, U)
  <2>1. SUFFICES ASSUME NEW d \in Component \ gone, NEW n \in Names, NEW f \in Names, NEW x \in ID
        PROVE  /\ L(n, x, f) \in json'[d].src <=> <<x, f, d, n>> \in B \union D
               /\ L(n, x, f) \in json'[d].dst <=> <<d, n, x, f>> \in B \union U
               /\ L(n, x, f) \in json'[d].forwardTo <=> <<d, n, x, f>> \in D
               /\ L(n, x, f) \in json'[d].origin <=> <<x, f, d, n>> \in U
    BY <1>5 DEF RecordNext
  <2>2. d \in ID /\ d \in Component BY FileTypes DEF Sound
  <2>3. /\ L(n, x, f) \in json[d].src <=> <<x, f, d, n>> \in Beside \union Down
        /\ L(n, x, f) \in json[d].dst <=> <<d, n, x, f>> \in Beside \union Up
        /\ L(n, x, f) \in json[d].forwardTo <=> <<d, n, x, f>> \in Down
        /\ L(n, x, f) \in json[d].origin <=> <<x, f, d, n>> \in Up
    BY EdgesRecorded DEF Record
  <2>4. L(n, x, f).node = x BY LinkParts
  <2>5. /\ json'[d].src = {l \in json[d].src : l.node \notin gone}
        /\ json'[d].dst = {l \in json[d].dst : l.node \notin gone}
        /\ json'[d].forwardTo = json[d].forwardTo /\ json'[d].origin = json[d].origin
    BY <1>7
  <2>6. /\ <<d, n, x, f>> \in Down => x \notin gone
        /\ <<x, f, d, n>> \in Up => x \notin gone
    BY <1>11
  <2> QED BY <1>6, <2>2, <2>3, <2>4, <2>5, <2>6
<1>13. FitNext(B, D, U)
  <2>1. SUFFICES ASSUME NEW s \in ID, NEW d \in ID, NEW o \in Names, NEW i \in Names
        PROVE
        /\ <<s, o, d, i>> \in B =>
             /\ {s, d} \subseteq DOMAIN json' \ {Root} /\ s # d /\ place'[s] = place'[d]
             /\ o \in json'[s].outputFiles /\ i \in json'[d].inputFiles
        /\ <<s, o, d, i>> \in D =>
             /\ {s, d} \subseteq DOMAIN json' /\ d # Root /\ s = place'[d]
             /\ o \in json'[s].inputFiles /\ i \in json'[d].inputFiles
        /\ <<s, o, d, i>> \in U =>
             /\ {s, d} \subseteq DOMAIN json' /\ s # Root /\ d = place'[s]
             /\ o \in json'[s].outputFiles /\ i \in json'[d].outputFiles
    BY DEF FitNext
  <2>2. /\ <<s, o, d, i>> \in Beside =>
             /\ {s, d} \subseteq Component \ {Root} /\ s # d /\ place[s] = place[d]
             /\ o \in json[s].outputFiles /\ i \in json[d].inputFiles
        /\ <<s, o, d, i>> \in Down =>
             /\ {s, d} \subseteq Component /\ d # Root /\ s = place[d]
             /\ o \in json[s].inputFiles /\ i \in json[d].inputFiles
        /\ <<s, o, d, i>> \in Up =>
             /\ {s, d} \subseteq Component /\ s # Root /\ d = place[s]
             /\ o \in json[s].outputFiles /\ i \in json[d].outputFiles
    BY EdgesFit DEF Fit
  <2> QED BY <1>5, <1>6, <1>7, <2>2
<1>14. LinksAgree'
  <2>1. SUFFICES ASSUME NEW d \in Component \ gone
        PROVE /\ (json'[d].next \union json'[d].else) \union json'[d].previous \subseteq Component \ gone
              /\ \A e \in json'[d].next \union json'[d].else : d \in json'[e].previous
              /\ \A e \in json'[d].previous : d \in json'[e].next \union json'[e].else
    BY <1>5 DEF LinksAgree, Component
  <2>2. /\ (json[d].next \union json[d].else) \union json[d].previous \subseteq Component
        /\ \A e \in json[d].next \union json[d].else : d \in json[e].previous
        /\ \A e \in json[d].previous : d \in json[e].next \union json[e].else
    BY DEF Sound, LinksAgree
  <2> QED BY <1>7, <2>2
<1>15. OneLink'
  <2>1. /\ \A d \in Component : json[d].next \intersect json[d].else = {}
        /\ \A d, e \in Component : e \in json[d].next \union json[d].else
                                     => d \notin json[e].next \union json[e].else
    BY DEF Sound, OneLink
  <2>2. \A d \in Component \ gone : json'[d].next \subseteq json[d].next
                                    /\ json'[d].else \subseteq json[d].else
    BY <1>7
  <2>3. \A d \in Component \ gone : json'[d].next \intersect json'[d].else = {} BY <2>1, <2>2
  <2>4. \A d, e \in Component \ gone : e \in json'[d].next \union json'[d].else
                                         => d \notin json'[e].next \union json'[e].else
    BY <2>1, <2>2
  <2> QED BY <1>5, <2>3, <2>4 DEF OneLink, Component
<1>16. LinksNear
  <2>1. \A d \in Component : \A e \in (json[d].next \union json[d].else) \union json[d].previous :
          d # Root /\ e \in Component \ {Root} /\ e # d /\ place[e] = place[d]
    BY LinkedSiblings
  <2> QED BY <1>5, <1>7, <2>1 DEF LinksNear
<1> QED BY <1>10, <1>12, <1>13, <1>14, <1>15, <1>16, NextSound

\* The files after c has moved to p: all as it was but for the place.
Moved(c, p) ==
  /\ c \in Component \ {Root} /\ p \in Component /\ p \notin getDescendantsIDs(c)
  /\ Counterparts(c) = {}
  /\ DOMAIN place' = Component /\ DOMAIN json' = Component
  /\ place'[c] = p /\ \A d \in Component \ {c} : place'[d] = place[d]
  /\ \A d \in Component :
       /\ json'[d] \in Json /\ json'[d].parent = IF d = c THEN p ELSE json[d].parent
       /\ json'[d].next = json[d].next /\ json'[d].else = json[d].else
       /\ json'[d].previous = json[d].previous
       /\ json'[d].src = json[d].src /\ json'[d].dst = json[d].dst
       /\ json'[d].forwardTo = json[d].forwardTo /\ json'[d].origin = json[d].origin
       /\ json'[d].inputFiles = json[d].inputFiles /\ json'[d].outputFiles = json[d].outputFiles

LEMMA PasteCutFiles ==
  ASSUME Sound, ~Careless, NEW c, NEW p, pasteCut(c, p)
  PROVE  Moved(c, p)
<1>1. /\ c \in Component \ {Root} /\ p \in Component /\ p \notin getDescendantsIDs(c)
      /\ Counterparts(c) = {}
  BY DEF pasteCut, MayHold
<1>2. /\ json[c].next = {} /\ json[c].else = {} /\ json[c].previous = {}
      /\ json[c].src = {} /\ json[c].dst = {}
  BY <1>1 DEF Counterparts
<1>3. /\ DOMAIN place' = Component
      /\ place'[c] = p /\ \A d \in Component \ {c} : place'[d] = place[d]
  BY <1>1 DEF pasteCut, Sound, TypeOK, Component
<1>5. json' = [removeAllLinkFromComponent({c}) EXCEPT ![c] = [json[c] EXCEPT !.parent = p]]
  BY <1>1 DEF pasteCut
<1>6. DOMAIN json' = Component /\ json'[c] = [json[c] EXCEPT !.parent = p]
  BY <1>1, <1>5 DEF removeAllLinkFromComponent
<1>7. p \in ID /\ c \in ID BY <1>1, FileTypes DEF Sound
<1>8. ASSUME NEW d \in Component
      PROVE  /\ json'[d] \in Json /\ json'[d].parent = IF d = c THEN p ELSE json[d].parent
             /\ json'[d].next = json[d].next /\ json'[d].else = json[d].else
             /\ json'[d].previous = json[d].previous
             /\ json'[d].src = json[d].src /\ json'[d].dst = json[d].dst
             /\ json'[d].forwardTo = json[d].forwardTo /\ json'[d].origin = json[d].origin
             /\ json'[d].inputFiles = json[d].inputFiles /\ json'[d].outputFiles = json[d].outputFiles
  <2>1. CASE d = c BY <1>6, <1>7, <2>1, FileTypes DEF Sound, Json
  <2>2. CASE d # c
    <3> DEFINE after == {x \in {c} : d \in json[x].previous}
               before == {x \in {c} : d \in json[x].next \union json[x].else}
               filesFrom == {x \in {c} : d \in {l.node : l \in json[x].src}}
               filesTo == {x \in {c} : d \in {l.node : l \in json[x].dst}}
    <3> DEFINE nexts == json[d].next \ after
               elses == json[d].else \ after
               previouses == json[d].previous \ before
               dsts == {l \in json[d].dst : l.node \notin filesFrom}
               srcs == {l \in json[d].src : l.node \notin filesTo}
    <3>1. json'[d] = [json[d] EXCEPT !.next = nexts, !.else = elses, !.previous = previouses,
                                     !.dst = dsts, !.src = srcs]
      BY <1>5, <2>2 DEF removeAllLinkFromComponent
    <3>2. after = {} /\ before = {} /\ filesFrom = {} /\ filesTo = {} BY <1>2
    <3>3. /\ nexts = json[d].next /\ elses = json[d].else /\ previouses = json[d].previous
          /\ srcs = json[d].src /\ dsts = json[d].dst
      BY <3>2
    <3>4. json[d] \in Json BY FileTypes DEF Sound
    <3> HIDE DEF nexts, elses, previouses, srcs, dsts
    <3> QED BY <2>2, <3>1, <3>3, <3>4 DEF Json
  <2> QED BY <2>1, <2>2
<1> QED BY <1>1, <1>3, <1>6, <1>8, Zenon DEF Moved

\* A component that moves has no links beside it, and its children move with it.
LEMMA PasteCutSound ==
  ASSUME Sound, edits' \in 0..MaxEdits, NEW c, NEW p, Moved(c, p)
  PROVE  Sound'
<1>1. /\ c \in Component \ {Root} /\ p \in Component /\ p \notin getDescendantsIDs(c)
      /\ Counterparts(c) = {}
  BY DEF Moved
<1>2. /\ json[c].next = {} /\ json[c].else = {} /\ json[c].previous = {}
      /\ json[c].src = {} /\ json[c].dst = {}
  BY <1>1 DEF Counterparts
<1>3. /\ DOMAIN place' = Component
      /\ place'[c] = p /\ \A d \in Component \ {c} : place'[d] = place[d]
  BY DEF Moved
<1>4. p # c /\ (p # Root => place[p] # c)
  BY <1>1, Descendants
<1>6. DOMAIN json' = Component BY DEF Moved
<1>7. p \in ID /\ c \in ID BY <1>1, FileTypes DEF Sound
<1>8. \A d \in Component :
        /\ json'[d] \in Json /\ json'[d].parent = IF d = c THEN p ELSE json[d].parent
        /\ json'[d].next = json[d].next /\ json'[d].else = json[d].else
        /\ json'[d].previous = json[d].previous
        /\ json'[d].src = json[d].src /\ json'[d].dst = json[d].dst
        /\ json'[d].forwardTo = json[d].forwardTo /\ json'[d].origin = json[d].origin
        /\ json'[d].inputFiles = json[d].inputFiles /\ json'[d].outputFiles = json[d].outputFiles
  BY DEF Moved
<1>9. Root \in Component /\ json[Root].parent \notin ID BY DEF Sound, Homes, RootAlone
<1>10. \A d \in Component \ {Root} : place[d] \in Component BY DEF Sound, TypeOK, Component
<1>11. Placed
  <2>1. TypeOK'
    <3>1. DOMAIN json' \subseteq ID /\ DOMAIN place' = DOMAIN json'
      BY <1>3, <1>6 DEF Sound, TypeOK, Component
    <3>2. \A d \in DOMAIN json' \ {Root} : place'[d] \in DOMAIN json' BY <1>1, <1>3, <1>6, <1>10
    <3> QED BY <1>6, <1>8, <3>1, <3>2 DEF Sound, TypeOK
  <2>2. Nested'
    <3>1. \A d \in Component \ {Root} : place[d] # d /\ (place[d] # Root => place[place[d]] # d)
      BY DEF Sound, Homes, Nested
    <3> QED BY <1>1, <1>3, <1>4, <1>6, <1>10, <3>1 DEF Nested, Component
  <2>3. AtHome'
    <3>1. \A d \in Component \ {Root} : json[d].parent = place[d] BY DEF Sound, Homes, AtHome
    <3> QED BY <1>3, <1>6, <1>8, <3>1 DEF AtHome, Component
  <2> QED BY <1>1, <1>6, <1>8, <1>9, <2>1, <2>2, <2>3 DEF Placed
<1>12. RecordNext(Beside, Down, Up)
  <2>1. SUFFICES ASSUME NEW d \in Component, NEW n \in Names, NEW f \in Names, NEW x \in ID
        PROVE  /\ L(n, x, f) \in json'[d].src <=> <<x, f, d, n>> \in Beside \union Down
               /\ L(n, x, f) \in json'[d].dst <=> <<d, n, x, f>> \in Beside \union Up
               /\ L(n, x, f) \in json'[d].forwardTo <=> <<d, n, x, f>> \in Down
               /\ L(n, x, f) \in json'[d].origin <=> <<x, f, d, n>> \in Up
    BY <1>6 DEF RecordNext
  <2> QED BY <1>8, EdgesRecorded DEF Record
<1>13. FitNext(Beside, Down, Up)
  <2>1. SUFFICES ASSUME NEW s \in ID, NEW d \in ID, NEW o \in Names, NEW i \in Names
        PROVE
        /\ <<s, o, d, i>> \in Beside =>
             /\ {s, d} \subseteq DOMAIN json' \ {Root} /\ s # d /\ place'[s] = place'[d]
             /\ o \in json'[s].outputFiles /\ i \in json'[d].inputFiles
        /\ <<s, o, d, i>> \in Down =>
             /\ {s, d} \subseteq DOMAIN json' /\ d # Root /\ s = place'[d]
             /\ o \in json'[s].inputFiles /\ i \in json'[d].inputFiles
        /\ <<s, o, d, i>> \in Up =>
             /\ {s, d} \subseteq DOMAIN json' /\ s # Root /\ d = place'[s]
             /\ o \in json'[s].outputFiles /\ i \in json'[d].outputFiles
    BY DEF FitNext
  <2>2. CASE <<s, o, d, i>> \in Beside \union Down \union Up
    <3>1. s \in Component /\ d \in Component BY <2>2, EdgeEnds
    <3>2. /\ <<s, o, d, i>> \in Beside \union Up => s # c
          /\ <<s, o, d, i>> \in Beside \union Down => d # c
      BY <1>2, EdgeEnds
    <3>3. /\ s # c => place'[s] = place[s]
          /\ d # c => place'[d] = place[d]
      BY <1>3, <3>1
    <3>4. /\ json'[s].inputFiles = json[s].inputFiles /\ json'[s].outputFiles = json[s].outputFiles
          /\ json'[d].inputFiles = json[d].inputFiles /\ json'[d].outputFiles = json[d].outputFiles
      BY <1>8, <3>1
    <3> QED BY <1>6, <3>1, <3>2, <3>3, <3>4, EdgeEnds
  <2> QED BY <2>2
<1>14. LinksAgree' BY <1>6, <1>8 DEF Sound, LinksAgree, Component
<1>15. OneLink' BY <1>6, <1>8 DEF Sound, OneLink, Component
<1>16. LinksNear
  <2>1. SUFFICES ASSUME NEW x \in Component,
                        NEW d \in json[x].next \union json[x].else \union json[x].previous
        PROVE  x # Root /\ d \in Component \ {Root} /\ d # x /\ place'[d] = place'[x]
    BY <1>6, <1>8 DEF LinksNear
  <2>2. /\ d \in Component \ {Root} /\ x # Root /\ d # x /\ place[d] = place[x]
        /\ d \in Counterparts(x) /\ x \in Counterparts(d)
    BY LinkedSiblings
  <2>3. x # c /\ d # c BY <1>1, <2>2
  <2> QED BY <1>3, <2>2, <2>3
<1> QED BY <1>11, <1>12, <1>13, <1>14, <1>15, <1>16, NextSound

\* The files after components are added that have no links.
Added(new) ==
  /\ new \intersect Component = {} /\ DOMAIN json' = Component \union new
  /\ \A d \in Component : json'[d] = json[d]
  /\ \A d \in new : /\ json'[d].next = {} /\ json'[d].else = {}
                     /\ json'[d].src = {} /\ json'[d].dst = {}

\* The copies are laid out as what they were copied from, and have no links.
LEMMA PasteCopySound ==
  ASSUME Sound, edits' \in 0..MaxEdits, ~Careless, NEW c, NEW p, NEW newID, pasteCopy(c, p, newID)
  PROVE  Sound' /\ Added(Range(newID))
<1> DEFINE D == getDescendantsIDs(c)
           R == Range(newID)
           old == AntiFunction(newID)
<1>1. /\ c \in Component \ {Root} /\ p \in Component /\ p \notin D
      /\ DOMAIN newID = D /\ R \subseteq ID \ Component
      /\ \A a, b \in D : newID[a] = newID[b] => a = b
      /\ \A d \in D : json[d].forwardTo \union json[d].origin = {}
  BY DEF pasteCopy, MayHold, IsInjective, LinkedToChildren
<1>2. /\ D \subseteq Component /\ c \in D
      /\ \A e \in D \ {c} : e # Root /\ place[e] \in D
  BY <1>1, Descendants
<1>3. \A d \in D : newID[d] \in R BY <1>1 DEF Range
<1>4. ASSUME NEW x \in R PROVE old[x] \in D /\ newID[old[x]] = x
  <2>1. PICK d \in D : newID[d] = x BY <1>1 DEF Range
  <2>2. old[x] = CHOOSE s \in D : x \in R => newID[s] = x BY <1>1 DEF AntiFunction, Inverse
  <2> QED BY <2>1, <2>2
<1>5. /\ DOMAIN json' = Component \union R /\ DOMAIN place' = Component \union R
      /\ \A d \in Component : json'[d] = json[d] /\ place'[d] = place[d] /\ d \notin R
  BY <1>1 DEF pasteCopy
<1>6. ASSUME NEW x \in R
      PROVE  /\ json'[x] = [json[old[x]] EXCEPT !.next = {}, !.else = {}, !.previous = {},
                              !.src = {}, !.dst = {},
                              !.parent = IF old[x] = c THEN p ELSE newID[@]]
             /\ place'[x] = IF old[x] = c THEN p ELSE newID[place[old[x]]]
  BY <1>1 DEF pasteCopy
<1> HIDE DEF D, R, old
<1>7. Root \in Component /\ json[Root].parent \notin ID BY DEF Sound, Homes, RootAlone
<1>8. /\ \A d \in Component \ {Root} : place[d] \in Component /\ json[d].parent = place[d]
      /\ \A d \in Component \ {Root} : place[d] # d /\ (place[d] # Root => place[place[d]] # d)
  BY DEF Sound, TypeOK, Component, Homes, Nested, AtHome
<1>9. ASSUME NEW x \in R
      PROVE  /\ x \notin Component
             /\ old[x] = c => place'[x] = p
             /\ old[x] # c => /\ place[old[x]] \in D /\ old[x] \in Component \ {Root}
                              /\ place'[x] = newID[place[old[x]]] /\ place'[x] \in R
                              /\ old[place'[x]] = place[old[x]]
             /\ place'[x] \in Component \union R /\ place'[x] \in ID
  <2>1. x \notin Component /\ old[x] \in D BY <1>1, <1>4
  <2>2. old[x] # c => /\ place[old[x]] \in D /\ old[x] \in Component \ {Root}
                      /\ place'[x] = newID[place[old[x]]] /\ place'[x] \in R
    BY <1>2, <1>3, <1>6, <2>1
  <2>3. old[x] # c => old[place'[x]] = place[old[x]] BY <1>1, <1>4, <2>2
  <2>4. p \in ID BY <1>1, FileTypes DEF Sound
  <2> QED BY <1>1, <1>6, <2>1, <2>2, <2>3, <2>4
<1>10. ASSUME NEW x \in R
       PROVE  /\ json'[x] \in Json /\ json'[x].parent = place'[x]
              /\ json'[x].next = {} /\ json'[x].else = {} /\ json'[x].previous = {}
              /\ json'[x].src = {} /\ json'[x].dst = {}
              /\ json'[x].forwardTo = {} /\ json'[x].origin = {}
  <2> DEFINE parent == IF old[x] = c THEN p ELSE newID[json[old[x]].parent]
  <2>1. json'[x] = [json[old[x]] EXCEPT !.next = {}, !.else = {}, !.previous = {},
                      !.src = {}, !.dst = {}, !.parent = parent]
    BY <1>6
  <2>2. parent = place'[x]
    <3>1. CASE old[x] = c BY <1>9, <3>1
    <3>2. CASE old[x] # c
      <4>1. json[old[x]].parent = place[old[x]] BY <1>8, <1>9, <3>2
      <4> QED BY <1>9, <3>2, <4>1
    <3> QED BY <3>1, <3>2
  <2>3. parent \in ID BY <1>9, <2>2
  <2>4. json[old[x]] \in Json /\ json[old[x]].forwardTo = {} /\ json[old[x]].origin = {}
    BY <1>1, <1>2, <1>4, FileTypes DEF Sound
  <2> HIDE DEF parent
  <2> QED BY <2>1, <2>2, <2>3, <2>4 DEF Json
<1>11. Placed
  <2>1. TypeOK'
    <3>1. DOMAIN json' \subseteq ID /\ DOMAIN place' = DOMAIN json'
      BY <1>1, <1>5 DEF Sound, TypeOK, Component
    <3>2. \A d \in DOMAIN json' : json'[d] \in Json BY <1>5, <1>10, FileTypes DEF Sound
    <3>3. \A d \in DOMAIN json' \ {Root} : place'[d] \in DOMAIN json' BY <1>5, <1>8, <1>9
    <3> QED BY <3>1, <3>2, <3>3 DEF Sound, TypeOK
  <2>2. ASSUME NEW x \in (Component \union R) \ {Root}
        PROVE  place'[x] # x /\ (place'[x] # Root => place'[place'[x]] # x)
    <3>1. CASE x \in Component BY <1>5, <1>8, <2>2, <3>1
    <3>2. CASE x \in R /\ old[x] = c
      <4>1. place'[x] = p /\ x \notin Component BY <1>9, <3>2
      <4>2. p # Root => place'[p] \in Component BY <1>1, <1>5, <1>8
      <4> QED BY <1>1, <4>1, <4>2
    <3>3. CASE x \in R /\ old[x] # c
      <4> DEFINE y == place'[x]
      <4>1. /\ y \in R /\ old[y] = place[old[x]] /\ old[x] \in Component \ {Root} /\ x \notin Component
        BY <1>9, <3>3
      <4>2. /\ old[x] # old[y]
            /\ old[y] # Root => place[old[y]] # old[x]
        BY <1>8, <4>1
      <4> HIDE DEF y
      <4>3. y # x BY <4>2
      <4>4. CASE old[y] = c BY <1>1, <1>9, <4>1, <4>3, <4>4 DEF y
      <4>5. CASE old[y] # c
        <5>1. old[y] # Root /\ old[place'[y]] = place[old[y]] BY <1>9, <4>1, <4>5
        <5>2. place'[y] # x BY <4>2, <5>1
        <5> QED BY <4>3, <5>2 DEF y
      <4> QED BY <4>4, <4>5
    <3> QED BY <2>2, <3>1, <3>2, <3>3
  <2>3. Nested' BY <1>5, <2>2 DEF Nested, Component
  <2>4. AtHome' BY <1>5, <1>8, <1>10 DEF AtHome, Component
  <2> QED BY <1>5, <1>7, <2>1, <2>3, <2>4 DEF Placed
<1>12. RecordNext(Beside, Down, Up)
  <2>1. SUFFICES ASSUME NEW d \in Component \union R, NEW n \in Names, NEW f \in Names, NEW x \in ID
        PROVE  /\ L(n, x, f) \in json'[d].src <=> <<x, f, d, n>> \in Beside \union Down
               /\ L(n, x, f) \in json'[d].dst <=> <<d, n, x, f>> \in Beside \union Up
               /\ L(n, x, f) \in json'[d].forwardTo <=> <<d, n, x, f>> \in Down
               /\ L(n, x, f) \in json'[d].origin <=> <<x, f, d, n>> \in Up
    BY <1>5 DEF RecordNext
  <2>2. CASE d \in Component BY <1>5, <2>2, EdgesRecorded DEF Record
  <2>3. CASE d \in R
    <3>1. d \in ID /\ d \notin Component BY <1>1, <2>3
    <3>2. /\ <<x, f, d, n>> \notin Beside /\ <<x, f, d, n>> \notin Down /\ <<x, f, d, n>> \notin Up
          /\ <<d, n, x, f>> \notin Beside /\ <<d, n, x, f>> \notin Down /\ <<d, n, x, f>> \notin Up
      BY <3>1, EdgeEnds
    <3> QED BY <1>10, <2>3, <3>2
  <2> QED BY <2>2, <2>3
<1>13. FitNext(Beside, Down, Up)
  <2>1. SUFFICES ASSUME NEW s \in ID, NEW d \in ID, NEW o \in Names, NEW i \in Names
        PROVE
        /\ <<s, o, d, i>> \in Beside =>
             /\ {s, d} \subseteq DOMAIN json' \ {Root} /\ s # d /\ place'[s] = place'[d]
             /\ o \in json'[s].outputFiles /\ i \in json'[d].inputFiles
        /\ <<s, o, d, i>> \in Down =>
             /\ {s, d} \subseteq DOMAIN json' /\ d # Root /\ s = place'[d]
             /\ o \in json'[s].inputFiles /\ i \in json'[d].inputFiles
        /\ <<s, o, d, i>> \in Up =>
             /\ {s, d} \subseteq DOMAIN json' /\ s # Root /\ d = place'[s]
             /\ o \in json'[s].outputFiles /\ i \in json'[d].outputFiles
    BY DEF FitNext
  <2>2. /\ <<s, o, d, i>> \in Beside =>
             /\ {s, d} \subseteq Component \ {Root} /\ s # d /\ place[s] = place[d]
             /\ o \in json[s].outputFiles /\ i \in json[d].inputFiles
        /\ <<s, o, d, i>> \in Down =>
             /\ {s, d} \subseteq Component /\ d # Root /\ s = place[d]
             /\ o \in json[s].inputFiles /\ i \in json[d].inputFiles
        /\ <<s, o, d, i>> \in Up =>
             /\ {s, d} \subseteq Component /\ s # Root /\ d = place[s]
             /\ o \in json[s].outputFiles /\ i \in json[d].outputFiles
    BY EdgesFit DEF Fit
  <2> QED BY <1>5, <2>2
<1>14. \A d \in Component : json[d].next \subseteq Component /\ json[d].else \subseteq Component
                            /\ json[d].previous \subseteq Component
  BY DEF Sound, LinksAgree
<1>15. LinksAgree'
  <2>1. SUFFICES ASSUME NEW d \in Component \union R
        PROVE /\ (json'[d].next \union json'[d].else) \union json'[d].previous \subseteq Component
              /\ \A e \in json'[d].next \union json'[d].else : d \in json'[e].previous
              /\ \A e \in json'[d].previous : d \in json'[e].next \union json'[e].else
    BY <1>5 DEF LinksAgree, Component
  <2>2. CASE d \in Component BY <1>5, <1>14, <2>2 DEF Sound, LinksAgree
  <2>3. CASE d \in R BY <1>10, <2>3
  <2> QED BY <2>2, <2>3
<1>16. OneLink' BY <1>5, <1>10 DEF Sound, OneLink, Component
<1>17. LinksNear
  <2>1. \A d \in Component : \A e \in (json[d].next \union json[d].else) \union json[d].previous :
          d # Root /\ e \in Component \ {Root} /\ e # d /\ place[e] = place[d]
    BY LinkedSiblings
  <2> QED BY <1>5, <1>10, <2>1 DEF LinksNear
<1>18. Sound' BY <1>11, <1>12, <1>13, <1>15, <1>16, <1>17, NextSound
<1>19. Added(R)
  <2>1. R \intersect Component = {} BY <1>5
  <2> QED BY <1>5, <1>10, <2>1 DEF Added
<1> QED BY <1>18, <1>19 DEF R

-----------------------------------------------------------------------------
(* Every edit.                                                             *)

LEMMA EditSound ==
  ASSUME Sound, edits' \in 0..MaxEdits, ~Careless, Edit
  PROVE  Sound'
<1>1. \/ \E s, d \in Component :
           \/ \E isElse \in BOOLEAN : addLink(s, d, isElse) \/ removeLink(s, d, isElse)
           \/ \E o, i \in json[s].inputFiles \union json[s].outputFiles
                          \union json[d].inputFiles \union json[d].outputFiles : addFileLink(s, o, d, i)
           \/ pasteCut(s, d)
           \/ \E newID \in [getDescendantsIDs(s) -> ID \ Component] : pasteCopy(s, d, newID)
      \/ \E c \in Component :
           \/ removeAllLink(c)
           \/ \E l \in json[c].src : removeFileLink(c, l)
           \/ \E n \in json[c].inputFiles : removeAllFileLink(c, n) \/ removeInputFile(c, n)
           \/ \E n \in json[c].outputFiles :
                removeAllFileLinkFromChildren(c, n) \/ removeOutputFile(c, n)
           \/ \E n \in Name : addInputFile(c, n) \/ addOutputFile(c, n)
           \/ \E old \in json[c].inputFiles, new \in Name : renameInputFile(c, old, new)
           \/ \E old \in json[c].outputFiles, new \in Name : renameOutputFile(c, old, new)
           \/ updateComponent(c)
           \/ removeComponent(c)
           \/ \E t \in Creatable, new \in ID \ Component : createNewComponent(c, t, new)
  BY DEF Edit
<1>2. ASSUME NEW s \in Component, NEW d \in Component,
             NEW isElse \in BOOLEAN, addLink(s, d, isElse) \/ removeLink(s, d, isElse)
      PROVE  Sound'
  <2>1. CASE addLink(s, d, isElse) BY <2>1, AddLinkSound
  <2>2. CASE removeLink(s, d, isElse) BY <2>2, RemoveLinkFiles, LinksRemovedSound
  <2> QED BY <1>2, <2>1, <2>2
<1>3. ASSUME NEW s \in Component, NEW d \in Component,
             NEW o \in json[s].inputFiles \union json[s].outputFiles
                       \union json[d].inputFiles \union json[d].outputFiles,
             NEW i \in json[s].inputFiles \union json[s].outputFiles
                       \union json[d].inputFiles \union json[d].outputFiles,
             addFileLink(s, o, d, i)
      PROVE  Sound'
  <2>1. o \in Names /\ i \in Names BY FileTypes DEF Sound, Names
  <2> QED BY <1>3, <2>1, AddFileLinkEdge, EdgeDrawnSound
<1>4. ASSUME NEW s \in Component, NEW d \in Component, pasteCut(s, d)
      PROVE  Sound'
  BY <1>4, PasteCutFiles, PasteCutSound
<1>5. ASSUME NEW s \in Component, NEW d \in Component, NEW newID, pasteCopy(s, d, newID)
      PROVE  Sound'
  BY <1>5, PasteCopySound
<1>6. ASSUME NEW c \in Component, removeAllLink(c) PROVE Sound'
  BY <1>6, RemoveAllLinkFiles, LinksRemovedSound
<1>7. ASSUME NEW c \in Component, NEW l, removeFileLink(c, l) PROVE Sound'
  BY <1>7, RemoveFileLinkEdges, EdgesErasedSound
<1>8. ASSUME NEW c \in Component, NEW n, removeAllFileLink(c, n) \/ removeInputFile(c, n)
      PROVE  Sound'
  <2>1. CASE removeAllFileLink(c, n) BY <2>1, RemoveAllFileLinkEdges, EdgesErasedSound
  <2>2. CASE removeInputFile(c, n) BY <2>2, RemoveInputFileEdges, EdgesErasedSound
  <2> QED BY <1>8, <2>1, <2>2
<1>9. ASSUME NEW c \in Component, NEW n, removeAllFileLinkFromChildren(c, n) \/ removeOutputFile(c, n)
      PROVE  Sound'
  <2>1. CASE removeAllFileLinkFromChildren(c, n) BY <2>1, RemoveAllFileLinkFromChildrenEdges, EdgesErasedSound
  <2>2. CASE removeOutputFile(c, n) BY <2>2, RemoveOutputFileEdges, EdgesErasedSound
  <2> QED BY <1>9, <2>1, <2>2
<1>10. ASSUME NEW c \in Component, NEW n \in Name, addInputFile(c, n) \/ addOutputFile(c, n)
       PROVE  Sound'
  BY <1>10, AddFileFiles, FileAddedSound
<1>11. ASSUME NEW c \in Component, NEW old, NEW new \in Name, renameInputFile(c, old, new)
       PROVE  Sound'
  BY <1>11, RenameInputFileSound
<1>12. ASSUME NEW c \in Component, NEW old, NEW new \in Names, renameOutputFile(c, old, new)
       PROVE  Sound'
  BY <1>12, RenameOutputFileSound
<1>13. ASSUME NEW c \in Component, updateComponent(c) PROVE Sound'
  <2>1. PICK old \in json[c].outputFiles : renameOutputFile(c, old, UploadOnDemand)
    BY <1>13 DEF updateComponent
  <2>2. UploadOnDemand \in Names BY DEF Names
  <2> QED BY <2>1, <2>2, RenameOutputFileSound
<1>14. ASSUME NEW c \in Component, removeComponent(c) PROVE Sound'
  BY <1>14, RemoveSound
<1>15. ASSUME NEW c \in Component, NEW t \in Creatable, NEW new \in ID \ Component,
              createNewComponent(c, t, new)
       PROVE  Sound'
  BY <1>15, CreateSound
<1>16. Name \subseteq Names BY DEF Names
<1>17. CASE \E s, d \in Component :
              \/ \E isElse \in BOOLEAN : addLink(s, d, isElse) \/ removeLink(s, d, isElse)
              \/ \E o, i \in json[s].inputFiles \union json[s].outputFiles
                             \union json[d].inputFiles \union json[d].outputFiles :
                   addFileLink(s, o, d, i)
              \/ pasteCut(s, d)
              \/ \E newID \in [getDescendantsIDs(s) -> ID \ Component] : pasteCopy(s, d, newID)
  BY <1>17, <1>2, <1>3, <1>4, <1>5, Zenon
<1> QED BY <1>1, <1>6, <1>7, <1>8, <1>9, <1>10, <1>11, <1>12, <1>13, <1>14, <1>15, <1>16, <1>17

LEMMA StepSound ==
  ASSUME Sound, ~Careless, [Next]_vars
  PROVE  Sound'
<1>1. CASE Next
  <2>1. edits' \in 0..MaxEdits BY <1>1, BoundAssumption DEF Next, Sound, TypeOK
  <2> QED BY <1>1, <2>1, EditSound DEF Next
<1>2. CASE UNCHANGED vars
  <2>1. json' = json /\ place' = place /\ edits' = edits /\ Component' = Component
    BY <1>2 DEF vars, Component
  <2>2. TypeOK' BY <2>1 DEF Sound, TypeOK
  <2>3. Rewrite BY <2>1, <2>2 DEF Rewrite
  <2>4. \A d \in Component : KeepsLinks(d) /\ KeepsFileLinks(d) /\ KeepsNames(d)
                             /\ Counterparts(d)' = Counterparts(d)
    BY <2>1 DEF KeepsLinks, KeepsFileLinks, KeepsNames, Counterparts
  <2>5. Homes' BY <2>3, <2>4, HomesKept DEF Forgets
  <2> QED BY <2>2, <2>3, <2>4, <2>5, LinksKept, FileLinksKept DEF Sound
<1> QED BY <1>1, <1>2

-----------------------------------------------------------------------------
(* The graph the user sees.                                                *)

\* What an arrow comes from.
ArrowFrom(a, c, j) ==
  \/ \E d \in j.next \union j.else : a = <<"link", c, d>>
  \/ \E l \in j.src : a = <<"file", l.node, c>>
  \/ \E l \in j.dst : l.node = j.parent /\ a = <<"file", c, l.node>>

LEMMA ArrowForms ==
  /\ \A a : a \in Arrows <=> \E c \in Component : ArrowFrom(a, c, json[c])
  /\ \A a : a \in Arrows' <=> \E c \in DOMAIN json' : ArrowFrom(a, c, json'[c])
BY DEF Arrows, ArrowFrom, Component

LEMMA ArrowEnds ==
  ASSUME Sound, NEW a \in Arrows
  PROVE  a[2] \in Component /\ a[3] \in Component
<1>1. PICK c \in Component : ArrowFrom(a, c, json[c]) BY ArrowForms
<1>2. CASE \E d \in json[c].next \union json[c].else : a = <<"link", c, d>>
  BY <1>2, LinkedSiblings
<1>3. CASE \E l \in json[c].src : a = <<"file", l.node, c>>
  BY <1>3 DEF Sound, Files, SourcesAgree
<1>4. CASE \E l \in json[c].dst : a = <<"file", c, l.node>>
  BY <1>4 DEF Sound, Files, TargetsAgree
<1> QED BY <1>1, <1>2, <1>3, <1>4 DEF ArrowFrom

\* The other ends of the links of d stay.
KeepsEnds(d) ==
  /\ json'[d].next \union json'[d].else = json[d].next \union json[d].else
  /\ {l.node : l \in json'[d].src} = {l.node : l \in json[d].src}
  /\ {l.node : l \in json'[d].dst} = {l.node : l \in json[d].dst}
  /\ json'[d].parent = json[d].parent \/ json[d].dst = {}

LEMMA KeepsArrows ==
  ASSUME NEW a, NEW d, KeepsEnds(d)
  PROVE  ArrowFrom(a, d, json'[d]) <=> ArrowFrom(a, d, json[d])
<1> DEFINE j == json[d]
           k == json'[d]
<1>1. /\ k.next \union k.else = j.next \union j.else
      /\ \A x : (\E l \in k.src : x = l.node) <=> (\E l \in j.src : x = l.node)
      /\ \A x : (\E l \in k.dst : x = l.node) <=> (\E l \in j.dst : x = l.node)
      /\ k.parent = j.parent \/ j.dst = {}
  <2>1. \A x : /\ (\E l \in k.src : x = l.node) <=> (\E l \in j.src : x = l.node)
               /\ (\E l \in k.dst : x = l.node) <=> (\E l \in j.dst : x = l.node)
    <3> TAKE x
    <3>1. /\ x \in {l.node : l \in k.src} <=> x \in {l.node : l \in j.src}
          /\ x \in {l.node : l \in k.dst} <=> x \in {l.node : l \in j.dst}
      BY DEF KeepsEnds
    <3> QED BY <3>1
  <2> QED BY <2>1 DEF KeepsEnds
<1> HIDE DEF j, k
<1>2. (\E l \in k.src : a = <<"file", l.node, d>>) <=> (\E l \in j.src : a = <<"file", l.node, d>>)
  BY <1>1
<1>3. (\E l \in k.dst : l.node = k.parent /\ a = <<"file", d, l.node>>)
        <=> (\E l \in j.dst : l.node = j.parent /\ a = <<"file", d, l.node>>)
  BY <1>1
<1>4. ArrowFrom(a, d, k) <=> ArrowFrom(a, d, j) BY <1>1, <1>2, <1>3 DEF ArrowFrom
<1> QED BY <1>4 DEF j, k

\* Files that are rewritten, and components that are added, without a new arrow.
LEMMA Inserts ==
  ASSUME Component \subseteq DOMAIN json', \A d \in Component : KeepsEnds(d),
         \A d \in DOMAIN json' \ Component :
           json'[d].next = {} /\ json'[d].else = {} /\ json'[d].src = {} /\ json'[d].dst = {}
  PROVE  Graph!Insert
<1>1. \A d \in DOMAIN json' \ Component : \A a : ~ArrowFrom(a, d, json'[d]) BY DEF ArrowFrom
<1>2. \A a : a \in Arrows' <=> a \in Arrows BY <1>1, ArrowForms, KeepsArrows
<1>3. Component \subseteq Component' BY DEF Component
<1> QED BY <1>2, <1>3 DEF Graph!Insert

LEMMA AddedInserts ==
  ASSUME NEW new, Added(new)
  PROVE  Graph!Insert
<1>1. \A d \in Component : KeepsEnds(d) BY DEF Added, KeepsEnds
<1>2. \A d \in DOMAIN json' \ Component : d \in new BY DEF Added
<1> QED BY <1>1, <1>2, Inserts DEF Added

LEMMA Draws ==
  ASSUME Component' = Component, NEW a, Arrows' = Arrows \union {a},
         a[2] \in Component, a[3] \in Component
  PROVE  [Graph!Next]_(Graph!vars)
<1>1. CASE a \in Arrows
  <2>1. Arrows' = Arrows BY <1>1
  <2> QED BY <2>1 DEF Graph!vars
<1>2. CASE a \notin Arrows
  <2>1. a \in Arrows' /\ Arrows = Arrows' \ {a} BY <1>2
  <2>2. Graph!Draw BY <2>1 DEF Graph!Draw, Graph!Ends
  <2> QED BY <2>2 DEF Graph!Next
<1> QED BY <1>1, <1>2

LEMMA LinkDraws ==
  ASSUME Sound, NEW s, NEW d, NEW isElse, LinkAdded(s, d, isElse)
  PROVE  [Graph!Next]_(Graph!vars)
<1>1. s \in Component /\ d \in Component BY DEF LinkAdded
<1>2. DOMAIN json' = Component /\ Component' = Component BY DEF LinkAdded, Rewrite, Component
<1>3. ASSUME NEW c \in Component, NEW a
      PROVE  ArrowFrom(a, c, json'[c]) <=>
               ArrowFrom(a, c, json[c]) \/ (c = s /\ a = <<"link", s, d>>)
  <2>1. /\ json'[c].next \union json'[c].else =
             (json[c].next \union json[c].else) \union (IF c = s THEN {d} ELSE {})
        /\ json'[c].src = json[c].src /\ json'[c].dst = json[c].dst /\ json'[c].parent = json[c].parent
    BY DEF LinkAdded, KeepsFileLinks, Rewrite
  <2> QED BY <2>1 DEF ArrowFrom
<1>4. Arrows' = Arrows \union {<<"link", s, d>>}
  <2>1. \A a : a \in Arrows' <=> a \in Arrows \/ a = <<"link", s, d>>
    BY <1>1, <1>2, <1>3, ArrowForms
  <2> QED BY <2>1
<1> QED BY <1>1, <1>2, <1>4, Draws

LEMMA EdgeDraws ==
  ASSUME Sound, NEW kind \in {"beside", "down", "up"}, NEW s, NEW d, NEW o, NEW i,
         EdgeDrawn(kind, s, o, d, i), EdgeFits(kind, s, o, d, i)
  PROVE  [Graph!Next]_(Graph!vars)
<1>1. s \in Component /\ d \in Component BY DEF EdgeFits
<1>2. DOMAIN json' = Component /\ Component' = Component BY DEF EdgeDrawn, Component
<1>3. L(o, d, i).node = d /\ L(i, s, o).node = s BY LinkParts
<1>4. kind = "up" => json[s].parent = d BY <1>1 DEF EdgeFits, Sound, Homes, AtHome
<1>5. ASSUME kind = "beside" PROVE json[s].parent # d
  BY <1>1, <1>5 DEF EdgeFits, Siblings, Sound, Homes, AtHome, Nested
<1>6. ASSUME NEW c \in Component, NEW a
      PROVE  ArrowFrom(a, c, json'[c]) <=>
               \/ ArrowFrom(a, c, json[c])
               \/ c = (IF kind = "up" THEN s ELSE d) /\ a = <<"file", s, d>>
  <2>1. /\ json'[c].next = json[c].next /\ json'[c].else = json[c].else
        /\ json'[c].parent = json[c].parent
        /\ json'[c].src = json[c].src \union (IF c = d /\ kind # "up" THEN {L(i, s, o)} ELSE {})
        /\ json'[c].dst = json[c].dst \union (IF c = s /\ kind # "down" THEN {L(o, d, i)} ELSE {})
    BY DEF EdgeDrawn, KeepsLinks
  <2>2. (\E l \in json'[c].src : a = <<"file", l.node, c>>) <=>
          \/ \E l \in json[c].src : a = <<"file", l.node, c>>
          \/ c = d /\ kind # "up" /\ a = <<"file", s, d>>
    BY <1>3, <2>1
  <2>3. (\E l \in json'[c].dst : l.node = json'[c].parent /\ a = <<"file", c, l.node>>) <=>
          \/ \E l \in json[c].dst : l.node = json[c].parent /\ a = <<"file", c, l.node>>
          \/ c = s /\ kind = "up" /\ a = <<"file", s, d>>
    BY <1>3, <1>4, <1>5, <2>1
  <2> QED BY <2>1, <2>2, <2>3 DEF ArrowFrom
<1>7. Arrows' = Arrows \union {<<"file", s, d>>}
  <2>1. \A a : a \in Arrows' <=> a \in Arrows \/ a = <<"file", s, d>>
    BY <1>1, <1>2, <1>6, ArrowForms
  <2> QED BY <2>1
<1> QED BY <1>1, <1>2, <1>7, Draws

LEMMA Erases ==
  ASSUME DOMAIN json' = Component, NEW c \in Component,
         \A d \in Component : \A a :
           /\ ArrowFrom(a, d, json'[d]) => ArrowFrom(a, d, json[d])
           /\ ArrowFrom(a, d, json[d]) => ArrowFrom(a, d, json'[d]) \/ c \in {a[2], a[3]}
  PROVE  Graph!Erase
<1>1. Component' = Component BY DEF Component
<1>2. Arrows' \subseteq Arrows /\ \A a \in Arrows \ Arrows' : c \in {a[2], a[3]} BY ArrowForms
<1> QED BY <1>1, <1>2 DEF Graph!Erase, Graph!Ends

LEMMA LinkErases ==
  ASSUME NEW c \in Component, NEW R, LinksRemoved(R), \A e \in R : c \in {e[1], e[2]}
  PROVE  Graph!Erase
<1>1. DOMAIN json' = Component BY DEF LinksRemoved, Rewrite, Component
<1>2. ASSUME NEW d \in Component, NEW a
      PROVE  /\ ArrowFrom(a, d, json'[d]) => ArrowFrom(a, d, json[d])
             /\ ArrowFrom(a, d, json[d]) => ArrowFrom(a, d, json'[d]) \/ c \in {a[2], a[3]}
  <2>1. /\ json'[d].next \union json'[d].else =
             {e \in json[d].next \union json[d].else : <<d, e>> \notin R}
        /\ json'[d].src = json[d].src /\ json'[d].dst = json[d].dst /\ json'[d].parent = json[d].parent
    BY DEF LinksRemoved, KeepsFileLinks, Rewrite
  <2>2. \A e : <<d, e>> \in R => c \in {d, e} OBVIOUS
  <2>3. ArrowFrom(a, d, json'[d]) => ArrowFrom(a, d, json[d]) BY <2>1 DEF ArrowFrom
  <2>4. ASSUME ArrowFrom(a, d, json[d]), ~ArrowFrom(a, d, json'[d]) PROVE c \in {a[2], a[3]}
    <3>1. PICK e \in json[d].next \union json[d].else : a = <<"link", d, e>>
      BY <2>1, <2>4 DEF ArrowFrom
    <3>2. <<d, e>> \in R BY <2>1, <2>4, <3>1 DEF ArrowFrom
    <3> QED BY <2>2, <3>1, <3>2
  <2> QED BY <2>3, <2>4
<1> QED BY <1>1, <1>2, Erases

LEMMA EdgesErase ==
  ASSUME Sound, NEW c \in Component, NEW R \in SUBSET EdgesOf(c), EdgesErased(R)
  PROVE  Graph!Erase
<1>1. DOMAIN json' = Component BY DEF EdgesErased
<1>2. ASSUME NEW d \in Component, NEW a
      PROVE  /\ ArrowFrom(a, d, json'[d]) => ArrowFrom(a, d, json[d])
             /\ ArrowFrom(a, d, json[d]) => ArrowFrom(a, d, json'[d]) \/ c \in {a[2], a[3]}
  <2>1. /\ json'[d].next \union json'[d].else = json[d].next \union json[d].else
        /\ json'[d].parent = json[d].parent /\ json'[d] \in Json
    BY DEF EdgesErased, KeepsLinks
  <2>2. json'[d].src \subseteq Links /\ json'[d].dst \subseteq Links BY <2>1 DEF Json
  <2>3. json[d].src \subseteq Links /\ json[d].dst \subseteq Links BY FileTypes DEF Sound
  <2>4. \A x, y \in ID, n, f \in Names : <<x, f, y, n>> \in R => c = x \/ c = y
    BY DEF EdgesOf
  <2>5. ASSUME NEW l \in Links
        PROVE  /\ l \in json'[d].src => l \in json[d].src
               /\ l \in json'[d].dst => l \in json[d].dst
               /\ l \in json[d].src \union json[d].dst =>
                    \/ c = d \/ c = l.node
                    \/ (l \in json[d].src => l \in json'[d].src)
                       /\ (l \in json[d].dst => l \in json'[d].dst)
    <3>1. /\ l = L(l.name, l.node, l.file) /\ l.name \in Names /\ l.file \in Names /\ l.node \in ID
      BY LinkForms
    <3>2. /\ l \in json'[d].src <=> l \in json[d].src /\ <<l.node, l.file, d, l.name>> \notin R
          /\ l \in json'[d].dst <=> l \in json[d].dst /\ <<d, l.name, l.node, l.file>> \notin R
      BY <3>1 DEF EdgesErased
    <3>3. d \in ID BY FileTypes DEF Sound
    <3> QED BY <2>4, <3>1, <3>2, <3>3
  <2>6. ArrowFrom(a, d, json'[d]) => ArrowFrom(a, d, json[d])
    BY <2>1, <2>2, <2>5 DEF ArrowFrom
  <2>7. ArrowFrom(a, d, json[d]) => ArrowFrom(a, d, json'[d]) \/ c \in {a[2], a[3]}
    BY <2>1, <2>3, <2>5 DEF ArrowFrom
  <2> QED BY <2>6, <2>7
<1> QED BY <1>1, <1>2, Erases

\* What goes is removed with its arrows.
LEMMA GoneRemoves ==
  ASSUME Sound, NEW gone, Gone(gone)
  PROVE  Graph!Remove
<1>1. DOMAIN json' = Component \ gone /\ Component' = Component \ gone BY DEF Gone, Component
<1>2. ASSUME NEW d \in Component \ gone, NEW a
      PROVE  ArrowFrom(a, d, json'[d]) <=> /\ ArrowFrom(a, d, json[d])
                                           /\ a[2] \notin gone /\ a[3] \notin gone
  <2>1. /\ json'[d].next \union json'[d].else = (json[d].next \union json[d].else) \ gone
        /\ json'[d].src = {l \in json[d].src : l.node \notin gone}
        /\ json'[d].dst = {l \in json[d].dst : l.node \notin gone}
        /\ json'[d].parent = json[d].parent
    BY DEF Gone
  <2>2. ArrowFrom(a, d, json'[d]) => /\ ArrowFrom(a, d, json[d])
                                     /\ a[2] \notin gone /\ a[3] \notin gone
    BY <2>1 DEF ArrowFrom
  <2>3. ASSUME ArrowFrom(a, d, json[d]), a[2] \notin gone, a[3] \notin gone
        PROVE  ArrowFrom(a, d, json'[d])
    BY <2>1, <2>3 DEF ArrowFrom
  <2> QED BY <2>2, <2>3
<1>3. \A d, a : ArrowFrom(a, d, json[d]) => d \in {a[2], a[3]} BY DEF ArrowFrom
<1>4. \A a \in Arrows : a[2] \in Component /\ a[3] \in Component BY ArrowEnds
<1>5. \A a : a \in Arrows' <=> a \in Arrows /\ a[2] \notin gone /\ a[3] \notin gone
  <2>1. ASSUME NEW a \in Arrows' PROVE a \in Arrows /\ a[2] \notin gone /\ a[3] \notin gone
    <3>1. PICK d \in Component \ gone : ArrowFrom(a, d, json'[d]) BY <1>1, ArrowForms
    <3>2. ArrowFrom(a, d, json[d]) /\ a[2] \notin gone /\ a[3] \notin gone BY <1>2, <3>1
    <3> QED BY <3>2, ArrowForms
  <2>2. ASSUME NEW a \in Arrows, a[2] \notin gone, a[3] \notin gone PROVE a \in Arrows'
    <3>1. PICK d \in Component : ArrowFrom(a, d, json[d]) BY ArrowForms
    <3>2. d \in Component \ gone BY <1>3, <2>2, <3>1
    <3>3. ArrowFrom(a, d, json'[d]) BY <1>2, <2>2, <3>1, <3>2
    <3> QED BY <1>1, <3>2, <3>3, ArrowForms
  <2> QED BY <2>1, <2>2
<1>6. Arrows' = {a \in Arrows : {a[2], a[3]} \subseteq Component'} BY <1>1, <1>4, <1>5
<1> QED BY <1>1, <1>6 DEF Graph!Remove, Graph!Ends

Nodes(links) == {l.node : l \in links}

LEMMA RenamedNodes ==
  ASSUME NEW links \in SUBSET Links, NEW c, NEW old, NEW new
  PROVE  /\ Nodes(OwnRenamed(links, old, new)) = Nodes(links)
         /\ Nodes(OtherRenamed(links, c, old, new)) = Nodes(links)
<1>1. \A l \in links : /\ [l EXCEPT !.name = new].node = l.node
                       /\ [l EXCEPT !.file = new].node = l.node
  BY DEF Links
<1>2. {l.node : l \in OwnRenamed(links, old, new)} = {l.node : l \in links}
  <2> DEFINE r(l) == IF l.name = old THEN [l EXCEPT !.name = new] ELSE l
  <2>1. \A l \in links : r(l).node = l.node BY <1>1
  <2>2. OwnRenamed(links, old, new) = {r(l) : l \in links} BY DEF OwnRenamed
  <2> HIDE DEF r
  <2> QED BY <2>1, <2>2
<1>3. {l.node : l \in OtherRenamed(links, c, old, new)} = {l.node : l \in links}
  <2> DEFINE r(l) == IF l.node = c /\ l.file = old THEN [l EXCEPT !.file = new] ELSE l
  <2>1. \A l \in links : r(l).node = l.node BY <1>1
  <2>2. OtherRenamed(links, c, old, new) = {r(l) : l \in links} BY DEF OtherRenamed
  <2> HIDE DEF r
  <2> QED BY <2>1, <2>2
<1> QED BY <1>2, <1>3 DEF Nodes

\* A rename moves no arrow.
LEMMA InputRenamedInserts ==
  ASSUME Sound, NEW c, NEW old, NEW new, NEW sources, InputRenamed(c, old, new, sources)
  PROVE  Graph!Insert
<1>1. ASSUME NEW d \in Component PROVE KeepsEnds(d)
  <2>1. json[d].src \in SUBSET Links /\ json[d].dst \in SUBSET Links BY FileTypes DEF Sound
  <2>2. /\ json'[d].next = json[d].next /\ json'[d].else = json[d].else
        /\ json'[d].parent = json[d].parent
        /\ json'[d].src = OwnRenamed(json[d].src, old, new) \/ json'[d].src = json[d].src
        /\ json'[d].dst = OtherRenamed(json[d].dst, c, old, new) \/ json'[d].dst = json[d].dst
    BY DEF InputRenamed, KeepsLinks
  <2>3. /\ Nodes(OwnRenamed(json[d].src, old, new)) = Nodes(json[d].src)
        /\ Nodes(OtherRenamed(json[d].dst, c, old, new)) = Nodes(json[d].dst)
    BY <2>1, RenamedNodes
  <2>4. Nodes(json'[d].src) = Nodes(json[d].src) BY <2>2, <2>3
  <2>5. Nodes(json'[d].dst) = Nodes(json[d].dst) BY <2>2, <2>3
  <2> QED BY <2>2, <2>4, <2>5 DEF KeepsEnds, Nodes
<1> QED BY <1>1, Inserts DEF InputRenamed

LEMMA OutputRenamedInserts ==
  ASSUME Sound, NEW c, NEW old, NEW new, NEW targets, OutputRenamed(c, old, new, targets)
  PROVE  Graph!Insert
<1>1. ASSUME NEW d \in Component PROVE KeepsEnds(d)
  <2>1. json[d].src \in SUBSET Links /\ json[d].dst \in SUBSET Links BY FileTypes DEF Sound
  <2>2. /\ json'[d].next = json[d].next /\ json'[d].else = json[d].else
        /\ json'[d].parent = json[d].parent
        /\ json'[d].dst = OwnRenamed(json[d].dst, old, new) \/ json'[d].dst = json[d].dst
        /\ json'[d].src = OtherRenamed(json[d].src, c, old, new) \/ json'[d].src = json[d].src
    BY DEF OutputRenamed, KeepsLinks
  <2>3. /\ Nodes(OwnRenamed(json[d].dst, old, new)) = Nodes(json[d].dst)
        /\ Nodes(OtherRenamed(json[d].src, c, old, new)) = Nodes(json[d].src)
    BY <2>1, RenamedNodes
  <2>4. Nodes(json'[d].src) = Nodes(json[d].src) BY <2>2, <2>3
  <2>5. Nodes(json'[d].dst) = Nodes(json[d].dst) BY <2>2, <2>3
  <2> QED BY <2>2, <2>4, <2>5 DEF KeepsEnds, Nodes
<1> QED BY <1>1, Inserts DEF OutputRenamed

LEMMA RenameInputFileInserts ==
  ASSUME Sound, NEW c \in Component, NEW old, NEW new \in Name, renameInputFile(c, old, new)
  PROVE  Graph!Insert
<1>1. old \in json[c].inputFiles /\ new \notin json[c].inputFiles BY DEF renameInputFile
<1>2. old \in Names /\ new \in Names /\ old # new BY <1>1, FileTypes DEF Sound, Names
<1>3. PICK sources : sources = {l.node : l \in {m \in json[c].src : m.name = old}} OBVIOUS
<1>4. InputRenamed(c, old, new, sources) BY <1>2, <1>3, RenameInputFiles
<1> QED BY <1>4, InputRenamedInserts

LEMMA RenameOutputFileInserts ==
  ASSUME Sound, NEW c \in Component, NEW old, NEW new \in Names, renameOutputFile(c, old, new)
  PROVE  Graph!Insert
<1>1. old \in json[c].outputFiles /\ new \notin json[c].outputFiles BY DEF renameOutputFile
<1>2. old \in Names /\ old # new BY <1>1, FileTypes DEF Sound, Names
<1>3. PICK targets : targets = {l.node : l \in {m \in json[c].dst : m.name = old}} OBVIOUS
<1>4. OutputRenamed(c, old, new, targets) BY <1>2, <1>3, RenameOutputFiles
<1> QED BY <1>4, OutputRenamedInserts

LEMMA FileAddedInserts ==
  ASSUME FileAdded
  PROVE  Graph!Insert
<1>1. \A d \in Component : KeepsEnds(d) BY DEF FileAdded, KeepsLinks, KeepsFileLinks, KeepsEnds
<1> QED BY <1>1, Inserts DEF FileAdded

\* A component that moves has no arrows but to what is in it.
LEMMA MovedInserts ==
  ASSUME NEW c, NEW p, Moved(c, p)
  PROVE  Graph!Insert
<1>1. json[c].dst = {} BY DEF Moved, Counterparts
<1>2. \A d \in Component : KeepsEnds(d) BY <1>1 DEF Moved, KeepsEnds
<1> QED BY <1>2, Inserts DEF Moved

LEMMA CreateInserts ==
  ASSUME NEW p, NEW t, NEW c, createNewComponent(p, t, c)
  PROVE  Graph!Insert
<1>1. Added({c})
  <2>1. /\ DOMAIN json' = Component \union {c} /\ c \notin Component
        /\ \A d \in Component : json'[d] = json[d]
        /\ json'[c] = New(t, p)
    BY DEF createNewComponent
  <2>2. json'[c].next = {} /\ json'[c].else = {} /\ json'[c].src = {} /\ json'[c].dst = {}
    BY <2>1 DEF New
  <2> QED BY <2>1, <2>2 DEF Added
<1> QED BY <1>1, AddedInserts

GraphStep == [Graph!Next]_(Graph!vars)

LEMMA EditDraws ==
  ASSUME Sound, edits' \in 0..MaxEdits, ~Careless, Edit
  PROVE  GraphStep
<1>0. Graph!Insert \/ Graph!Erase \/ Graph!Remove => GraphStep BY DEF GraphStep, Graph!Next
<1>1. \/ \E s, d \in Component :
           \/ \E isElse \in BOOLEAN : addLink(s, d, isElse) \/ removeLink(s, d, isElse)
           \/ \E o, i \in json[s].inputFiles \union json[s].outputFiles
                          \union json[d].inputFiles \union json[d].outputFiles : addFileLink(s, o, d, i)
           \/ pasteCut(s, d)
           \/ \E newID \in [getDescendantsIDs(s) -> ID \ Component] : pasteCopy(s, d, newID)
      \/ \E c \in Component :
           \/ removeAllLink(c)
           \/ \E l \in json[c].src : removeFileLink(c, l)
           \/ \E n \in json[c].inputFiles : removeAllFileLink(c, n) \/ removeInputFile(c, n)
           \/ \E n \in json[c].outputFiles :
                removeAllFileLinkFromChildren(c, n) \/ removeOutputFile(c, n)
           \/ \E n \in Name : addInputFile(c, n) \/ addOutputFile(c, n)
           \/ \E old \in json[c].inputFiles, new \in Name : renameInputFile(c, old, new)
           \/ \E old \in json[c].outputFiles, new \in Name : renameOutputFile(c, old, new)
           \/ updateComponent(c)
           \/ removeComponent(c)
           \/ \E t \in Creatable, new \in ID \ Component : createNewComponent(c, t, new)
  BY DEF Edit
<1>2. ASSUME NEW s \in Component, NEW d \in Component,
             NEW isElse \in BOOLEAN, addLink(s, d, isElse) \/ removeLink(s, d, isElse)
      PROVE  GraphStep
  <2>1. CASE addLink(s, d, isElse)
    <3>1. LinkAdded(s, d, isElse) BY <2>1, AddLinkFiles
    <3> QED BY <3>1, LinkDraws DEF GraphStep
  <2>2. CASE removeLink(s, d, isElse)
    <3>1. LinksRemoved({<<s, d>>}) BY <2>2, RemoveLinkFiles
    <3>2. \A e \in {<<s, d>>} : s \in {e[1], e[2]} OBVIOUS
    <3> QED BY <1>0, <3>1, <3>2, LinkErases
  <2> QED BY <1>2, <2>1, <2>2
<1>3. ASSUME NEW s \in Component, NEW d \in Component,
             NEW o \in json[s].inputFiles \union json[s].outputFiles
                       \union json[d].inputFiles \union json[d].outputFiles,
             NEW i \in json[s].inputFiles \union json[s].outputFiles
                       \union json[d].inputFiles \union json[d].outputFiles,
             addFileLink(s, o, d, i)
      PROVE  GraphStep
  <2>1. o \in Names /\ i \in Names BY FileTypes DEF Sound, Names
  <2>2. PICK kind \in {"beside", "down", "up"} :
          EdgeDrawn(kind, s, o, d, i) /\ EdgeFits(kind, s, o, d, i)
    BY <1>3, <2>1, AddFileLinkEdge
  <2> QED BY <2>2, EdgeDraws DEF GraphStep
<1>4. ASSUME NEW s \in Component, NEW d \in Component, pasteCut(s, d)
      PROVE  GraphStep
  BY <1>0, <1>4, PasteCutFiles, MovedInserts
<1>5. ASSUME NEW s \in Component, NEW d \in Component, NEW newID, pasteCopy(s, d, newID)
      PROVE  GraphStep
  BY <1>0, <1>5, PasteCopySound, AddedInserts
<1>6. ASSUME NEW c \in Component, removeAllLink(c) PROVE GraphStep
  <2>1. \A e \in Touching(c) : c \in {e[1], e[2]} BY DEF Touching
  <2> QED BY <1>0, <1>6, <2>1, RemoveAllLinkFiles, LinkErases
<1>7. ASSUME NEW c \in Component, \E R \in SUBSET EdgesOf(c) : EdgesErased(R) PROVE GraphStep
  BY <1>0, <1>7, EdgesErase
<1>8. ASSUME NEW c \in Component, NEW l, removeFileLink(c, l) PROVE GraphStep
  BY <1>7, <1>8, RemoveFileLinkEdges
<1>9. ASSUME NEW c \in Component, NEW n, removeAllFileLink(c, n) \/ removeInputFile(c, n)
      PROVE  GraphStep
  BY <1>7, <1>9, RemoveAllFileLinkEdges, RemoveInputFileEdges
<1>10. ASSUME NEW c \in Component, NEW n, removeAllFileLinkFromChildren(c, n) \/ removeOutputFile(c, n)
       PROVE  GraphStep
  BY <1>7, <1>10, RemoveAllFileLinkFromChildrenEdges, RemoveOutputFileEdges
<1>11. ASSUME NEW c \in Component, NEW n \in Name, addInputFile(c, n) \/ addOutputFile(c, n)
       PROVE  GraphStep
  BY <1>0, <1>11, AddFileFiles, FileAddedInserts
<1>12. ASSUME NEW c \in Component, NEW old, NEW new \in Name, renameInputFile(c, old, new)
       PROVE  GraphStep
  BY <1>0, <1>12, RenameInputFileInserts
<1>13. ASSUME NEW c \in Component, NEW old, NEW new \in Names, renameOutputFile(c, old, new)
       PROVE  GraphStep
  BY <1>0, <1>13, RenameOutputFileInserts
<1>14. ASSUME NEW c \in Component, updateComponent(c) PROVE GraphStep
  <2>1. PICK old \in json[c].outputFiles : renameOutputFile(c, old, UploadOnDemand)
    BY <1>14 DEF updateComponent
  <2>2. UploadOnDemand \in Names BY DEF Names
  <2> QED BY <1>13, <2>1, <2>2
<1>15. ASSUME NEW c \in Component, removeComponent(c) PROVE GraphStep
  BY <1>0, <1>15, RemoveFiles, GoneRemoves
<1>16. ASSUME NEW c \in Component, NEW t \in Creatable, NEW new \in ID \ Component,
              createNewComponent(c, t, new)
       PROVE  GraphStep
  BY <1>0, <1>16, CreateInserts
<1>17. Name \subseteq Names BY DEF Names
<1>18. CASE \E s, d \in Component :
              \/ \E isElse \in BOOLEAN : addLink(s, d, isElse) \/ removeLink(s, d, isElse)
              \/ \E o, i \in json[s].inputFiles \union json[s].outputFiles
                             \union json[d].inputFiles \union json[d].outputFiles :
                   addFileLink(s, o, d, i)
              \/ pasteCut(s, d)
              \/ \E newID \in [getDescendantsIDs(s) -> ID \ Component] : pasteCopy(s, d, newID)
  BY <1>18, <1>2, <1>3, <1>4, <1>5, Zenon
<1> QED
  BY <1>1, <1>6, <1>8, <1>9, <1>10, <1>11, <1>12, <1>13, <1>14, <1>15, <1>16, <1>17, <1>18

LEMMA StepDraws ==
  ASSUME Sound, ~Careless, [Next]_vars
  PROVE  [Graph!Next]_(Graph!vars)
<1>1. CASE Next
  <2>1. edits' \in 0..MaxEdits BY <1>1, BoundAssumption DEF Next, Sound, TypeOK
  <2> QED BY <1>1, <2>1, EditDraws DEF Next, GraphStep
<1>2. CASE UNCHANGED vars
  <2>1. Component' = Component /\ Arrows' = Arrows BY <1>2 DEF vars, Component, Arrows
  <2> QED BY <2>1 DEF Graph!vars
<1> QED BY <1>1, <1>2

-----------------------------------------------------------------------------
(* The theorems.                                                           *)

\* Whatever project a user opens whose component files fit together, they fit
\* together after every edit the user makes to it, unless he makes one of those
\* that break links (Careless): all of core/componentOperations.js,
\* core/componentLinks.js and core/componentFiles.js keeps what each relies on.
THEOREM SoundKept ==
  ASSUME ~Careless
  PROVE  Spec /\ Sound => []Sound
<1>1. Sound /\ [Next]_vars => Sound' BY StepSound
<1> QED BY <1>1, PTL DEF Spec

\* Both ends of every link name each other, in one workflow, after any sequence
\* of edits of such a project by such a user.
THEOREM BothEndsKept ==
  ASSUME ~Careless
  PROVE  Spec /\ Sound => []BothEnds
<1>1. Sound => BothEnds BY SoundSuffices
<1> QED BY <1>1, SoundKept, PTL

\* Every edit of such a project, which rewrites the files of several components,
\* is one edit of the graph the user sees: it draws one arrow, takes away arrows
\* of one component, adds components without arrows or removes components with
\* theirs.
THEOREM EditsTheGraph ==
  ASSUME ~Careless
  PROVE  Spec /\ Sound => EditsGraph
<1>1. Sound => Graph!Init BY ArrowEnds DEF Graph!Init, Graph!Ends
<1>2. Sound /\ [Next]_vars => [Graph!Next]_(Graph!vars) BY StepDraws
<1>3. Spec => [][Next]_vars BY DEF Spec
<1>4. Spec /\ Sound => Graph!Init /\ [][Graph!Next]_(Graph!vars)
  BY <1>1, <1>2, <1>3, SoundKept, PTL
<1> QED BY <1>4 DEF EditsGraph, Graph!Spec

\* The project createNewProject() writes is one of those: so nothing but one of
\* the edits that break links makes its links disagree or draws what the user did not.
THEOREM NewProjectKept ==
  ASSUME ~Careless, InitialJson = [r \in {Root} |-> New("workflow", None)], None \notin ID
  PROVE  Spec => []BothEnds /\ EditsGraph
<1>1. Init => Sound
  <2>1. SUFFICES ASSUME Init PROVE Sound OBVIOUS
  <2>2. /\ DOMAIN json = {Root} /\ DOMAIN place = {Root} /\ Component = {Root} /\ edits = 0
        /\ json[Root] = New("workflow", None)
    BY <2>1 DEF Init, Component
  <2>3. /\ json[Root] \in Json /\ json[Root].parent = None
        /\ json[Root].next = {} /\ json[Root].else = {} /\ json[Root].previous = {}
        /\ json[Root].src = {} /\ json[Root].dst = {}
        /\ json[Root].forwardTo = {} /\ json[Root].origin = {}
    BY <2>2 DEF New, Json, Types
  <2>4. TypeOK BY <2>2, <2>3, RootAssumption, BoundAssumption DEF TypeOK
  <2>5. Homes BY <2>2, <2>3 DEF Homes, Nested, RootAlone, Near, AtHome, Counterparts
  <2>6. LinksAgree /\ OneLink BY <2>2, <2>3 DEF LinksAgree, OneLink
  <2>7. Files /\ Children
    BY <2>2, <2>3 DEF Files, SourcesAgree, TargetsAgree, ForwardsAgree, OriginsAgree, Children
  <2> QED BY <2>4, <2>5, <2>6, <2>7 DEF Sound
<1>2. Spec => Init BY DEF Spec
<1> QED BY <1>1, <1>2, BothEndsKept, EditsTheGraph, PTL
=============================================================================
