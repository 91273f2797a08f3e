------------------------ MODULE FileDeliveryProofs ------------------------
(* Theorems about FileDelivery, for any hosts with any settings and mounts *)
(* and any number of components that take the file.                        *)
EXTENDS FileDelivery, FiniteSetTheorems, TLAPS

-----------------------------------------------------------------------------
(* The inductive invariant.  A link only leads up, to the producer or to a  *)
(* workflow, so what a component reads depends on its own directory and on  *)
(* theirs; nothing is in a workflow's directory before it runs, nor in a    *)
(* storage's run directory at any time; and the producer has ended, with    *)
(* its stage-out, before anything that carries the file begins.             *)

Sources == {Producer} \cup Workflow
Up == Sources \ {Root}

States == {"waiting", "stage-out", "ready", "running", "finished", "failed"}
Types ==
  /\ place \in [{Producer} \cup Consumer -> [type : {"task", "storage"}, host : Label \cup {Local}, parent : Workflow]]
  /\ state \in [Node -> States]

Leads(f) == \A k \in DOMAIN f : f[k] = Data \/ f[k].to[3] \in Sources
Untouched == \A k \in DOMAIN files : k[3] \in Workflow => k[3] # Root /\ state[k[3]] # "waiting"
NoRunDirectory == \A k \in DOMAIN files : k[3] \in Consumer /\ k[2] = "run" => isTask(k[3])

Begun(n) == IF n \in Workflow THEN state[n] = "running" ELSE state[n] \in {"ready", "running"}
ProducerFirst == \A n \in Node \ {Producer} : Begun(n) => state[Producer] = "finished"

Warned(c) == ~mandatory /\ c \in shown
TaskHas(c) == Readable(files, machine(host(c)), workingDir(c), c)
Stored(c) ==
  LET k == At(machine(host(c)), storagePath(c), c) IN k \in DOMAIN files /\ files[k] = Data

HasOrWarned(c) ==
  /\ isTask(c) /\ state[c] \in {"ready", "running"} => TaskHas(c) \/ Warned(c)
  /\ ~isTask(c) /\ ~isLocal(c) /\ state[c] = "ready" => Warned(c)
  /\ ~isTask(c) /\ state[c] = "finished" => Stored(c) \/ Warned(c)

IInv ==
  /\ Types
  /\ Leads(files)
  /\ Untouched
  /\ NoRunDirectory
  /\ ProducerFirst
  /\ \A c \in Consumer : HasOrWarned(c)

-----------------------------------------------------------------------------
(* The tree of the workflows                                                *)

LEMMA WorkflowIs == Workflow = {"root", "upper", "lower", "other"}
BY DEF Workflow, Holders

LEMMA Holding ==
  /\ Holders["root"] = {} /\ Holders["upper"] = {"root"}
  /\ Holders["lower"] = {"root", "upper"} /\ Holders["other"] = {"root"}
BY DEF Holders, Root

LEMMA Depth ==
  /\ Cardinality(Holders["root"]) = 0 /\ Cardinality(Holders["upper"]) = 1
  /\ Cardinality(Holders["lower"]) = 2 /\ Cardinality(Holders["other"]) = 1
<1>1. Cardinality({}) = 0 BY FS_EmptySet
<1>2. IsFiniteSet({"root"}) /\ Cardinality({"root"}) = 1 BY FS_Singleton
<1>3. Cardinality({"root"} \cup {"upper"}) = 2 BY <1>2, FS_AddElement
<1>4. {"root", "upper"} = {"root"} \cup {"upper"} OBVIOUS
<1> QED BY <1>1, <1>2, <1>3, <1>4, Holding

\* The chain of a workflow and of those that hold it ends in that workflow.
Chain(p) == {p} \cup Holders[p]

LEMMA InnermostIs ==
  ASSUME NEW W, NEW p \in W,
         \A v \in W : Cardinality(Holders[v]) <= Cardinality(Holders[p]),
         \A w \in W : w # p => ~(Cardinality(Holders[p]) <= Cardinality(Holders[w]))
  PROVE  innermost(W) = p
<1> DEFINE P(w) == \A v \in W : Cardinality(Holders[v]) <= Cardinality(Holders[w])
<1>1. p \in W /\ P(p) OBVIOUS
<1>2. \A w \in W : P(w) => w = p OBVIOUS
<1>3. (CHOOSE w \in W : P(w)) = p BY <1>1, <1>2
<1> QED BY <1>3 DEF innermost

LEMMA Chains ==
  /\ Chain("root") = {"root"} /\ Chain("upper") = {"root", "upper"}
  /\ Chain("lower") = {"root", "upper", "lower"} /\ Chain("other") = {"root", "other"}
BY Holding DEF Chain

LEMMA Ends == ASSUME NEW p \in Workflow PROVE innermost(Chain(p)) = p
<1>1. innermost({"root"}) = "root"
  <2> DEFINE W == {"root"}
  <2>1. /\ "root" \in W
        /\ \A v \in W : Cardinality(Holders[v]) <= Cardinality(Holders["root"])
        /\ \A w \in W : w # "root" => ~(Cardinality(Holders["root"]) <= Cardinality(Holders[w]))
    BY Depth
  <2> HIDE DEF W
  <2>2. innermost(W) = "root" BY <2>1, InnermostIs
  <2> QED BY <2>2 DEF W
<1>2. innermost({"root", "upper"}) = "upper"
  <2> DEFINE W == {"root", "upper"}
  <2>1. /\ "upper" \in W
        /\ \A v \in W : Cardinality(Holders[v]) <= Cardinality(Holders["upper"])
        /\ \A w \in W : w # "upper" => ~(Cardinality(Holders["upper"]) <= Cardinality(Holders[w]))
    BY Depth
  <2> HIDE DEF W
  <2>2. innermost(W) = "upper" BY <2>1, InnermostIs
  <2> QED BY <2>2 DEF W
<1>3. innermost({"root", "upper", "lower"}) = "lower"
  <2> DEFINE W == {"root", "upper", "lower"}
  <2>1. /\ "lower" \in W
        /\ \A v \in W : Cardinality(Holders[v]) <= Cardinality(Holders["lower"])
        /\ \A w \in W : w # "lower" => ~(Cardinality(Holders["lower"]) <= Cardinality(Holders[w]))
    BY Depth
  <2> HIDE DEF W
  <2>2. innermost(W) = "lower" BY <2>1, InnermostIs
  <2> QED BY <2>2 DEF W
<1>4. innermost({"root", "other"}) = "other"
  <2> DEFINE W == {"root", "other"}
  <2>1. /\ "other" \in W
        /\ \A v \in W : Cardinality(Holders[v]) <= Cardinality(Holders["other"])
        /\ \A w \in W : w # "other" => ~(Cardinality(Holders["other"]) <= Cardinality(Holders[w]))
    BY Depth
  <2> HIDE DEF W
  <2>2. innermost(W) = "other" BY <2>1, InnermostIs
  <2> QED BY <2>2 DEF W
<1> QED BY <1>1, <1>2, <1>3, <1>4, Chains, WorkflowIs

LEMMA Parents ==
  /\ parent("upper") = "root" /\ parent("lower") = "upper" /\ parent("other") = "root"
<1>1. Holders["upper"] = Chain("root") /\ Holders["lower"] = Chain("upper") /\ Holders["other"] = Chain("root")
  BY Holding, Chains
<1>2. \A p \in {"root", "upper"} : innermost(Chain(p)) = p BY Ends, WorkflowIs
<1> QED BY <1>1, <1>2, WorkflowIs DEF parent, HoldersOf

\* A component's holders are the chain of the workflow it is in.
LEMMA Ancestors ==
  ASSUME Types, NEW n \in {Producer} \cup Consumer
  PROVE  /\ n \notin Workflow /\ place[n].parent \in Workflow
         /\ HoldersOf(n) = Chain(place[n].parent) /\ parent(n) = place[n].parent
<1>1. n \notin Workflow BY ConsumerAssumption, WorkflowIs DEF Producer
<1>2. place[n].parent \in Workflow BY DEF Types
<1>3. HoldersOf(n) = Chain(place[n].parent) BY <1>1 DEF HoldersOf, Chain
<1> QED BY <1>1, <1>2, <1>3, Ends DEF parent

\* Two chains meet in a workflow that is on both.
LEMMA Meetings ==
  ASSUME NEW p \in Workflow, NEW q \in Workflow
  PROVE  \E r \in Workflow : /\ Chain(p) \cap Chain(q) = Chain(r)
                             /\ r \in Chain(p) /\ r \in Chain(q)
BY Chains, WorkflowIs

\* On the way down from a workflow to one of those it holds, or to a component in
\* one, there is exactly one that is in it.
LEMMA NextBelow ==
  ASSUME Types, NEW n \in {Producer} \cup Consumer, NEW r \in HoldersOf(n)
  PROVE  \E v \in {n} \cup (HoldersOf(n) \ {Root}) :
            /\ parent(v) = r
            /\ \A u \in {n} \cup HoldersOf(n) : u # Root /\ parent(u) = r => u = v
<1> DEFINE p == place[n].parent
<1>1. p \in Workflow /\ HoldersOf(n) = Chain(p) /\ parent(n) = p /\ n \notin Workflow BY Ancestors
<1> HIDE DEF p
<1>2. n # Root BY <1>1, WorkflowIs DEF Root
<1>3. CASE p = "root" BY <1>1, <1>2, <1>3, Chains, Parents DEF Root
<1>4. CASE p = "upper" BY <1>1, <1>2, <1>4, Chains, Parents DEF Root
<1>5. CASE p = "lower" BY <1>1, <1>2, <1>5, Chains, Parents DEF Root
<1>6. CASE p = "other" BY <1>1, <1>2, <1>6, Chains, Parents DEF Root
<1> QED BY <1>1, <1>3, <1>4, <1>5, <1>6, WorkflowIs

LEMMA BelowIs ==
  ASSUME Types, NEW n \in {Producer} \cup Consumer, NEW r \in HoldersOf(n)
  PROVE  /\ Below(n, r) \in {n} \cup (HoldersOf(n) \ {Root}) /\ parent(Below(n, r)) = r
         /\ \A u \in {n} \cup HoldersOf(n) : u # Root /\ parent(u) = r => u = Below(n, r)
<1>1. PICK v \in {n} \cup (HoldersOf(n) \ {Root}) :
            /\ parent(v) = r
            /\ \A u \in {n} \cup HoldersOf(n) : u # Root /\ parent(u) = r => u = v
  BY NextBelow
<1>2. n # Root BY Ancestors, WorkflowIs DEF Root
<1> DEFINE P(u) == u # Root /\ parent(u) = r
           N == {n} \cup HoldersOf(n)
<1>3. v \in N /\ P(v) /\ \A u \in N : P(u) => u = v BY <1>1, <1>2
<1> HIDE DEF P, N
<1>4. (CHOOSE u \in N : P(u)) = v BY <1>3
<1>5. Below(n, r) = v BY <1>4 DEF Below, P, N
<1> QED BY <1>1, <1>5

\* Where the chains of producer and consumer meet, and what is next on each side.
LEMMA Around ==
  ASSUME Types, NEW c \in Consumer
  PROVE  /\ Meeting(c) \in HoldersOf(c)
         /\ Exit(c) \in {Producer} \cup (HoldersOf(Producer) \ {Root})
         /\ HoldersOf(Producer) \subseteq Workflow
         /\ parent(Exit(c)) = Meeting(c) /\ parent(Entrance(c)) = Meeting(c)
         /\ \A u \in {c} \cup HoldersOf(c) : u # Root /\ parent(u) = Meeting(c) => u = Entrance(c)
<1>1. /\ HoldersOf(Producer) = Chain(place[Producer].parent) /\ place[Producer].parent \in Workflow
      /\ HoldersOf(c) = Chain(place[c].parent) /\ place[c].parent \in Workflow
  BY Ancestors
<1> DEFINE p == place[Producer].parent
           q == place[c].parent
<1>a. PICK r \in Workflow : Chain(p) \cap Chain(q) = Chain(r) /\ r \in Chain(p) /\ r \in Chain(q)
  <2> HIDE DEF p, q
  <2>1. p \in Workflow /\ q \in Workflow BY <1>1 DEF p, q
  <2> QED BY <2>1, Meetings
<1>2. /\ HoldersOf(Producer) \cap HoldersOf(c) = Chain(r)
      /\ r \in HoldersOf(Producer) /\ r \in HoldersOf(c)
  BY <1>1, <1>a
<1>3. Meeting(c) = r BY <1>2, Ends DEF Meeting
<1>4. Exit(c) \in {Producer} \cup (HoldersOf(Producer) \ {Root}) /\ parent(Exit(c)) = r BY <1>2, <1>3, BelowIs DEF Exit
<1>5. /\ parent(Entrance(c)) = r
      /\ \A u \in {c} \cup HoldersOf(c) : u # Root /\ parent(u) = r => u = Entrance(c)
  BY <1>2, <1>3, BelowIs DEF Entrance
<1>6. HoldersOf(Producer) \subseteq Workflow BY <1>1, Chains, WorkflowIs
<1> QED BY <1>2, <1>3, <1>4, <1>5, <1>6

\* The nodes that carry the input of c, c among them.
Carrier(n, c) == n = c \/ (n \in Workflow \ {Root} /\ n \in HoldersOf(c) /\ Carries(n, c))

\* A node gets the file from the producer or from a workflow that is not the root.
LEMMA SrcUp ==
  ASSUME Types, NEW c \in Consumer, NEW n, Carrier(n, c)
  PROVE  Src(n, c) \in Up /\ (Src(n, c) \in Workflow /\ Src(n, c) # parent(n) => Src(n, c) \in HoldersOf(Producer))
<1>1. CASE n = Entrance(c)
  <2>1. Producer \notin Workflow /\ Producer # Root BY Ancestors, WorkflowIs DEF Root, Producer
  <2>2. Exit(c) \in {Producer} \cup (HoldersOf(Producer) \ {Root}) /\ HoldersOf(Producer) \subseteq Workflow BY Around
  <2>3. Src(n, c) = Exit(c) BY <1>1 DEF Src
  <2> QED BY <2>1, <2>2, <2>3 DEF Up, Sources
<1>2. CASE n # Entrance(c)
  <2>1. Src(n, c) = parent(n) BY <1>2 DEF Src
  <2>2. c \notin Workflow /\ place[c].parent \in Workflow /\ HoldersOf(c) = Chain(place[c].parent) /\ parent(c) = place[c].parent
    BY Ancestors
  <2>3. parent(n) \in Workflow
    <3>1. CASE n = c BY <2>2, <3>1
    <3>2. CASE n # c
      <4>1. n \in {"upper", "lower", "other"} BY <3>2, WorkflowIs DEF Carrier, Root
      <4> QED BY <4>1, Parents, WorkflowIs
    <3> QED BY <3>1, <3>2
  <2>4. ASSUME parent(n) = Root PROVE FALSE
    <3>1. Meeting(c) = Root
      <4>1. CASE n = c
        <5>1. HoldersOf(c) = {Root} BY <2>2, <2>4, <4>1, Chains DEF Root
        <5> QED BY <5>1, Around
      <4>2. CASE n # c
        <5>1. n \in Workflow /\ Meeting(c) \in HoldersOf(n) BY <4>2 DEF Carrier, Carries
        <5>2. n \in {"upper", "other"} BY <2>4, <4>2, WorkflowIs, Parents DEF Carrier, Root
        <5>3. HoldersOf(n) = {Root} BY <5>1, <5>2, Holding DEF HoldersOf, Root
        <5> QED BY <5>1, <5>3
      <4> QED BY <4>1, <4>2
    <3>2. n \in {c} \cup HoldersOf(c) /\ n # Root BY <2>2, WorkflowIs DEF Carrier, Root
    <3>3. n = Entrance(c) BY <2>4, <3>1, <3>2, Around
    <3> QED BY <1>2, <3>3
  <2> QED BY <2>1, <2>3, <2>4 DEF Up, Sources
<1> QED BY <1>1, <1>2

\* What a node gets from the workflow it is in, that workflow gets.
LEMMA CarrierUp ==
  ASSUME Types, NEW c \in Consumer, NEW n, Carrier(n, c), Src(n, c) = parent(n)
  PROVE  Carrier(parent(n), c)
<1> DEFINE p == place[c].parent
<1>1. c \notin Workflow /\ p \in Workflow /\ HoldersOf(c) = Chain(p) /\ parent(c) = p BY Ancestors
<1>2. Producer \notin Workflow BY Ancestors
<1>3. parent(n) \in Workflow
  <2>1. CASE n = c BY <1>1, <2>1
  <2>2. CASE n # c
    <3>1. n \in {"upper", "lower", "other"} BY <2>2, WorkflowIs DEF Carrier, Root
    <3> QED BY <3>1, Parents, WorkflowIs
  <2> QED BY <2>1, <2>2
<1>4. n # Entrance(c)
  <2> SUFFICES ASSUME n = Entrance(c) PROVE FALSE OBVIOUS
  <2>1. Src(n, c) = Exit(c) /\ parent(n) = Meeting(c) /\ parent(Exit(c)) = Meeting(c) BY Around DEF Src
  <2>2. parent(Exit(c)) = Exit(c) BY <2>1
  <2>3. Exit(c) \in {"upper", "lower", "other"} BY <1>2, <1>3, <2>1, Around, WorkflowIs DEF Root
  <2> QED BY <2>2, <2>3, Parents
<1>5. parent(n) # Root BY <1>2, SrcUp, WorkflowIs DEF Up
<1>6. CASE n = c
  <2>1. Meeting(c) # p
    <3> SUFFICES ASSUME Meeting(c) = p PROVE FALSE OBVIOUS
    <3>1. c # Root BY <1>1, WorkflowIs DEF Root
    <3> QED BY <1>1, <1>4, <1>6, <3>1, Around
  <2>2. Meeting(c) \in Holders[p] BY <1>1, <2>1, Around DEF Chain
  <2>3. p \in HoldersOf(c) BY <1>1 DEF Chain
  <2> QED BY <1>1, <1>5, <1>6, <2>2, <2>3 DEF Carrier, Carries, HoldersOf
<1>7. CASE n # c
  <2>1. n \in Workflow /\ n \in HoldersOf(c) /\ Meeting(c) \in HoldersOf(n) /\ n \in {"upper", "lower", "other"}
    BY <1>7, WorkflowIs DEF Carrier, Carries, Root
  <2>2. n = "lower" /\ parent(n) = "upper" BY <1>5, <2>1, Parents DEF Root
  <2>3. Meeting(c) \in {"root", "upper"} BY <2>1, <2>2, Holding DEF HoldersOf
  <2>4. Meeting(c) = "root"
    <3> SUFFICES ASSUME Meeting(c) = "upper" PROVE FALSE BY <2>3
    <3> QED BY <1>4, <2>1, <2>2, Around DEF Root
  <2>5. Meeting(c) \in HoldersOf("upper") BY <2>4, Holding, WorkflowIs DEF HoldersOf
  <2>6. "upper" \in HoldersOf(c)
    <3> HIDE DEF p
    <3> QED BY <1>1, <2>1, <2>2, Chains, WorkflowIs
  <2> QED BY <2>2, <2>5, <2>6, WorkflowIs DEF Carrier, Carries, Root
<1> QED BY <1>6, <1>7

-----------------------------------------------------------------------------
(* Files that are written and deleted                                       *)

LEMMA KeyIs ==
  ASSUME NEW m, NEW p, NEW name
  PROVE  At(m, p, name)[2] = p[2] /\ At(m, p, name)[3] = p[3] /\ At(m, p, name)[4] = name
BY DEF At

LEMMA DeleteIs ==
  ASSUME NEW f, NEW m, NEW p, NEW Keep
  PROVE  LET g == Delete(f, m, p, Keep)
         IN /\ DOMAIN g \subseteq DOMAIN f
            /\ \A x \in DOMAIN g : g[x] = f[x]
            /\ \A x \in DOMAIN f : x[2] # p[2] \/ x[3] # p[3] => x \in DOMAIN g
BY DEF Delete, Restrict

\* Files outside the directories of n stay as they are, and new ones are there.
Only(f, g, n) ==
  /\ \A k \in DOMAIN f : k[3] # n => k \in DOMAIN g /\ g[k] = f[k]
  /\ \A k \in DOMAIN g : k[3] # n => k \in DOMAIN f

\* Contents are the data, old ones, or links that lead up.
NewLeads(f, g) ==
  \A k \in DOMAIN g : \/ k \in DOMAIN f /\ g[k] = f[k]
                      \/ g[k] = Data \/ g[k].to[3] \in Sources

LEMMA LeadsKept ==
  ASSUME NEW f, NEW g, Leads(f), NewLeads(f, g) PROVE Leads(g)
BY DEF Leads, NewLeads

LEMMA PutOnly ==
  ASSUME NEW f, NEW m, NEW p, NEW name, NEW content, content = Data \/ content.to[3] \in Sources
  PROVE  LET g == Put(f, m, p, name, content) IN Only(f, g, p[3]) /\ NewLeads(f, g)
<1> DEFINE g == Put(f, m, p, name, content)
           k == At(m, p, name)
<1>1. k[3] = p[3] BY KeyIs
<1>2. /\ DOMAIN g = DOMAIN f \cup {k} /\ g[k] = content
      /\ \A x \in DOMAIN f : x # k => g[x] = f[x]
  BY DEF Put
<1> HIDE DEF g, k
<1>3. Only(f, g, p[3]) BY <1>1, <1>2 DEF Only
<1>4. NewLeads(f, g) BY <1>2 DEF NewLeads
<1> QED BY <1>3, <1>4 DEF g

LEMMA DeleteOnly ==
  ASSUME NEW f, NEW m, NEW p, NEW Keep
  PROVE  LET g == Delete(f, m, p, Keep) IN Only(f, g, p[3]) /\ NewLeads(f, g)
<1> DEFINE g == Delete(f, m, p, Keep)
<1>1. /\ DOMAIN g \subseteq DOMAIN f
      /\ \A x \in DOMAIN g : g[x] = f[x]
      /\ \A x \in DOMAIN f : x[3] # p[3] => x \in DOMAIN g
  BY DeleteIs
<1> HIDE DEF g
<1> QED BY <1>1 DEF Only, NewLeads, g

LEMMA OnlyTwice ==
  ASSUME NEW f, NEW g, NEW h, NEW n, Only(f, g, n), Only(g, h, n), NewLeads(f, g), NewLeads(g, h)
  PROVE  Only(f, h, n) /\ NewLeads(f, h)
<1>1. Only(f, h, n) BY DEF Only
<1>2. NewLeads(f, h) BY DEF NewLeads
<1> QED BY <1>1, <1>2

LEMMA OnlyNone == ASSUME NEW f, NEW n PROVE Only(f, f, n) /\ NewLeads(f, f)
BY DEF Only, NewLeads

\* What is read through links that lead up depends on the directory one begins in
\* and on those of the sources, and on nothing that is not there.
LEMMA FollowUp ==
  ASSUME NEW f, NEW m, NEW q, NEW N, Sources \subseteq N, Leads(f), q[1][3] \in N
  PROVE  Follow(f, m, q)[1][3] \in N
<1> DEFINE k == At(m, q[1], q[2])
<1>1. CASE Exists(f, m, q[1], q[2]) /\ f[k] # Data
  <2>1. k \in DOMAIN f BY <1>1 DEF Exists
  <2>2. f[k].to[3] \in Sources BY <1>1, <2>1 DEF Leads
  <2>3. Follow(f, m, q) = <<f[k].to, f[k].name>> BY <1>1 DEF Follow
  <2> QED BY <2>2, <2>3
<1>2. CASE ~(Exists(f, m, q[1], q[2]) /\ f[k] # Data)
  <2>1. Follow(f, m, q) = q BY <1>2 DEF Follow
  <2> QED BY <2>1
<1> QED BY <1>1, <1>2

\* The files of f in the directories of N are in g.
Agree(f, g, N) == \A k \in DOMAIN f : k[3] \in N => k \in DOMAIN g /\ g[k] = f[k]

LEMMA FollowSame ==
  ASSUME NEW f, NEW g, NEW m, NEW q, NEW N, Agree(f, g, N), q[1][3] \in N,
         LET e == Follow(f, m, q) IN Exists(f, m, e[1], e[2])
  PROVE  /\ Exists(f, m, q[1], q[2])
         /\ Follow(g, m, q) = Follow(f, m, q)
<1> DEFINE k == At(m, q[1], q[2])
<1>1. Exists(f, m, q[1], q[2])
  <2> SUFFICES ASSUME ~Exists(f, m, q[1], q[2]) PROVE FALSE OBVIOUS
  <2>1. Follow(f, m, q) = q BY DEF Follow
  <2> QED BY <2>1
<1>2. k[3] = q[1][3] BY KeyIs
<1>3. k \in DOMAIN f /\ Mounted(m, q[1]) BY <1>1 DEF Exists
<1>4. k \in DOMAIN g /\ g[k] = f[k] BY <1>2, <1>3 DEF Agree
<1>5. Exists(g, m, q[1], q[2]) BY <1>3, <1>4 DEF Exists
<1>6. Follow(g, m, q) = Follow(f, m, q)
  <2> HIDE DEF k
  <2>1. CASE f[k] # Data BY <1>1, <1>4, <1>5, <2>1 DEF Follow, k
  <2>2. CASE f[k] = Data BY <1>1, <1>4, <1>5, <2>2 DEF Follow, k
  <2> QED BY <2>1, <2>2
<1> QED BY <1>1, <1>6

LEMMA ReadSame ==
  ASSUME NEW f, NEW g, NEW m, NEW p, NEW name, NEW N, Sources \subseteq N, p[3] \in N,
         Leads(f), Agree(f, g, N), Readable(f, m, p, name)
  PROVE  Readable(g, m, p, name)
<1> DEFINE q0 == <<p, name>>
           q1 == Follow(f, m, q0)
           q2 == Follow(f, m, q1)
           q3 == Follow(f, m, q2)
           q4 == Follow(f, m, q3)
           E(q) == Exists(f, m, q[1], q[2])
<1>1. E(q4) /\ f[At(m, q4[1], q4[2])] = Data BY DEF Readable
<1>2. q0[1][3] \in N OBVIOUS
<1>3. q1[1][3] \in N BY <1>2, FollowUp
<1>4. q2[1][3] \in N BY <1>3, FollowUp
<1>5. q3[1][3] \in N BY <1>4, FollowUp
<1>6. q4[1][3] \in N BY <1>5, FollowUp
<1>7. E(q3) /\ Follow(g, m, q3) = q4
  <2> HIDE DEF q3
  <2> QED BY <1>1, <1>5, FollowSame
<1>8. E(q2) /\ Follow(g, m, q2) = q3
  <2> HIDE DEF q2
  <2> QED BY <1>7, <1>4, FollowSame
<1>9. E(q1) /\ Follow(g, m, q1) = q2
  <2> HIDE DEF q1
  <2> QED BY <1>8, <1>3, FollowSame
<1>10. Follow(g, m, q0) = q1
  <2> HIDE DEF q0
  <2> QED BY <1>9, <1>2, FollowSame
<1>11. Exists(g, m, q4[1], q4[2]) /\ g[At(m, q4[1], q4[2])] = Data
  <2> HIDE DEF q4
  <2> DEFINE k == At(m, q4[1], q4[2])
  <2>1. k \in DOMAIN f /\ Mounted(m, q4[1]) /\ k[3] = q4[1][3] BY <1>1, KeyIs DEF Exists
  <2>2. k \in DOMAIN g /\ g[k] = f[k] BY <2>1, <1>6 DEF Agree
  <2> QED BY <1>1, <2>1, <2>2 DEF Exists
<1>12. Follow(g, m, Follow(g, m, Follow(g, m, Follow(g, m, q0)))) = q4
  <2> HIDE DEF q0, q1, q2, q3, q4
  <2> QED BY <1>7, <1>8, <1>9, <1>10
<1> QED BY <1>11, <1>12 DEF Readable

\* The data is read where it is.
LEMMA ReadData ==
  ASSUME NEW f, NEW m, NEW p, NEW name, Mounted(m, p),
         At(m, p, name) \in DOMAIN f, f[At(m, p, name)] = Data
  PROVE  Readable(f, m, p, name)
<1> DEFINE q0 == <<p, name>>
<1>1. Exists(f, m, q0[1], q0[2]) /\ f[At(m, q0[1], q0[2])] = Data BY DEF Exists
<1>2. Follow(f, m, q0) = q0 BY <1>1 DEF Follow
<1> HIDE DEF q0
<1>3. Follow(f, m, Follow(f, m, Follow(f, m, Follow(f, m, q0)))) = q0 BY <1>2
<1> QED BY <1>1, <1>3 DEF Readable, q0

LEMMA ReadStart ==
  ASSUME NEW f, NEW m, NEW p, NEW name, Readable(f, m, p, name)
  PROVE  At(m, p, name) \in DOMAIN f
<1> DEFINE q0 == <<p, name>>
<1> SUFFICES ASSUME ~Exists(f, m, q0[1], q0[2]) PROVE FALSE BY DEF Exists
<1>1. Follow(f, m, q0) = q0 BY DEF Follow
<1>2. LET e == Follow(f, m, Follow(f, m, Follow(f, m, Follow(f, m, q0)))) IN Exists(f, m, e[1], e[2])
  BY DEF Readable
<1> HIDE DEF q0
<1>3. Follow(f, m, Follow(f, m, Follow(f, m, Follow(f, m, q0)))) = q0 BY <1>1
<1> QED BY <1>2, <1>3

-----------------------------------------------------------------------------
(* Recipes and their transfers                                              *)

LEMMA RecipeIs ==
  ASSUME Types, NEW c \in Consumer, NEW n, Carrier(n, c)
  PROVE  LET r == Recipe(n, c)
         IN r.to[3] = n /\ r.from[3] \in Sources /\ (n = c /\ r.to[2] = "run" => isTask(c))
<1> DEFINE s == Src(n, c)
           Right(r) == r.to[3] = n /\ r.from[3] \in Sources /\ (n = c /\ r.to[2] = "run" => isTask(c))
<1>1. s \in Sources BY SrcUp DEF Up
<1>2. s \in Workflow /\ s # parent(n) => Origin(s) \in Sources
  <2> SUFFICES ASSUME s \in Workflow, s # parent(n) PROVE Origin(s) \in Sources OBVIOUS
  <2>1. s \in HoldersOf(Producer) BY SrcUp
  <2>2. Below(Producer, s) \in {Producer} \cup (HoldersOf(Producer) \ {Root}) BY <2>1, BelowIs
  <2> QED BY <2>2, Around DEF Origin, Sources
<1>3. n = c /\ ~hasStoragePath(n) => isTask(c)
  <2>1. c \notin Workflow BY Ancestors
  <2>2. place[c].type \in {"task", "storage"} BY DEF Types
  <2> QED BY <2>1, <2>2 DEF hasStoragePath, isTask
<1>4. /\ ComponentDir(n)[2] = "project" /\ ComponentDir(n)[3] = n
      /\ storagePath(n)[2] = "storage" /\ storagePath(n)[3] = n
      /\ RemoteDir(n)[3] = n
  BY DEF ComponentDir, storagePath, RemoteDir, getRemoteWorkingDir
<1>5. /\ ComponentDir(s)[3] = s /\ storagePath(s)[3] = s /\ RemoteDir(s)[3] = s
      /\ \A b : getRemoteWorkingDir(s, n, b)[3] = s
  BY DEF ComponentDir, storagePath, RemoteDir, getRemoteWorkingDir
<1>6. \A a, b : /\ translateSharedPath(ComponentDir(s), a, b)[3] = s
               /\ translateSharedPath(storagePath(s), a, b)[3] = s
               /\ translateSharedPath(RemoteDir(s), a, b)[3] = s
  BY DEF translateSharedPath, ComponentDir, storagePath, RemoteDir, getRemoteWorkingDir
<1> HIDE DEF s
<1>7. s = parent(n) => Right(FromParent(s, n, c))
  <2> SUFFICES ASSUME s = parent(n) PROVE Right(FromParent(s, n, c)) OBVIOUS
  <2>1. Carrier(s, c) BY CarrierUp DEF s
  <2>2. Src(s, c) \in Sources BY <2>1, SrcUp DEF Up
  <2> QED BY <1>4, <2>2 DEF FromParent, ComponentDir
<1>8. Right(LocalToRemoteShared(s, n)) BY <1>1, <1>3, <1>4, <1>6 DEF LocalToRemoteShared
<1>9. Right(RemoteToLocalShared(s, n)) BY <1>1, <1>3, <1>4, <1>6 DEF RemoteToLocalShared
<1>10. Right(OnSameRemote(s, n)) BY <1>1, <1>3, <1>4, <1>5 DEF OnSameRemote, RemoteSource
<1>11. Right(RemoteToLocal(s, n)) BY <1>1, <1>3, <1>4, <1>5 DEF RemoteToLocal
<1>12. s # parent(n) => Right(InServer(s, n))
  <2> SUFFICES ASSUME s # parent(n) PROVE Right(InServer(s, n)) OBVIOUS
  <2>1. InServer(s, n).to = ComponentDir(n) BY DEF InServer
  <2>2. InServer(s, n).from[3] \in Sources
    <3>1. CASE s \in Workflow
      <4>1. InServer(s, n).from = ComponentDir(Origin(s)) BY <3>1 DEF InServer, hasStoragePath
      <4> QED BY <4>1, <1>2, <3>1 DEF ComponentDir
    <3>2. CASE s \notin Workflow BY <1>1, <1>5, <3>2 DEF InServer
    <3> QED BY <3>1, <3>2
  <2> QED BY <2>1, <2>2, <1>4
<1>13. Right(Recipe(n, c))
  <2> HIDE DEF Right
  <2> QED BY <1>7, <1>8, <1>9, <1>10, <1>11, <1>12 DEF Recipe, s
<1> QED BY <1>13

\* A transfer puts one entry, under the component's name, at its destination.
LEMMA TransferIs ==
  ASSUME NEW f, NEW r, NEW c, Leads(f), r.from[3] \in Sources
  PROVE  LET g == Transfer(f, r, c)
         IN /\ Only(f, g, r.to[3]) /\ NewLeads(f, g)
            /\ DOMAIN f \subseteq DOMAIN g
            /\ \A k \in DOMAIN g : k \notin DOMAIN f => k[4] = c /\ k[2] = r.to[2]
<1> DEFINE g == Transfer(f, r, c)
           m == machine(r.ssh)
           there == Exists(f, m, r.from, r.name)
           content == IF r.copy THEN f[At(m, r.from, r.name)] ELSE Link(r.from, r.name)
<1>1. \/ g = f
      \/ g = Put(f, Local, r.to, c, Data)
      \/ there /\ g = Put(f, m, r.to, c, content)
  BY DEF Transfer
<1>2. ASSUME NEW h, NEW x, x = Data \/ x.to[3] \in Sources, g = Put(f, h, r.to, c, x)
      PROVE  /\ Only(f, g, r.to[3]) /\ NewLeads(f, g)
             /\ DOMAIN f \subseteq DOMAIN g
             /\ \A k \in DOMAIN g : k \notin DOMAIN f => k[4] = c /\ k[2] = r.to[2]
  <2> HIDE DEF g
  <2>1. Only(f, g, r.to[3]) /\ NewLeads(f, g) BY <1>2, PutOnly
  <2>2. DOMAIN g = DOMAIN f \cup {At(h, r.to, c)} BY <1>2 DEF Put
  <2> QED BY <2>1, <2>2, KeyIs
<1>3. there => content = Data \/ content.to[3] \in Sources
  <2> SUFFICES ASSUME there PROVE content = Data \/ content.to[3] \in Sources OBVIOUS
  <2>1. At(m, r.from, r.name) \in DOMAIN f BY DEF Exists
  <2>2. f[At(m, r.from, r.name)] = Data \/ f[At(m, r.from, r.name)].to[3] \in Sources BY <2>1 DEF Leads
  <2>3. Link(r.from, r.name).to = r.from BY DEF Link
  <2> QED BY <2>2, <2>3
<1>4. CASE g = f
  <2> HIDE DEF g
  <2>1. Only(f, g, r.to[3]) /\ NewLeads(f, g) BY <1>4, OnlyNone
  <2> QED BY <1>4, <2>1 DEF g
<1> HIDE DEF g, there, content
<1> QED BY <1>1, <1>2, <1>3, <1>4 DEF g

-----------------------------------------------------------------------------
(* What a step leaves alone                                                 *)

\* What a component has, while its own files and those of the sources stay.
LEMMA HasFrame ==
  ASSUME IInv, NEW d \in Consumer, UNCHANGED <<place, options>>, state'[d] = state[d],
         d \in shown => d \in shown', Agree(files, files', {d}),
         state[d] \in {"ready", "running"} => Agree(files, files', Sources)
  PROVE  HasOrWarned(d)'
<1>1. HasOrWarned(d) /\ Leads(files) BY DEF IInv
<1>2. Warned(d) => Warned(d)' BY DEF Warned, mandatory
<1>3. isTask(d)' = isTask(d) /\ isLocal(d)' = isLocal(d) BY DEF isTask, isLocal, host
<1>4. TaskHas(d) /\ state[d] \in {"ready", "running"} => TaskHas(d)'
  <2> SUFFICES ASSUME TaskHas(d), state[d] \in {"ready", "running"} PROVE TaskHas(d)' OBVIOUS
  <2> DEFINE N == {d} \cup Sources
             p == workingDir(d)
  <2>1. Agree(files, files', N) BY DEF Agree
  <2>2. p[3] = d BY DEF workingDir, ComponentDir, RemoteDir, getRemoteWorkingDir
  <2>3. p' = p /\ machine(host(d))' = machine(host(d))
    BY DEF workingDir, ComponentDir, RemoteDir, getRemoteWorkingDir, isLocal, host, machine
  <2>4. Readable(files, machine(host(d)), p, d) BY DEF TaskHas
  <2> HIDE DEF p
  <2>5. Sources \subseteq N /\ p[3] \in N BY <2>2
  <2> HIDE DEF N
  <2>6. Readable(files', machine(host(d)), p, d) BY <1>1, <2>1, <2>4, <2>5, ReadSame
  <2> QED BY <2>3, <2>6 DEF TaskHas, p
<1>5. Stored(d) => Stored(d)'
  <2> DEFINE k == At(machine(host(d)), storagePath(d), d)
  <2>1. k' = k BY DEF At, storagePath, host, machine
  <2>2. k[3] = d BY KeyIs DEF storagePath
  <2> HIDE DEF k
  <2>3. k \in DOMAIN files => k \in DOMAIN files' /\ files'[k] = files[k] BY <2>2 DEF Agree
  <2> QED BY <2>1, <2>3 DEF Stored, k
<1> QED BY <1>1, <1>2, <1>3, <1>4, <1>5 DEF HasOrWarned

LEMMA OnlyAgree ==
  ASSUME NEW f, NEW g, NEW n, NEW N, Only(f, g, n), n \notin N PROVE Agree(f, g, N)
BY DEF Only, Agree

LEMMA NodeIs ==
  ASSUME Types
  PROVE  /\ \A c \in Consumer : c \notin Sources /\ c \in Node \ {Producer}
         /\ Producer \in Node /\ Producer \notin Workflow
         /\ \A w \in Workflow \ {Root} : w \in Node \ {Producer}
BY ConsumerAssumption, WorkflowIs, Ancestors DEF Node, Sources, Producer, Root

\* All but the component's own input, when the producer or a component takes a step.
Others(n) ==
  /\ Types /\ Leads(files) /\ Untouched /\ NoRunDirectory /\ ProducerFirst
  /\ \A d \in Consumer \ {n} : HasOrWarned(d)

LEMMA NodeStep ==
  ASSUME IInv, NEW n \in {Producer} \cup Consumer, NEW s \in States, Change(n, s),
         UNCHANGED <<place, options>>, shown \subseteq shown',
         Only(files, files', n), NewLeads(files, files'),
         n \in Consumer /\ ~isTask(n) => \A k \in DOMAIN files' : k \notin DOMAIN files => k[2] # "run",
         n = Producer => state[Producer] # "finished",
         n \in Consumer /\ s \in {"ready", "running"} => state[Producer] = "finished"
  PROVE  Others(n)'
<1> USE DEF IInv
<1>1. n \notin Workflow /\ n \in Node BY Ancestors, NodeIs
<1>2. /\ Types' /\ state' = [state EXCEPT ![n] = s]
      /\ state'[n] = s /\ \A m \in Node \ {n} : state'[m] = state[m]
  BY <1>1 DEF Types, Change
<1>3. Leads(files') BY LeadsKept
<1>4. Untouched'
  <2> SUFFICES ASSUME NEW k \in DOMAIN files', k[3] \in Workflow PROVE k[3] # Root /\ state'[k[3]] # "waiting"
    BY DEF Untouched
  <2>1. k \in DOMAIN files BY <1>1 DEF Only
  <2>2. k[3] # Root /\ state[k[3]] # "waiting" BY <2>1 DEF Untouched
  <2>3. k[3] \in Node \ {n} BY <1>1, <2>2, NodeIs
  <2> QED BY <1>2, <2>2, <2>3
<1>5. NoRunDirectory'
  <2> SUFFICES ASSUME NEW k \in DOMAIN files', k[3] \in Consumer, k[2] = "run" PROVE isTask(k[3])'
    BY DEF NoRunDirectory
  <2>1. isTask(k[3])
    <3>1. CASE k \in DOMAIN files BY <3>1 DEF NoRunDirectory
    <3>2. CASE k \notin DOMAIN files BY <3>2 DEF Only
    <3> QED BY <3>1, <3>2
  <2> QED BY <2>1 DEF isTask
<1>6. ProducerFirst'
  <2> SUFFICES ASSUME NEW m \in Node \ {Producer}, Begun(m)' PROVE state'[Producer] = "finished"
    BY DEF ProducerFirst
  <2>1. CASE n = Producer
    <3>1. Begun(m) BY <1>2, <2>1 DEF Begun
    <3>2. state[Producer] = "finished" BY <3>1 DEF ProducerFirst
    <3> QED BY <2>1, <3>2
  <2>2. CASE n # Producer
    <3>1. state'[Producer] = state[Producer] BY <1>2, <2>2, NodeIs
    <3>2. state[Producer] = "finished"
      <4>1. CASE m = n BY <1>1, <1>2, <2>2, <4>1 DEF Begun
      <4>2. CASE m # n
        <5>1. Begun(m) BY <1>2, <4>2 DEF Begun
        <5> QED BY <5>1 DEF ProducerFirst
      <4> QED BY <4>1, <4>2
    <3> QED BY <3>1, <3>2
  <2> QED BY <2>1, <2>2
<1>7. ASSUME NEW d \in Consumer \ {n} PROVE HasOrWarned(d)'
  <2>1. state'[d] = state[d] /\ d \notin Sources /\ d \in Node \ {Producer} /\ d \notin Workflow
    BY <1>2, NodeIs, Ancestors
  <2>2. Agree(files, files', {d}) BY OnlyAgree
  <2>3. state[d] \in {"ready", "running"} => Agree(files, files', Sources)
    <3> SUFFICES ASSUME state[d] \in {"ready", "running"} PROVE Agree(files, files', Sources) OBVIOUS
    <3>1. state[Producer] = "finished" BY <2>1 DEF ProducerFirst, Begun
    <3>2. n \in Consumer BY <3>1
    <3> QED BY <3>2, NodeIs, OnlyAgree
  <2> QED BY <2>1, <2>2, <2>3, HasFrame
<1> QED BY <1>2, <1>3, <1>4, <1>5, <1>6, <1>7 DEF Others

LEMMA OthersAll ==
  ASSUME Others(Producer)', Types PROVE IInv'
<1>1. \A c \in Consumer : c # Producer BY NodeIs
<1> QED BY <1>1 DEF Others, IInv

LEMMA OthersOne ==
  ASSUME NEW c, Others(c)', HasOrWarned(c)' PROVE IInv'
BY DEF Others, IInv

\* A component that may begin has the producer behind it.
LEMMA ReadyAfter ==
  ASSUME IInv, NEW c \in Consumer, NEW n, Carrier(n, c), Ready(n, c)
  PROVE  state[Producer] = "finished"
<1> DEFINE s == Src(n, c)
<1>1. s \in Up BY SrcUp DEF IInv
<1>2. CASE s = Producer
  <2>1. s # parent(n)
    <3> SUFFICES ASSUME s = parent(n) PROVE FALSE OBVIOUS
    <3>1. Carrier(Producer, c) BY <1>2, CarrierUp DEF IInv
    <3> QED BY <3>1, NodeIs DEF IInv, Carrier
  <2> QED BY <1>2, <2>1 DEF Ready
<1>3. CASE s # Producer /\ s = parent(n)
  <2>1. s \in Workflow \ {Root} BY <1>1, <1>3 DEF Up, Sources
  <2>2. s \in Node \ {Producer} BY <2>1, NodeIs DEF IInv
  <2>3. state[s] = "running" BY <1>3 DEF Ready
  <2> QED BY <2>1, <2>2, <2>3 DEF IInv, ProducerFirst, Begun
<1>4. CASE s # Producer /\ s # parent(n) BY <1>4 DEF Ready
<1> QED BY <1>2, <1>3, <1>4

-----------------------------------------------------------------------------
(* One step keeps the invariant: the producer                               *)

LEMMA FirstState == Init => IInv
<1> SUFFICES ASSUME Init PROVE IInv OBVIOUS
<1>1. Types BY DEF Init, Types, States
<1>2. \A n \in Node : state[n] = "waiting" BY DEF Init
<1>3. \A k \in DOMAIN files : files[k] = Data /\ k[2] = "storage" /\ k[3] = Producer
  <2>1. CASE isTask(Producer) BY <2>1 DEF Init
  <2>2. CASE ~isTask(Producer)
    <3> DEFINE x == At(machine(host(Producer)), storagePath(Producer), "out")
    <3>1. files = Put(<<>>, machine(host(Producer)), storagePath(Producer), "out", Data) BY <2>2 DEF Init
    <3>2. x[2] = "storage" /\ x[3] = Producer BY KeyIs DEF storagePath
    <3> QED BY <3>1, <3>2 DEF Put
  <2> QED BY <2>1, <2>2
<1>4. Leads(files) BY <1>3 DEF Leads
<1>5. Untouched BY <1>1, <1>3, NodeIs DEF Untouched
<1>6. NoRunDirectory BY <1>3 DEF NoRunDirectory
<1>7. ProducerFirst BY <1>2 DEF ProducerFirst, Begun
<1>8. \A c \in Consumer : HasOrWarned(c) BY <1>1, <1>2, NodeIs DEF HasOrWarned
<1> QED BY <1>1, <1>4, <1>5, <1>6, <1>7, <1>8 DEF IInv

LEMMA ProduceStep == IInv /\ Produce => IInv'
<1> SUFFICES ASSUME IInv, Produce PROVE IInv' OBVIOUS
<1> DEFINE s == IF isTask(Producer) /\ ~isLocal(Producer) THEN "stage-out" ELSE "finished"
<1>1. Change(Producer, s) /\ s \in States /\ UNCHANGED <<place, options, shown>> /\ state[Producer] # "finished"
  BY DEF Produce, States
<1>2. Only(files, files', Producer) /\ NewLeads(files, files')
  <2>1. CASE isTask(Producer)
    <3> DEFINE p == workingDir(Producer)
               m == machine(host(Producer))
    <3>1. p[3] = Producer BY DEF workingDir, ComponentDir, RemoteDir, getRemoteWorkingDir
    <3>2. files' = Put(files, m, p, "out", Data) BY <2>1 DEF Produce
    <3> HIDE DEF p, m
    <3> QED BY <3>1, <3>2, PutOnly
  <2>2. CASE ~isTask(Producer) BY <2>2, OnlyNone DEF Produce
  <2> QED BY <2>1, <2>2
<1>3. Producer \notin Consumer BY NodeIs DEF IInv
<1> HIDE DEF s
<1>4. Others(Producer)' BY <1>1, <1>2, <1>3, NodeStep
<1> QED BY <1>4, OthersAll DEF IInv

LEMMA StageOutStep == IInv /\ StageOut => IInv'
<1> SUFFICES ASSUME IInv, StageOut PROVE IInv' OBVIOUS
<1> DEFINE downloaded == IF needDownload THEN Put(files, Local, ComponentDir(Producer), "out", Data) ELSE files
           kept == getRemoteSymlinkOutputNames
<1>1. /\ Change(Producer, "finished") /\ "finished" \in States /\ UNCHANGED <<place, options, shown>>
      /\ state[Producer] # "finished"
  BY DEF StageOut, States
<1>2. Only(files, downloaded, Producer) /\ NewLeads(files, downloaded)
  <2>1. ComponentDir(Producer)[3] = Producer BY DEF ComponentDir
  <2> QED BY <2>1, PutOnly, OnlyNone
<1>3. \/ files' = downloaded
      \/ files' = Delete(downloaded, machine(host(Producer)), RemoteDir(Producer), kept)
  BY DEF StageOut
<1>4. Only(files, files', Producer) /\ NewLeads(files, files')
  <2>1. RemoteDir(Producer)[3] = Producer BY DEF RemoteDir, getRemoteWorkingDir
  <2> HIDE DEF downloaded, kept
  <2>2. CASE files' = downloaded BY <1>2, <2>2
  <2>3. CASE files' = Delete(downloaded, machine(host(Producer)), RemoteDir(Producer), kept)
    <3>1. Only(downloaded, files', Producer) /\ NewLeads(downloaded, files') BY <2>1, <2>3, DeleteOnly
    <3> QED BY <1>2, <3>1, OnlyTwice
  <2> QED BY <1>3, <2>2, <2>3
<1>5. Producer \notin Consumer BY NodeIs DEF IInv
<1>6. Others(Producer)' BY <1>1, <1>4, <1>5, NodeStep
<1> QED BY <1>6, OthersAll DEF IInv

\* The deferred cleanup comes when no component reads any more.
LEMMA runDeferredCleanupsStep == IInv /\ runDeferredCleanups => IInv'
<1> SUFFICES ASSUME IInv, runDeferredCleanups PROVE IInv' OBVIOUS
<1>1. UNCHANGED <<place, options, state, shown>> /\ \A c \in Consumer : state[c] \in {"finished", "failed"}
  BY DEF runDeferredCleanups
<1>2. Only(files, files', Producer) /\ \A k \in DOMAIN files' : k \in DOMAIN files /\ files'[k] = files[k]
  <2> DEFINE p == RemoteDir(Producer)
             m == machine(host(Producer))
  <2>1. p[3] = Producer BY DEF RemoteDir, getRemoteWorkingDir
  <2>2. files' = files \/ files' = Delete(files, m, p, {}) BY DEF runDeferredCleanups
  <2> HIDE DEF p, m
  <2>3. CASE files' = files BY <2>3, OnlyNone
  <2>4. CASE files' = Delete(files, m, p, {}) BY <2>1, <2>4, DeleteIs DEF Only
  <2> QED BY <2>2, <2>3, <2>4
<1>3. Types' BY <1>1 DEF IInv, Types
<1>4. Leads(files)' BY <1>2 DEF IInv, Leads
<1>5. Untouched' BY <1>1, <1>2 DEF IInv, Untouched
<1>6. NoRunDirectory' BY <1>1, <1>2 DEF IInv, NoRunDirectory, isTask
<1>7. ProducerFirst' BY <1>1 DEF IInv, ProducerFirst, Begun
<1>8. ASSUME NEW c \in Consumer PROVE HasOrWarned(c)'
  <2>1. c # Producer BY NodeIs DEF IInv, Sources
  <2>2. Agree(files, files', {c}) BY <1>2, <2>1, OnlyAgree
  <2> QED BY <1>1, <2>2, HasFrame
<1> QED BY <1>3, <1>4, <1>5, <1>6, <1>7, <1>8 DEF IInv

-----------------------------------------------------------------------------
(* One step keeps the invariant: workflows and components                   *)

LEMMA DispatchWorkflowStep ==
  ASSUME NEW w \in Workflow \ {Root} PROVE IInv /\ DispatchWorkflow(w) => IInv'
<1> SUFFICES ASSUME IInv, DispatchWorkflow(w) PROVE IInv' OBVIOUS
<1> DEFINE C == {c \in Consumer : w \in HoldersOf(c) /\ Carries(w, c)}
           received(c) == Transfer(files, Recipe(w, c), c)
<1>1. /\ UNCHANGED <<place, options, shown>> /\ Change(w, "running") /\ state[w] = "waiting"
      /\ C # {} /\ \A c \in C : Ready(w, c)
      /\ files' = [k \in UNION {DOMAIN received(c) : c \in C} |->
                     IF k[4] \in C THEN received(k[4])[k] ELSE files[k]]
  BY DEF DispatchWorkflow
<1>2. \A c \in C : Carrier(w, c) BY DEF Carrier
<1>3. ASSUME NEW c \in C
      PROVE  /\ Only(files, received(c), w) /\ NewLeads(files, received(c))
             /\ DOMAIN files \subseteq DOMAIN received(c)
             /\ \A k \in DOMAIN received(c) : k \notin DOMAIN files => k[4] = c
  <2>1. Carrier(w, c) /\ c \in Consumer BY <1>2
  <2>2. Recipe(w, c).to[3] = w /\ Recipe(w, c).from[3] \in Sources BY <2>1, RecipeIs DEF IInv
  <2> QED BY <2>2, TransferIs DEF IInv
<1>4. \A k \in DOMAIN files : k[3] # w BY <1>1 DEF IInv, Untouched
<1> HIDE DEF received
<1>5. ASSUME NEW k \in DOMAIN files PROVE k \in DOMAIN files' /\ files'[k] = files[k]
  <2>1. k \in DOMAIN files' BY <1>1, <1>3
  <2>2. k[4] \in C => received(k[4])[k] = files[k] BY <1>3, <1>4 DEF Only
  <2> QED BY <1>1, <2>1, <2>2
<1>6. ASSUME NEW k \in DOMAIN files', k \notin DOMAIN files
      PROVE  k[3] = w /\ (files'[k] = Data \/ files'[k].to[3] \in Sources)
  <2>1. PICK c \in C : k \in DOMAIN received(c) BY <1>1
  <2>2. k[4] = c BY <1>3, <1>6, <2>1
  <2>3. files'[k] = received(c)[k] BY <1>1, <2>1, <2>2
  <2> QED BY <1>3, <1>6, <2>1, <2>3 DEF Only, NewLeads
<1>7. /\ w \in Node \ {Producer} /\ \A c \in Consumer : c # w /\ c \in Node
      /\ state' = [state EXCEPT ![w] = "running"]
      /\ state \in [Node -> States]
  BY <1>1, NodeIs DEF IInv, Change, Types, Sources
<1>8. state'[w] = "running" /\ \A n \in Node \ {w} : state'[n] = state[n] BY <1>7
<1>9. state[Producer] = "finished"
  <2>1. PICK c \in C : TRUE BY <1>1
  <2> QED BY <1>1, <1>2, <2>1, ReadyAfter
<1>10. Types' BY <1>1, <1>7 DEF IInv, Types, States
<1>11. Leads(files)' BY <1>5, <1>6 DEF IInv, Leads
<1>12. Untouched'
  <2> SUFFICES ASSUME NEW k \in DOMAIN files', k[3] \in Workflow PROVE k[3] # Root /\ state'[k[3]] # "waiting"
    BY DEF Untouched
  <2>1. CASE k \in DOMAIN files
    <3>1. k[3] # Root /\ state[k[3]] # "waiting" BY <2>1 DEF IInv, Untouched
    <3>2. k[3] \in Node BY <3>1, NodeIs DEF IInv
    <3> QED BY <1>8, <3>1, <3>2
  <2>2. CASE k \notin DOMAIN files BY <1>6, <1>8, <2>2
  <2> QED BY <2>1, <2>2
<1>13. NoRunDirectory' BY <1>1, <1>5, <1>6, <1>7 DEF IInv, NoRunDirectory, isTask
<1>14. ProducerFirst'
  <2>1. state'[Producer] = "finished" BY <1>7, <1>8, <1>9, NodeIs DEF IInv
  <2> QED BY <2>1 DEF ProducerFirst
<1>15. ASSUME NEW c \in Consumer PROVE HasOrWarned(c)'
  <2>1. \A N : Agree(files, files', N) BY <1>5 DEF Agree
  <2>2. state'[c] = state[c] BY <1>7, <1>8
  <2> QED BY <1>1, <2>1, <2>2, HasFrame
<1> QED BY <1>10, <1>11, <1>12, <1>13, <1>14, <1>15 DEF IInv

LEMMA Stutters ==
  ASSUME IInv, UNCHANGED <<place, options, state, files, shown>> PROVE IInv'
<1>1. Types' /\ Leads(files)' /\ Untouched' /\ NoRunDirectory' /\ ProducerFirst'
  BY DEF IInv, Types, Leads, Untouched, NoRunDirectory, ProducerFirst, isTask, Begun
<1>2. \A N : Agree(files, files', N) BY DEF Agree
<1>3. \A c \in Consumer : HasOrWarned(c)' BY <1>2, HasFrame
<1> QED BY <1>1, <1>3 DEF IInv

\* A component that has its own files and no one else's changed.
LEMMA DispatchStep ==
  ASSUME NEW c \in Consumer PROVE IInv /\ Dispatch(c) => IInv'
<1> SUFFICES ASSUME IInv, Dispatch(c) PROVE IInv' OBVIOUS
<1> DEFINE r == Recipe(c, c)
           s == IF _checkMandatoryInputFilesExist(files', c) THEN "ready" ELSE "failed"
<1>1. /\ UNCHANGED <<place, options>> /\ files' = Transfer(files, r, c) /\ Ready(c, c)
      /\ shown' = shown \cup _warnMissingInputFiles(files', c)
      /\ Change(c, s) /\ s \in States
  BY DEF Dispatch, States
<1>2. Carrier(c, c) BY DEF Carrier
<1>3. r.to[3] = c /\ r.from[3] \in Sources /\ (r.to[2] = "run" => isTask(c)) BY <1>2, RecipeIs DEF IInv
<1>4. state[Producer] = "finished" BY <1>1, <1>2, ReadyAfter
<1> HIDE DEF r
<1>5. /\ Only(files, files', c) /\ NewLeads(files, files')
      /\ \A k \in DOMAIN files' : k \notin DOMAIN files => k[2] = r.to[2]
  BY <1>1, <1>3, TransferIs DEF IInv
<1>6. c # Producer BY NodeIs DEF IInv, Sources
<1>7. ~isTask(c) => \A k \in DOMAIN files' : k \notin DOMAIN files => k[2] # "run" BY <1>3, <1>5
<1> HIDE DEF s
<1>8. Others(c)' BY <1>1, <1>4, <1>5, <1>6, <1>7, NodeStep
<1>9. state'[c] = s BY <1>1, NodeIs DEF IInv, Types, Change
<1>10. s \in {"ready", "failed"} BY DEF s
<1>11. s = "ready" => Found(files', c) \/ Warned(c)'
  <2>1. s = "ready" => (mandatory => Found(files', c)) BY DEF s, _checkMandatoryInputFilesExist
  <2>2. ~mandatory /\ ~Found(files', c) => c \in shown' BY <1>1 DEF _warnMissingInputFiles
  <2>3. mandatory' = mandatory BY <1>1 DEF mandatory
  <2> QED BY <2>1, <2>2, <2>3 DEF Warned
<1>12. /\ workingDir(c)' = workingDir(c) /\ machine(host(c))' = machine(host(c))
       /\ isTask(c)' = isTask(c) /\ isLocal(c)' = isLocal(c)
  BY <1>1 DEF workingDir, ComponentDir, RemoteDir, getRemoteWorkingDir, isLocal, host, machine, isTask
<1>13. s = "ready" => TaskHas(c)' \/ Warned(c)' BY <1>11, <1>12 DEF Found, TaskHas
<1>14. ~isTask(c) /\ ~isLocal(c) => ~Found(files', c)
  <2> SUFFICES ASSUME ~isTask(c), ~isLocal(c), Found(files', c) PROVE FALSE OBVIOUS
  <2> DEFINE k == At(machine(host(c)), RemoteDir(c), c)
  <2>1. k \in DOMAIN files' BY ReadStart DEF Found, workingDir
  <2>2. k[2] = "run" /\ k[3] = c BY KeyIs DEF RemoteDir, getRemoteWorkingDir
  <2>3. NoRunDirectory' BY <1>8 DEF Others
  <2> HIDE DEF k
  <2> QED BY <1>12, <2>1, <2>2, <2>3 DEF NoRunDirectory
<1>15. HasOrWarned(c)' BY <1>9, <1>10, <1>11, <1>12, <1>13, <1>14 DEF HasOrWarned
<1> QED BY <1>8, <1>15, OthersOne

LEMMA Settings ==
  ASSUME Types, NEW c \in Consumer
  PROVE  /\ ~isLocal(c) => Mounted(machine(host(c)), RemoteDir(c))
         /\ Mounted(machine(host(c)), storagePath(c))
<1>1. c \notin Workflow /\ host(c) \in Label \cup {Local} BY Ancestors DEF Types, host
<1>2. ASSUME ~isLocal(c) PROVE Mounted(machine(host(c)), RemoteDir(c))
  <2>1. host(c) \in Label /\ host(c) # Local BY <1>1, <1>2 DEF isLocal
  <2>2. RemoteDir(c)[1] = Info[host(c)].path BY DEF RemoteDir, getRemoteWorkingDir
  <2> QED BY <2>1, <2>2, MountAssumption DEF Mounted, machine
<1>3. Mounted(machine(host(c)), storagePath(c))
  <2>1. storagePath(c)[1] = StorageBase[host(c)] BY DEF storagePath
  <2>2. CASE host(c) = Local BY <2>1, <2>2, MountAssumption DEF Mounted, machine
  <2>3. CASE host(c) # Local BY <1>1, <2>1, <2>3, MountAssumption DEF Mounted, machine
  <2> QED BY <2>2, <2>3
<1> QED BY <1>2, <1>3

LEMMA StageInStep ==
  ASSUME NEW c \in Consumer PROVE IInv /\ StageIn(c) => IInv'
<1> SUFFICES ASSUME IInv, StageIn(c) PROVE IInv' OBVIOUS
<1> DEFINE m == machine(host(c))
           p == RemoteDir(c)
<1>1. /\ UNCHANGED <<place, options, shown>> /\ Change(c, "running") /\ "running" \in States
      /\ isTask(c) /\ state[c] = "ready"
  BY DEF StageIn, States
<1>2. files' = files \/ (~isLocal(c) /\ files' = Put(files, m, p, c, Data)) BY DEF StageIn
<1>3. p[3] = c BY DEF RemoteDir, getRemoteWorkingDir
<1>4. Only(files, files', c) /\ NewLeads(files, files')
  <2> HIDE DEF m, p
  <2> QED BY <1>2, <1>3, PutOnly, OnlyNone
<1>5. c # Producer /\ c \in Node \ {Producer} /\ c \notin Workflow BY NodeIs DEF IInv, Sources
<1>6. state[Producer] = "finished" BY <1>1, <1>5 DEF IInv, ProducerFirst, Begun
<1>7. Others(c)' BY <1>1, <1>4, <1>5, <1>6, NodeStep
<1>8. TaskHas(c) \/ Warned(c) BY <1>1 DEF IInv, HasOrWarned
<1>9. Warned(c) => Warned(c)' BY <1>1 DEF Warned, mandatory
<1>10. /\ workingDir(c)' = workingDir(c) /\ machine(host(c))' = machine(host(c)) /\ isTask(c)' = isTask(c)
  BY <1>1 DEF workingDir, ComponentDir, RemoteDir, getRemoteWorkingDir, isLocal, host, machine, isTask
<1>11. TaskHas(c) => TaskHas(c)'
  <2>1. CASE files' = files BY <1>10, <2>1 DEF TaskHas
  <2>2. CASE ~isLocal(c) /\ files' = Put(files, m, p, c, Data)
    <3>1. Mounted(m, p) BY <2>2, Settings DEF IInv
    <3>2. At(m, p, c) \in DOMAIN files' /\ files'[At(m, p, c)] = Data
      <4> HIDE DEF m, p
      <4> QED BY <2>2 DEF Put
    <3>3. Readable(files', m, p, c)
      <4> HIDE DEF m, p
      <4> QED BY <3>1, <3>2, ReadData
    <3> QED BY <1>10, <2>2, <3>3 DEF TaskHas, workingDir
  <2> QED BY <1>2, <2>1, <2>2
<1>12. HasOrWarned(c)' BY <1>1, <1>8, <1>9, <1>10, <1>11 DEF HasOrWarned
<1> QED BY <1>7, <1>12, OthersOne

LEMMA TaskEndsStep ==
  ASSUME NEW c \in Consumer PROVE IInv /\ TaskEnds(c) => IInv'
<1> SUFFICES ASSUME IInv, TaskEnds(c) PROVE IInv' OBVIOUS
<1> DEFINE m == machine(host(c))
           p == RemoteDir(c)
<1>1. /\ UNCHANGED <<place, options, shown>> /\ Change(c, "finished") /\ "finished" \in States /\ isTask(c)
  BY DEF TaskEnds, States
<1>2. files' = files \/ files' = Delete(files, m, p, {}) BY DEF TaskEnds
<1>3. p[3] = c BY DEF RemoteDir, getRemoteWorkingDir
<1>4. Only(files, files', c) /\ NewLeads(files, files')
  <2> HIDE DEF m, p
  <2> QED BY <1>2, <1>3, DeleteOnly, OnlyNone
<1>5. c # Producer BY NodeIs DEF IInv, Sources
<1>6. Others(c)' BY <1>1, <1>4, <1>5, NodeStep
<1>7. state'[c] = "finished" /\ isTask(c)' BY <1>1, NodeIs DEF IInv, Types, Change, isTask
<1>8. HasOrWarned(c)' BY <1>7 DEF HasOrWarned
<1> QED BY <1>6, <1>8, OthersOne

LEMMA _storageHandlerStep ==
  ASSUME NEW c \in Consumer PROVE IInv /\ _storageHandler(c) => IInv'
<1> SUFFICES ASSUME IInv, _storageHandler(c) PROVE IInv' OBVIOUS
<1> DEFINE m == machine(host(c))
           q == ComponentDir(c)
           p == storagePath(c)
           there == Readable(files, Local, q, c)
           stored == IF there THEN Put(files, m, p, c, Data) ELSE files
<1>1. UNCHANGED <<place, options, shown>> /\ ~isTask(c) /\ state[c] = "ready" BY DEF _storageHandler
<1>2. PICK s \in {"finished", "failed"} :
        /\ s = "failed" \/ there \/ ~isLocal(c)
        /\ Change(c, s)
        /\ files' = IF s = "finished" THEN Delete(stored, Local, q, {}) ELSE stored
  BY DEF _storageHandler
<1>3. p[2] = "storage" /\ p[3] = c /\ q[2] = "project" /\ q[3] = c BY DEF storagePath, ComponentDir
<1> HIDE DEF there
<1>4. Only(files, stored, c) /\ NewLeads(files, stored)
  <2> HIDE DEF m, p
  <2> QED BY <1>3, PutOnly, OnlyNone
<1>5. \A k \in DOMAIN stored : k \notin DOMAIN files => k[2] = "storage"
  <2> HIDE DEF m, p
  <2> QED BY <1>3, KeyIs DEF Put
<1>6. /\ Only(files, files', c) /\ NewLeads(files, files')
      /\ \A k \in DOMAIN files' : k \notin DOMAIN files => k[2] = "storage"
  <2> HIDE DEF stored, q
  <2>1. CASE s = "failed" BY <1>2, <1>4, <1>5, <2>1
  <2>2. CASE s = "finished"
    <3>1. files' = Delete(stored, Local, q, {}) BY <1>2, <2>2
    <3>2. Only(stored, files', c) /\ NewLeads(stored, files') BY <1>3, <3>1, DeleteOnly
    <3>3. DOMAIN files' \subseteq DOMAIN stored BY <3>1, DeleteIs
    <3> QED BY <1>4, <1>5, <3>2, <3>3, OnlyTwice
  <2> QED BY <2>1, <2>2
<1>7. c # Producer BY NodeIs DEF IInv, Sources
<1>8. s \in States BY DEF States
<1>9. Others(c)' BY <1>1, <1>2, <1>6, <1>7, <1>8, NodeStep
<1>10. state'[c] = s /\ isTask(c)' = isTask(c) BY <1>1, <1>2, NodeIs DEF IInv, Types, Change, isTask
<1>11. Warned(c) => Warned(c)' BY <1>1 DEF Warned, mandatory
<1>12. there /\ s = "finished" => Stored(c)'
  <2> SUFFICES ASSUME there, s = "finished" PROVE Stored(c)' OBVIOUS
  <2> DEFINE k == At(m, p, c)
  <2>1. k \in DOMAIN stored /\ stored[k] = Data
    <3> HIDE DEF m, p
    <3> QED BY DEF Put
  <2>2. k[2] = "storage" BY <1>3, KeyIs
  <2>3. files' = Delete(stored, Local, q, {}) BY <1>2
  <2>4. k' = k BY <1>1 DEF At, storagePath, host, machine
  <2> HIDE DEF k, stored, q
  <2>5. k \in DOMAIN files' /\ files'[k] = Data BY <1>3, <2>1, <2>2, <2>3, DeleteIs
  <2> QED BY <2>4, <2>5 DEF Stored, k
<1>13. ~isLocal(c) => Warned(c) BY <1>1 DEF IInv, HasOrWarned
<1>14. HasOrWarned(c)' BY <1>1, <1>2, <1>10, <1>11, <1>12, <1>13 DEF HasOrWarned
<1> QED BY <1>9, <1>14, OthersOne

-----------------------------------------------------------------------------
LEMMA NextKeeps == IInv /\ [Next]_vars => IInv'
<1> SUFFICES ASSUME IInv, [Next]_vars PROVE IInv' OBVIOUS
<1>1. CASE Produce BY <1>1, ProduceStep
<1>2. CASE StageOut BY <1>2, StageOutStep
<1>3. CASE \E w \in Workflow \ {Root} : DispatchWorkflow(w) BY <1>3, DispatchWorkflowStep
<1>4. ASSUME NEW c \in Consumer,
             Dispatch(c) \/ DeliveryFails(c) \/ StageIn(c) \/ TaskEnds(c) \/ _storageHandler(c)
      PROVE  IInv'
  <2>1. CASE Dispatch(c) BY <2>1, DispatchStep
  <2>2. CASE DeliveryFails(c)
    <3>1. UNCHANGED <<place, options, state, files, shown>> BY <2>2 DEF DeliveryFails
    <3> QED BY <3>1, Stutters
  <2>3. CASE StageIn(c) BY <2>3, StageInStep
  <2>4. CASE TaskEnds(c) BY <2>4, TaskEndsStep
  <2>5. CASE _storageHandler(c) BY <2>5, _storageHandlerStep
  <2> QED BY <1>4, <2>1, <2>2, <2>3, <2>4, <2>5
<1>5. CASE runDeferredCleanups BY <1>5, runDeferredCleanupsStep
<1>6. CASE UNCHANGED vars
  <2>1. UNCHANGED <<place, options, state, files, shown>> BY <1>6 DEF vars
  <2> QED BY <2>1, Stutters
<1> QED BY <1>1, <1>2, <1>3, <1>4, <1>5, <1>6 DEF Next

LEMMA IInvGives == IInv => Told
<1> SUFFICES ASSUME IInv, NEW c \in Consumer, Started(c), ~Has(c) PROVE ~mandatory /\ c \in shown
  BY DEF Told
<1>1. HasOrWarned(c) BY DEF IInv
<1>2. CASE isTask(c)
  <2>1. state[c] = "running" BY <1>2 DEF Started
  <2>2. ~TaskHas(c) BY <1>2 DEF Has, TaskHas
  <2> QED BY <1>1, <1>2, <2>1, <2>2 DEF HasOrWarned, Warned
<1>3. CASE ~isTask(c)
  <2> DEFINE m == machine(host(c))
             p == storagePath(c)
  <2>1. state[c] = "finished" BY <1>3 DEF Started
  <2>2. ~Readable(files, m, p, c) BY <1>3 DEF Has
  <2>3. Mounted(m, p) BY Settings DEF IInv
  <2>4. ~Stored(c)
    <3> SUFFICES ASSUME Stored(c) PROVE FALSE OBVIOUS
    <3>1. At(m, p, c) \in DOMAIN files /\ files[At(m, p, c)] = Data BY DEF Stored
    <3> HIDE DEF m, p
    <3> QED BY <2>2, <2>3, <3>1, ReadData
  <2> QED BY <1>1, <1>3, <2>1, <2>4 DEF HasOrWarned, Warned
<1> QED BY <1>2, <1>3

\* Whatever the hosts, what they share, their mounts and the tree the components
\* are in: a component that _dispatch() lets begin has its input on the machine
\* where it reads it, as long as it works, or the user has been warned and the
\* input is not mandatory.  No stage-out, cleanup or delivery of another takes it.
THEOREM InputKept == Spec => []Told
<1>1. Init => IInv BY FirstState
<1>2. IInv /\ [Next]_vars => IInv' BY NextKeeps
<1>3. IInv => Told BY IInvGives
<1> QED BY <1>1, <1>2, <1>3, PTL DEF Spec
=============================================================================
