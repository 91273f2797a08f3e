---------------------------- MODULE FileDelivery ----------------------------
(***************************************************************************)
(* How the output file of a producer gets to the components that take it   *)
(* as input: as a link, a copy, a download followed by an upload, or a     *)
(* link made on a remote host.  Which one depends on the hosts of the two, *)
(* on the storage the hosts share, and on the workflows between them; the  *)
(* producer's stage-out and its cleanup decide the same question again.    *)
(* A path means nothing without the machine it is looked up on.            *)
(***************************************************************************)
EXTENDS Naturals, FiniteSets, Functions, Sequences

CONSTANTS
  Label,       \* names of the remote hosts
  Info,        \* their settings, by label
  Mount,       \* file systems by machine and by the path they are mounted on
  ProjectBase, \* where the server keeps the project
  StorageBase, \* where a storage component keeps its files, by host
  Local,       \* the server
  Unset,       \* a setting that is not given
  Consumer     \* components that take the file

ASSUME InfoAssumption ==
  Info \in [Label -> [host : DOMAIN Mount, path : STRING, sharedHost : Label \cup {Unset},
                      sharedPath : STRING, sharedWithLocalhost : BOOLEAN, localSharedPath : STRING]]
\* Where the program makes a directory there is a file system.
ASSUME MountAssumption ==
  /\ ProjectBase \in DOMAIN Mount[Local]
  /\ \A h \in Label : Info[h].path \in DOMAIN Mount[Info[h].host]
                      /\ StorageBase[h] \in DOMAIN Mount[Info[h].host]
  /\ StorageBase[Local] \in DOMAIN Mount[Local]
ASSUME ConsumerAssumption == Consumer \cap {"producer", "out", "root", "upper", "lower", "other"} = {}
ASSUME LocalAssumption == Local \notin Label /\ Local \in DOMAIN Mount

VARIABLES
  place,    \* type, host and parent of the producer and of the consumers
  options,  \* subset of {"doCleanup", "forceCopy", "mandatory"}
  state,    \* of the producer, the consumers, and the workflows that carry the file
  files,    \* content by file system, directory and name
  shown,    \* consumers the user was shown a message about
  deferred, \* has the producer left something for runDeferredCleanups?
  run       \* "going", "error", "over"

vars == <<place, options, state, files, shown, deferred, run>>

Producer == "producer"
Root == "root"

\* The workflows of the project, each with those that hold it.
Holders == [root |-> {}, upper |-> {Root}, lower |-> {Root, "upper"}, other |-> {Root}]
Workflow == DOMAIN Holders
Node == {Producer} \cup Consumer \cup (Workflow \ {Root})

-----------------------------------------------------------------------------
(* The workflows between producer and consumer *)

innermost(W) == CHOOSE w \in W : \A v \in W : Cardinality(Holders[v]) <= Cardinality(Holders[w])
HoldersOf(n) ==
  IF n \in Workflow THEN Holders[n] ELSE {place[n].parent} \cup Holders[place[n].parent]
parent(n) == innermost(HoldersOf(n))

\* The workflow in which the two chains of links meet, and the last link on each side.
Meeting(c) == innermost(HoldersOf(Producer) \cap HoldersOf(c))
Below(n, w) == CHOOSE v \in {n} \cup HoldersOf(n) : v # Root /\ parent(v) = w
Exit(c) == Below(Producer, Meeting(c))
Entrance(c) == Below(c, Meeting(c))

\* inputFiles[].src of the node that carries the input of c, with the name at the source
Carries(n, c) == n = c \/ (n \in HoldersOf(c) /\ Meeting(c) \in HoldersOf(n))
Src(n, c) == IF n = Entrance(c) THEN Exit(c) ELSE parent(n)
SrcName(n, c) == IF n = Entrance(c) THEN "out" ELSE c

\* outputFiles[].dst of the producer, outputFiles[].origin of a workflow
Dst == {IF Exit(c) = Producer THEN Entrance(c) ELSE parent(Producer) : c \in Consumer}
Origin(w) == Below(Producer, w)

-----------------------------------------------------------------------------
(* Hosts *)

host(n) == IF n \in Workflow THEN Local ELSE place[n].host
isLocal(n) == host(n) = Local
hasStoragePath(n) == n \notin Workflow /\ place[n].type = "storage"
machine(h) == IF h = Local THEN Local ELSE Info[h].host

isSameRemoteHost(src, dst) ==
  LET s == Info[host(src)]
      d == Info[host(dst)]
  IN CASE isLocal(src) /\ isLocal(dst) -> FALSE
       [] isLocal(src) /\ ~isLocal(dst) -> d.sharedWithLocalhost
       [] ~isLocal(src) /\ isLocal(dst) -> s.sharedWithLocalhost
       [] OTHER -> host(src) = host(dst) \/ d.sharedHost = host(src) \/ s.host = d.host

-----------------------------------------------------------------------------
(* Paths: the mount point they begin with, then "project", "run" (named by *)
(* the start time of the run) or "storage", then a component's directory   *)

ComponentDir(n) == <<ProjectBase, "project", n>>
storagePath(n) == <<StorageBase[host(n)], "storage", n>>

getRemoteWorkingDir(n, component, isSharedHost) ==
  LET info == Info[host(component)]
  IN <<IF isSharedHost THEN info.sharedPath ELSE info.path, "run", n>>
RemoteDir(n) == getRemoteWorkingDir(n, n, FALSE)

translateSharedPath(p, fromBase, toBase) ==
  IF p[1] = fromBase THEN [p EXCEPT ![1] = toBase] ELSE p

Mounted(m, p) == p[1] \in DOMAIN Mount[m]
At(m, p, name) == <<Mount[m][p[1]], p[2], p[3], name>>

Data == [to |-> <<>>, name |-> ""]
Link(p, name) == [to |-> p, name |-> name]

\* Is there an entry, maybe a dangling link, and does it lead to the data?
Exists(f, m, p, name) == Mounted(m, p) /\ At(m, p, name) \in DOMAIN f
Follow(f, m, q) ==
  IF Exists(f, m, q[1], q[2]) /\ f[At(m, q[1], q[2])] # Data
  THEN LET link == f[At(m, q[1], q[2])] IN <<link.to, link.name>>
  ELSE q
Readable(f, m, p, name) ==
  LET end == Follow(f, m, Follow(f, m, Follow(f, m, Follow(f, m, <<p, name>>))))
  IN Exists(f, m, end[1], end[2]) /\ f[At(m, end[1], end[2])] = Data

Put(f, m, p, name, content) ==
  LET k == At(m, p, name) IN [x \in DOMAIN f \cup {k} |-> IF x = k THEN content ELSE f[x]]
Delete(f, m, p, Keep) ==
  Restrict(f, {k \in DOMAIN f : k[1] # Mount[m][p[1]] \/ k[2] # p[2] \/ k[3] # p[3] \/ k[4] \in Keep})

-----------------------------------------------------------------------------
(* _getInputFiles: the recipe for the input of c at node n.  "ssh" is the  *)
(* host commands are sent to.                                              *)

forceCopy(s) == hasStoragePath(s) \/ "forceCopy" \in options

\* Under two labels of one host, the source's work directory is the destination's sharedPath.
RemoteSource(s, n) ==
  IF hasStoragePath(s) THEN storagePath(s) ELSE getRemoteWorkingDir(s, n, host(s) # host(n))

FromParent(s, n, c) ==
  [via |-> IF isSameRemoteHost(s, n) THEN "onSameRemote" ELSE "local", ssh |-> host(s),
   from |-> ComponentDir(Src(s, c)), name |-> SrcName(s, c), to |-> ComponentDir(n), copy |-> FALSE]

LocalToRemoteShared(s, n) ==
  [via |-> "localToRemoteShared", ssh |-> host(n),
   from |-> translateSharedPath(IF hasStoragePath(s) THEN storagePath(s) ELSE ComponentDir(s),
                                Info[host(n)].localSharedPath, Info[host(n)].sharedPath),
   name |-> "out", to |-> IF hasStoragePath(n) THEN storagePath(n) ELSE RemoteDir(n), copy |-> forceCopy(s)]

RemoteToLocalShared(s, n) ==
  [via |-> "remoteToLocalShared", ssh |-> Local,
   from |-> translateSharedPath(IF hasStoragePath(s) THEN storagePath(s) ELSE RemoteDir(s),
                                Info[host(s)].sharedPath, Info[host(s)].localSharedPath),
   name |-> "out", to |-> IF hasStoragePath(n) THEN storagePath(n) ELSE ComponentDir(n), copy |-> forceCopy(s)]

OnSameRemote(s, n) ==
  [via |-> "onSameRemote", ssh |-> host(s), from |-> RemoteSource(s, n),
   name |-> "out", to |-> IF hasStoragePath(n) THEN storagePath(n) ELSE RemoteDir(n), copy |-> forceCopy(s)]

RemoteToLocal(s, n) ==
  [via |-> "remoteToLocal", ssh |-> host(s), from |-> storagePath(s),
   name |-> "out", to |-> IF hasStoragePath(n) THEN storagePath(n) ELSE ComponentDir(n), copy |-> TRUE]

\* A workflow's own directory is not looked into, but that of the child the file is from.
InServer(s, n) ==
  [via |-> "local", ssh |-> Local,
   from |-> CASE s \in Workflow -> ComponentDir(Origin(s))
              [] hasStoragePath(s) -> storagePath(s)
              [] OTHER -> ComponentDir(s),
   name |-> "out", to |-> ComponentDir(n), copy |-> s \notin Workflow /\ forceCopy(s)]

Recipe(n, c) ==
  LET s == Src(n, c)
  IN CASE s = parent(n) -> FromParent(s, n, c)
       [] s # parent(n) /\ isSameRemoteHost(s, n) ->
            IF isLocal(s) THEN LocalToRemoteShared(s, n)
            ELSE IF isLocal(n) THEN RemoteToLocalShared(s, n)
            ELSE OnSameRemote(s, n)
       [] s # parent(n) /\ ~isSameRemoteHost(s, n) ->
            IF ~isLocal(s) /\ hasStoragePath(s) THEN RemoteToLocal(s, n) ELSE InServer(s, n)

-----------------------------------------------------------------------------
(* deliverFile.js: does the delivery succeed, and the files afterwards     *)

deliverFilesOnRemote(f, r) ==
  /\ r.ssh # Local \* getSsh throws
  /\ Exists(f, machine(r.ssh), r.from, r.name)
  /\ Mounted(machine(r.ssh), r.to)

deliverFilesLocalToRemoteShared(f, r) ==
  Exists(f, machine(r.ssh), r.from, r.name) /\ Mounted(machine(r.ssh), r.to)

deliverFilesRemoteToLocalShared(f, r) == Exists(f, Local, r.from, r.name)

deliverFilesFromRemote(f, r) ==
  Readable(f, machine(r.ssh), r.from, r.name) /\ Mounted(Local, r.to)

Succeeds(f, r) ==
  CASE r.via = "onSameRemote" -> deliverFilesOnRemote(f, r)
    [] r.via = "localToRemoteShared" -> deliverFilesLocalToRemoteShared(f, r)
    [] r.via = "remoteToLocalShared" -> deliverFilesRemoteToLocalShared(f, r)
    [] r.via = "remoteToLocal" -> deliverFilesFromRemote(f, r)
    [] r.via = "local" -> TRUE \* also when the glob matches nothing

\* What is put at the destination: the data, a copy of the entry, or a link to it.
Transfer(f, r, c) ==
  LET m == machine(r.ssh)
      there == Exists(f, m, r.from, r.name)
  IN CASE ~Succeeds(f, r) -> f
       [] Succeeds(f, r) /\ r.via = "remoteToLocal" -> Put(f, Local, r.to, c, Data)
       [] Succeeds(f, r) /\ r.via # "remoteToLocal" ->
            IF there THEN Put(f, m, r.to, c, IF r.copy THEN f[At(m, r.from, r.name)] ELSE Link(r.from, r.name))
            ELSE f

-----------------------------------------------------------------------------
isTask(n) == place[n].type = "task"
workingDir(n) == IF isLocal(n) THEN ComponentDir(n) ELSE RemoteDir(n)

Init ==
  /\ place \in [{Producer} \cup Consumer -> [type : {"task", "storage"}, host : Label \cup {Local}, parent : Workflow]]
  /\ options \in SUBSET {"doCleanup", "forceCopy", "mandatory"}
  /\ state = [n \in Node |-> "waiting"]
  /\ files = IF isTask(Producer) THEN <<>>
             ELSE Put(<<>>, machine(host(Producer)), storagePath(Producer), "out", Data)
  /\ shown = {}
  /\ deferred = FALSE
  /\ run = "going"

Change(n, s) == state' = [state EXCEPT ![n] = s]

-----------------------------------------------------------------------------
(* The producer *)

Produce ==
  /\ run = "going" /\ state[Producer] = "waiting"
  /\ files' = IF isTask(Producer) THEN Put(files, machine(host(Producer)), workingDir(Producer), "out", Data)
              ELSE files
  /\ Change(Producer, IF isTask(Producer) /\ ~isLocal(Producer) THEN "stage-out" ELSE "finished")
  /\ UNCHANGED <<place, options, shown, deferred, run>>

needDownload == \E d \in Dst : ~isSameRemoteHost(Producer, d)

\* (wrong) a file that is downloaded is not kept for those who link to it
Mut_getRemoteSymlinkOutputNames ==
  IF \A d \in Dst : isSameRemoteHost(Producer, d) THEN {"out"} ELSE {}

getRemoteSymlinkOutputNames ==
  IF \E d \in Dst : isSameRemoteHost(Producer, d) THEN {"out"} ELSE {}

StageOut ==
  LET downloaded == IF needDownload THEN Put(files, Local, ComponentDir(Producer), "out", Data) ELSE files
      kept == getRemoteSymlinkOutputNames
      cleanup == "doCleanup" \in options
  IN /\ run = "going" /\ state[Producer] = "stage-out"
     /\ files' = IF cleanup THEN Delete(downloaded, machine(host(Producer)), RemoteDir(Producer), kept)
                 ELSE downloaded
     /\ deferred' = (cleanup /\ kept # {})
     /\ Change(Producer, "finished")
     /\ UNCHANGED <<place, options, shown, run>>

-----------------------------------------------------------------------------
(* The components that get the file *)

\* A workflow that the file leaves has to end, one that it enters has to begin.
Ready(n, c) ==
  LET s == Src(n, c)
  IN CASE s = Producer -> state[s] = "finished"
       [] s = parent(n) -> state[s] = "running"
       [] OTHER -> /\ state[Producer] = "finished"
                   /\ \A d \in Consumer : s \in HoldersOf(d) => state[d] = "finished"

\* All the deliveries are begun before the first has ended.
DispatchWorkflow(w) ==
  LET C == {c \in Consumer : w \in HoldersOf(c) /\ Carries(w, c)}
      received(c) == Transfer(files, Recipe(w, c), c)
  IN /\ run = "going" /\ state[w] = "waiting"
     /\ C # {} /\ \A c \in C : Ready(w, c)
     /\ files' = [k \in UNION {DOMAIN received(c) : c \in C} |->
                   IF k[4] \in C THEN received(k[4])[k] ELSE files[k]]
     /\ Change(w, "running")
     /\ UNCHANGED <<place, options, shown, deferred, run>>

mandatory == "mandatory" \in options

\* Is the input there, before the component's own stage-in?
Found(f, c) == Readable(f, machine(host(c)), workingDir(c), c)

\* (wrong) a mandatory input that was not delivered is noticed only if its transfer failed
Mut_checkMandatoryInputFilesExist(f, c) == TRUE

_checkMandatoryInputFilesExist(f, c) == mandatory => Found(f, c)
_warnMissingInputFiles(f, c) == IF mandatory \/ Found(f, c) THEN {} ELSE {c}

Dispatch(c) ==
  LET r == Recipe(c, c)
      delivered == Transfer(files, r, c)
  IN /\ run = "going" /\ state[c] = "waiting" /\ Ready(c, c)
     /\ mandatory => Succeeds(files, r)
     /\ files' = delivered
     /\ shown' = shown \cup _warnMissingInputFiles(delivered, c)
     /\ Change(c, IF _checkMandatoryInputFilesExist(delivered, c) THEN "ready" ELSE "failed")
     /\ UNCHANGED <<place, options, deferred, run>>

DeliveryFails(c) ==
  /\ run = "going" /\ state[c] = "waiting" /\ Ready(c, c)
  /\ mandatory /\ ~Succeeds(files, Recipe(c, c))
  /\ run' = "error"
  /\ UNCHANGED <<place, options, state, files, shown, deferred>>

\* The task's directory is sent, with what the links in it lead to, and the task starts.
StageIn(c) ==
  /\ run = "going" /\ isTask(c) /\ state[c] = "ready"
  /\ files' = IF ~isLocal(c) /\ Readable(files, Local, ComponentDir(c), c)
              THEN Put(files, machine(host(c)), RemoteDir(c), c, Data) ELSE files
  /\ Change(c, "running")
  /\ UNCHANGED <<place, options, shown, deferred, run>>

TaskEnds(c) ==
  /\ run = "going" /\ isTask(c) /\ state[c] = "running"
  /\ files' = IF ~isLocal(c) /\ "doCleanup" \in options
              THEN Delete(files, machine(host(c)), RemoteDir(c), {}) ELSE files
  /\ Change(c, "finished")
  /\ UNCHANGED <<place, options, shown, deferred, run>>

\* A file that is not in the component's directory cannot be copied, and rsync may fail on it.
_storageHandler(c) ==
  LET there == Readable(files, Local, ComponentDir(c), c)
      stored == IF there THEN Put(files, machine(host(c)), storagePath(c), c, Data) ELSE files
  IN /\ run = "going" /\ ~isTask(c) /\ state[c] = "ready"
     /\ \E s \in (IF there THEN {"finished"} ELSE IF isLocal(c) THEN {"failed"} ELSE {"finished", "failed"}) :
          /\ Change(c, s)
          /\ files' = IF s = "finished" THEN Delete(stored, Local, ComponentDir(c), {}) ELSE stored
     /\ UNCHANGED <<place, options, shown, deferred, run>>

runDeferredCleanups ==
  /\ run = "going" /\ \A c \in Consumer : state[c] \in {"finished", "failed"}
  /\ files' = IF deferred THEN Delete(files, machine(host(Producer)), RemoteDir(Producer), {}) ELSE files
  /\ deferred' = FALSE
  /\ run' = "over"
  /\ UNCHANGED <<place, options, state, shown>>

Next ==
  \/ Produce
  \/ StageOut
  \/ \E w \in Workflow \ {Root} : DispatchWorkflow(w)
  \/ \E c \in Consumer :
       Dispatch(c) \/ DeliveryFails(c) \/ StageIn(c) \/ TaskEnds(c) \/ _storageHandler(c)
  \/ runDeferredCleanups

Spec == Init /\ [][Next]_vars

-----------------------------------------------------------------------------
(* What the settings have to mean, and which links are delivered *)

Same(m1, b1, m2, b2) ==
  b1 \in DOMAIN Mount[m1] /\ b2 \in DOMAIN Mount[m2] /\ Mount[m1][b1] = Mount[m2][b2]

\* The path names the source's file on the host that makes the link and on the one that reads it.
SettingsRight(c) ==
  LET m == machine(host(c))
      r == Recipe(c, c)
      own == IF hasStoragePath(Producer) THEN storagePath(Producer) ELSE workingDir(Producer)
  IN isSameRemoteHost(Producer, c) =>
       /\ Same(m, r.from[1], machine(host(Producer)), own[1])
       /\ Same(machine(r.ssh), r.from[1], machine(host(Producer)), own[1])
       /\ Same(machine(r.ssh), r.to[1], m, r.to[1])

\* The link stays in one workflow, enters some, or leaves one.
NearBy(c) == Exit(c) = Producer \/ (parent(Producer) = Exit(c) /\ Entrance(c) = c)
Flat(c) == Exit(c) = Producer /\ Entrance(c) = c
Shares(n) == ~isLocal(n) /\ Info[host(n)].sharedWithLocalhost

Deep(c) == Entrance(c) \notin {c, parent(c)}

\* One workflow down or up, the file has to be in the producer's own directory.
Fits(c) ==
  /\ NearBy(c)
  /\ Flat(c) \/ (~Shares(c) /\ (Deep(c) \/ (isTask(Producer) /\ ~Shares(Producer))))
  /\ isTask(c) \/ Recipe(c, c).to = ComponentDir(c)
  /\ mandatory => isLocal(c) \/ (isTask(c) /\ Recipe(c, c).via \in {"onSameRemote", "localToRemoteShared"})
  /\ Flat(c) => SettingsRight(c)

Started(c) == state[c] = IF isTask(c) THEN "running" ELSE "finished"
Has(c) ==
  Readable(files, machine(host(c)), IF isTask(c) THEN workingDir(c) ELSE storagePath(c), c)

(***************************************************************************)
(* Type: a content is the data or a link, and only the producer can leave  *)
(* something for the end of the run.                                       *)
(***************************************************************************)
TypeOK ==
  /\ state \in [Node -> {"waiting", "stage-out", "ready", "running", "finished", "failed"}]
  /\ \A k \in DOMAIN files : files[k] = Data \/ Len(files[k].to) = 3
  /\ shown \subseteq Consumer
  /\ deferred \in BOOLEAN
  /\ run \in {"going", "error", "over"}

(***************************************************************************)
(* Where the settings are right and the link is of a kind the code can     *)
(* carry (Fits), the task runs with the producer's file in its directory,  *)
(* and a storage has it for good: what stage-out decides to download and   *)
(* to delete agrees with what _getInputFiles later reads, on the machine   *)
(* that reads it.                                                          *)
(***************************************************************************)
Delivered ==
  /\ \A c \in Consumer : Fits(c) => state[c] # "failed" /\ (Started(c) => Has(c))
  /\ (\A c \in Consumer : Fits(c)) => run # "error"

(***************************************************************************)
(* Whatever the hosts, the settings and the workflows are, no component    *)
(* works without its input unnoticed: if the input is mandatory it does    *)
(* not start, otherwise the user has been shown a message.                 *)
(***************************************************************************)
Told ==
  \A c \in Consumer : Started(c) /\ ~Has(c) => ~mandatory /\ c \in shown
=============================================================================
