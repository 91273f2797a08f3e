---------------------------- MODULE MCValidation ----------------------------
(***************************************************************************)
(* Instance of Validation: two families of workflows.                      *)
(*                                                                         *)
(* Graphs: the tasks a and b, an "if" i and a viewer or storage v, with    *)
(* every choice among the links below, of the disabled components, of the  *)
(* input of a from the workflow and of the workflow being behind an "if".  *)
(*                                                                         *)
(* Settings: a task f, then c of a kind below with any of its settings,    *)
(* then a task g.                                                          *)
(***************************************************************************)
EXTENDS Validation

Plain == [host |-> "localhost", useJobScheduler |-> FALSE, script |-> "file",
          checker |-> "unset", submitOption |-> "unset", sourceScript |-> "unset",
          connected |-> TRUE]

NoSetting == [none |-> TRUE]

SettingOf(k) ==
  CASE k = "task" -> Plain
    [] k = "if" -> [condition |-> "expression"]
    [] k = "storage" -> [host |-> "localhost", storagePath |-> "directory"]
    [] OTHER -> NoSetting

Files == {"unset", "missing", "directory", "file"}
Hosts == {"localhost", "batch", "step", "plain", "gone"}
Conditions == {"unset", "directory", "file", "expression"}
ParameterFiles == {"unset", "missing", "directory", "notJSON", "invalid", "valid"}

\* The links of the first family, as <<from, to>>.
NextLinks == {<<"a", "b">>, <<"b", "a">>, <<"i", "a">>, <<"b", "i">>}
ElseLinks == {<<"i", "b">>}
FileLinks == {<<"a", "b">>, <<"b", "a">>, <<"a", "v">>, <<"i", "v">>, <<"v", "b">>}

Of(links, C) == [c \in C |-> {l[2] : l \in {k \in links : k[1] = c}}]

Graphs ==
  LET C == {"a", "b", "i", "v"}
      Kind(kv) == [c \in C |-> CASE c = "i" -> "if" [] c = "v" -> kv [] OTHER -> "task"]
  IN {[order |-> <<"b", "a", "i", "v">>, kind |-> Kind(kv),
       next |-> Of(n, C), else |-> Of(e, C), file |-> Of(f, C),
       disable |-> d, parentFed |-> p, behindIf |-> behind,
       setting |-> [c \in C |-> SettingOf(Kind(kv)[c])]] :
        kv \in {"viewer", "storage"},
        n \in SUBSET NextLinks, e \in SUBSET ElseLinks, f \in SUBSET FileLinks,
        d \in SUBSET {"a", "b", "i"}, p \in SUBSET {"a"}, behind \in BOOLEAN}

\* A viewer has no output, and a link in both directions between two components
\* or of both kinds is enough once.
GraphFamily ==
  {g \in Graphs :
     /\ g.kind["v"] = "viewer" => g.file["v"] = {}
     /\ g.behindIf => g.parentFed # {}
     /\ ~("b" \in g.next["a"] /\ "b" \in g.file["a"])
     /\ ~("a" \in g.next["b"] /\ "a" \in g.file["b"])}

Settings ==
  [task |->
     [host : Hosts, useJobScheduler : BOOLEAN, script : Files,
      checker : {"unset", "absolute", "missing", "directory", "file"},
      submitOption : {"unset", "other", "queue"},
      sourceScript : {"unset", "missing", "file"}, connected : BOOLEAN],
   bulkjobTask |->
     {s \in [host : Hosts, useJobScheduler : BOOLEAN, script : Files,
             submitOption : {"unset", "queue"},
             sourceScript : {"unset", "missing", "file"},
             parameterFile : {"number"} \union ParameterFiles,
             range : {"unset", "negative", "backward", "forward"},
             condition : {"off"} \union Conditions] :
        /\ s.parameterFile # "number" => s.range = "unset"
        /\ \/ s.useJobScheduler /\ s.script = "file"
           \/ s.submitOption = "unset" /\ s.sourceScript = "unset" /\ s.condition = "off"},
   stepjob |->
     {s \in [host : Hosts, useJobScheduler : BOOLEAN, script : Files,
             submitOption : {"unset", "other"},
             sourceScript : {"unset", "missing", "file"},
             head : BOOLEAN, dependency : {"off", "unset", "set"}] :
        \/ s.useJobScheduler /\ s.script = "file"
        \/ s.submitOption = "unset" /\ s.sourceScript = "unset"},
   for |->
     {s \in [start : -2 .. 2, step : -2 .. 2, end : -2 .. 2,
             number : SUBSET {"start", "step", "end"}] :
        /\ "start" \notin s.number => s.start = 0
        /\ "step" \notin s.number => s.step = 0
        /\ "end" \notin s.number => s.end = 0},
   foreach |->
     [isArray : BOOLEAN, indexList : UNION {[1 .. n -> {"x", "y"}] : n \in 0 .. 3}],
   if |-> [condition : Conditions],
   while |-> [condition : Conditions],
   storage |-> [host : Hosts, storagePath : Files \union {"blank"}],
   parameterStudy |->
     [parameterFile : ParameterFiles, nodes : {"children", "gone"},
      targets : {"children", "gone"}]]

SettingFamily ==
  LET C == {"f", "c", "g"}
      Line(k, s) ==
        [order |-> <<"f", "c", "g">>,
         kind |-> [c \in C |-> IF c = "c" THEN k ELSE "task"],
         next |-> Of(IF k = "storage" THEN {} ELSE {<<"f", "c">>, <<"c", "g">>}, C),
         else |-> Of({}, C),
         file |-> Of(IF k = "storage" THEN {<<"f", "c">>, <<"c", "g">>} ELSE {}, C),
         disable |-> {}, parentFed |-> {}, behindIf |-> FALSE,
         setting |-> [c \in C |-> IF c = "c" THEN s ELSE Plain]]
  IN UNION {{Line(k, s) : s \in Settings[k]} : k \in DOMAIN Settings}

MCWorkflow == GraphFamily \union SettingFamily
MCRemoteHost == {"batch", "step", "plain"}
MCScheduled  == {"batch", "step"}
MCBulkHost   == {"batch"}
MCStepHost   == {"step"}
=============================================================================
