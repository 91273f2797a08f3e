-------------------------- MODULE MCComponentLinks --------------------------
(***************************************************************************)
(* A root workflow "r" that holds an "if" "a", a workflow "w" after it and *)
(* in this a task "k"; "n" is an ID that is not used yet.  The file "f" of  *)
(* "a" goes to "w" and on to "k", the one of "k" back to "w".              *)
(***************************************************************************)
EXTENDS ComponentLinks

Begin(t, p) == [New(t, p) EXCEPT !.inputFiles = {"f"}, !.outputFiles = {"f"}]

Project ==
  [r |-> New("workflow", None),
   a |-> [Begin("if", "r") EXCEPT !.next = {"w"}, !.dst = {L("f", "w", "f")}],
   w |-> [Begin("workflow", "r") EXCEPT !.previous = {"a"}, !.src = {L("f", "a", "f")},
            !.forwardTo = {L("f", "k", "f")}, !.origin = {L("f", "k", "f")}],
   k |-> [Begin("task", "w") EXCEPT !.src = {L("f", "w", "f")}, !.dst = {L("f", "w", "f")}]]
=============================================================================
