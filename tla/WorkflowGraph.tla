---------------------------- MODULE WorkflowGraph ----------------------------
(***************************************************************************)
(* What a user sees of a workflow: components and the arrows between them, *)
(* of links and of files.  An edit draws one arrow, or takes away arrows of *)
(* one component, or adds components without arrows, or removes components *)
(* with theirs.  ComponentLinks, where an arrow is two entries in two      *)
(* files, implements it.                                                   *)
(***************************************************************************)
EXTENDS FiniteSets

VARIABLES nodes, arrows
vars == <<nodes, arrows>>

Ends(a) == {a[2], a[3]}

Init == \A a \in arrows : Ends(a) \subseteq nodes

Draw ==
  /\ \E a \in arrows' : arrows = arrows' \ {a} /\ Ends(a) \subseteq nodes
  /\ UNCHANGED nodes

Erase ==
  /\ arrows' \subseteq arrows
  /\ \E n \in nodes : \A a \in arrows \ arrows' : n \in Ends(a)
  /\ UNCHANGED nodes

Insert == nodes \subseteq nodes' /\ UNCHANGED arrows

Remove ==
  /\ nodes' \subseteq nodes
  /\ arrows' = {a \in arrows : Ends(a) \subseteq nodes'}

Next == Draw \/ Erase \/ Insert \/ Remove
Spec == Init /\ [][Next]_vars
=============================================================================
