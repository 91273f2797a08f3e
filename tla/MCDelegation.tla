---------------------------- MODULE MCDelegation ----------------------------
EXTENDS Delegation

CONSTANTS A, B, C

For(from, to, by, kept) ==
  [type |-> "for", start |-> from, end |-> to, step |-> by, keep |-> kept]

Loops ==
  {For(0, 2, 1, k) : k \in {0, 1, 2, Null}} \cup {For(1, 4, 2, 1), For(3, 0, -2, 1)}
  \cup {[type |-> "foreach", indexList |-> <<A, B, C>>, keep |-> k] : k \in {0, 1}}
  \cup {[type |-> "while", keep |-> k] : k \in {0, Null}}

Study(last, axis, delete) ==
  [type |-> "parameterStudy", deleteLoopInstance |-> delete,
   axes |-> <<[min |-> 1, max |-> last, step |-> 2], [list |-> axis]>>]

Workflow == [type |-> "workflow"]
EveryKind ==
  Loops \cup {Study(4, <<5>>, FALSE), Study(2, <<5, 7>>, TRUE), Workflow}
ManySpaces ==
  {<<[min |-> 1, max |-> x, step |-> y], [list |-> <<5, 7>>], [min |-> 0, max |-> z, step |-> 1]>> :
     x \in 1..5, y \in 1..3, z \in 0..2}

=============================================================================
