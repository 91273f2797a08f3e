------------------------------ MODULE TaskLife ------------------------------
(***************************************************************************)
(* What the execution of tasks promises to the dispatcher: a task is       *)
(* attempted at most once more than it may be retried, it gets one verdict *)
(* that never changes, success takes an attempt, and a task is left        *)
(* without a verdict only when the project has been stopped.               *)
(***************************************************************************)
EXTENDS Naturals

CONSTANTS
  Task,
  MaxRetry, \* MaxRetry[t]: retries task t is granted
  Executed  \* tasks the script of which succeeded in an earlier run

VARIABLES
  attempts, \* attempts[t]: attempts granted so far
  verdict,  \* verdict[t], as the dispatcher is told
  stopped   \* has a stop of the project begun?

vars == <<attempts, verdict, stopped>>

Init ==
  /\ attempts = [t \in Task |-> 0]
  /\ verdict = [t \in Task |-> "none"]
  /\ stopped = FALSE

Attempt(t) ==
  /\ verdict[t] = "none" /\ attempts[t] <= MaxRetry[t]
  /\ attempts' = [attempts EXCEPT ![t] = @ + 1]
  /\ UNCHANGED <<verdict, stopped>>

Conclude(t, v) ==
  /\ verdict[t] = "none"
  /\ v = "succeeded" => attempts[t] > 0 \/ t \in Executed
  /\ v = "withdrawn" => stopped
  /\ verdict' = [verdict EXCEPT ![t] = v]
  /\ UNCHANGED <<attempts, stopped>>

\* Any number of tasks that have no verdict yet are withdrawn with the stop.
Stop(T) ==
  /\ ~stopped /\ stopped' = TRUE
  /\ \A t \in T : verdict[t] = "none"
  /\ verdict' = [t \in Task |-> IF t \in T THEN "withdrawn" ELSE verdict[t]]
  /\ UNCHANGED attempts

Next ==
  \/ \E t \in Task : Attempt(t)
  \/ \E t \in Task, v \in {"succeeded", "failed", "withdrawn"} : Conclude(t, v)
  \/ \E T \in SUBSET Task : Stop(T)

Spec == Init /\ [][Next]_vars

=============================================================================
