------------------------------- MODULE GatedRun -------------------------------
(***************************************************************************)
(* The promise of human approval to a durable run: every gate of a run is  *)
(* put to a human at most once, is answered at most once, and the run acts *)
(* past it only if the answer was an approval.  Gates are asked in order,  *)
(* one at a time, and a gate that was rejected or withdrawn is the last    *)
(* one the run asks.                                                       *)
(***************************************************************************)
EXTENDS Naturals

CONSTANTS
  Runs,     \* worker run ids
  NumGates  \* number of gates in the graph

Gates == 1..NumGates

VARIABLES
  verdict, \* per run and gate: unasked, pending or the answer
  acted    \* per run, the gates acted upon

vars == <<verdict, acted>>

Answers == {"approved", "rejected", "cancelled"}

Init ==
  /\ verdict = [r \in Runs |-> [g \in Gates |-> "unasked"]]
  /\ acted = [r \in Runs |-> {}]

\* The run reaches gate g: every gate asked before lies before g and was
\* approved.
Ask(r, g) ==
  /\ \A h \in Gates : verdict[r][h] = "unasked"
                        \/ (h < g /\ verdict[r][h] = "approved")
  /\ verdict' = [verdict EXCEPT ![r][g] = "pending"]
  /\ UNCHANGED acted

Answer(r, g, a) ==
  /\ verdict[r][g] = "pending"
  /\ verdict' = [verdict EXCEPT ![r][g] = a]
  /\ UNCHANGED acted

Act(r, g) ==
  /\ verdict[r][g] = "approved"
  /\ g \notin acted[r]
  /\ \A h \in Gates : h > g => verdict[r][h] = "unasked"
  /\ acted' = [acted EXCEPT ![r] = @ \cup {g}]
  /\ UNCHANGED verdict

\* Everything pending for a set of runs is withdrawn at once.
Withdraw(R) ==
  /\ verdict' = [r \in Runs |-> [g \in Gates |->
       IF r \in R /\ verdict[r][g] = "pending" THEN "cancelled"
       ELSE verdict[r][g]]]
  /\ UNCHANGED acted

Next ==
  \/ \E r \in Runs, g \in Gates :
       \/ Ask(r, g)
       \/ \E a \in Answers : Answer(r, g, a)
       \/ Act(r, g)
  \/ \E R \in SUBSET Runs : Withdraw(R)

Spec == Init /\ [][Next]_vars
=============================================================================
