----------------------------- MODULE GatedTask -----------------------------
(***************************************************************************)
(* What the workflow promises of a task, without requests, users or calls: *)
(* it walks the steps one at a time, does not leave a gate before that     *)
(* gate was approved, and may be sent back one step.                       *)
(***************************************************************************)
EXTENDS Naturals

CONSTANTS Tasks, Length, Gates

VARIABLES position, approved

vars == <<position, approved>>

Init ==
  /\ position = [t \in Tasks |-> 1]
  /\ approved = [t \in Tasks |-> {}]

Approve(t, s) ==
  /\ s \in Gates
  /\ approved' = [approved EXCEPT ![t] = @ \cup {s}]
  /\ UNCHANGED position

Advance(t) ==
  /\ position[t] < Length
  /\ position[t] \in Gates => position[t] \in approved[t]
  /\ position' = [position EXCEPT ![t] = @ + 1]
  /\ UNCHANGED approved

SendBack(t) ==
  /\ position[t] > 1
  /\ position' = [position EXCEPT ![t] = @ - 1]
  /\ UNCHANGED approved

Next == \E t \in Tasks: Advance(t) \/ SendBack(t) \/ \E s \in Gates: Approve(t, s)

Spec == Init /\ [][Next]_vars
=============================================================================
