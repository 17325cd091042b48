------------------------------ MODULE Provisioning ------------------------------
(***************************************************************************)
(* What the demo-cartridge operator promises, seen from the cluster: the   *)
(* steps of the demo scenario are built in the order of the Reconcile      *)
(* function, and nothing that stands behind one of the foundation's gates  *)
(* is built before that gate has been reported Ready.  Nothing is said     *)
(* here about passes, caches, queues, failures or restarts: module         *)
(* Reconciler adds those and implements this specification.                *)
(***************************************************************************)
EXTENDS Integers

CONSTANTS
  Steps,      \* the steps of the scenario, numbered in their order
  Gates,      \* the steps whose Ready condition is awaited
  Skippable   \* the steps a pass may leave out

VARIABLES
  built,      \* the steps whose resource has been created at least once
  reported    \* the gates that have been Ready at least once

vars == <<built, reported>>

TypeOK ==
  /\ built \subseteq Steps
  /\ reported \subseteq Gates

Init ==
  /\ built = {}
  /\ reported = {}

(* Everything step s builds upon is there. *)
MayBuild(s) ==
  /\ \A p \in Steps \ Skippable : p < s => p \in built
  /\ \A g \in Gates : g < s => g \in reported

Build(s) ==
  /\ MayBuild(s)
  /\ built' = built \cup {s}
  /\ UNCHANGED reported

Report(g) ==
  /\ g \in built
  /\ reported' = reported \cup {g}
  /\ UNCHANGED built

Next ==
  \/ \E s \in Steps : Build(s)
  \/ \E g \in Gates : Report(g)

Spec == Init /\ [][Next]_vars
=============================================================================
