---------------------------- MODULE WorkerFleet ----------------------------
(***************************************************************************)
(* What an operator may count on of the autoscaler, without its cycles,      *)
(* lock, sidecar file and demand: it acts on one plan at a time, which only   *)
(* grows or only shrinks the cluster; a plan is for a bounded number of       *)
(* nodes; nodes leave that the plan in force named, or that the operator      *)
(* removed; and no plan means to leave fewer workers than the floor.          *)
(***************************************************************************)
EXTENDS Naturals, FiniteSets

CONSTANTS Names, MaxAdd, MaxRemove, Floor

VARIABLES
  fleet,  \* the workers
  room,   \* how many more the plan in force may add
  marked, \* those it may still remove
  taken   \* how many removals the operator has made

vars == <<fleet, room, marked, taken>>

Init ==
  /\ fleet \in SUBSET Names /\ Floor <= Cardinality(fleet)
  /\ room = 0 /\ marked = {}
  /\ taken = 0

AtRest == room = 0 /\ marked = {}

Grow ==
  /\ AtRest
  /\ room' \in 1 .. MaxAdd
  /\ UNCHANGED <<fleet, marked, taken>>

Shrink ==
  /\ AtRest
  /\ marked' \in SUBSET fleet
  /\ Cardinality(marked') <= MaxRemove
  /\ Floor <= Cardinality(fleet \ marked')
  /\ UNCHANGED <<fleet, room, taken>>

Add(n) ==
  /\ 0 < room /\ n \notin fleet
  /\ fleet' = fleet \cup {n} /\ room' = room - 1
  /\ UNCHANGED <<marked, taken>>

Retire(n) ==
  /\ n \in marked \cap fleet
  /\ fleet' = fleet \ {n} /\ marked' = marked \ {n}
  /\ UNCHANGED <<room, taken>>

\* What fails, is spared or has gone is not done in the place of something else.
Forgo ==
  /\ room' \in {0, room} /\ marked' \in SUBSET marked
  /\ UNCHANGED <<fleet, taken>>

HandAdd(n) ==
  /\ n \notin fleet
  /\ fleet' = fleet \cup {n}
  /\ UNCHANGED <<room, marked, taken>>

HandRemove(n) ==
  /\ n \in fleet
  /\ fleet' = fleet \ {n} /\ taken' = taken + 1
  /\ UNCHANGED <<room, marked>>

Next ==
  \/ Grow \/ Shrink \/ Forgo
  \/ \E n \in Names : Add(n) \/ Retire(n) \/ HandAdd(n) \/ HandRemove(n)

Spec == Init /\ [][Next]_vars
=============================================================================
