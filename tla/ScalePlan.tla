------------------------------ MODULE ScalePlan ------------------------------
(***************************************************************************)
(* The pure decisions of the autoscaler (cs_docker/autoscale.py 85-548): how  *)
(* much capacity is wanted, which droplets to add, which nodes to remove.     *)
(*                                                                          *)
(* A node is its serial, as in swarm3.  A worker has the capacity of the      *)
(* largest or of the smallest tier: no other tier is ever created, and a node  *)
(* without a label has DEFAULT_CAPACITY, which every config/ sets to that of   *)
(* the smallest.                                                             *)
(***************************************************************************)
EXTENDS Integers, FiniteSets

CONSTANTS
  LargeCap, SmallCap, \* hosts that fit on a node of the largest, smallest tier
  Headroom,           \* AUTOSCALE_HEADROOM
  MaxAdd,             \* AUTOSCALE_MAX_ADD_PER_CYCLE
  MaxRemove,          \* AUTOSCALE_MAX_REMOVE_PER_CYCLE
  MinWorkers          \* AUTOSCALE_MIN_WORKER_NODES

ASSUME ScalePlanAssumption ==
  /\ LargeCap \in Nat /\ SmallCap \in Nat
  /\ 0 < SmallCap /\ SmallCap <= LargeCap
  /\ Headroom \in Nat /\ MaxAdd \in Nat /\ MaxRemove \in Nat /\ MinWorkers \in Nat

Positive(x) == IF x > 0 THEN x ELSE 0
Most(x, y) == IF x > y THEN x ELSE y

\* ClusterState.total_capacity of a set of workers, of which those in big are
\* large.
Capacity(workers, big) ==
  LargeCap * Cardinality(workers \cap big) + SmallCap * Cardinality(workers \ big)

\* estimate_demand: a host that is starting is both live and pending.
Demand(live, pending, prescale) == Most(live + pending, prescale) + Headroom

-----------------------------------------------------------------------------
(* plan_scale_up. *)

NoAdd == [large |-> 0, small |-> 0]

\* Mutant: one small node for the rest, however large.
PackedShort(deficit) ==
  [large |-> deficit \div LargeCap, small |-> IF deficit % LargeCap = 0 THEN 0 ELSE 1]

\* As many large nodes as the deficit fills, and one more node for the rest.
Packed(deficit) ==
  LET full == deficit \div LargeCap
      rest == deficit % LargeCap
  IN  IF rest = 0 THEN [large |-> full, small |-> 0]
      ELSE IF rest <= SmallCap THEN [large |-> full, small |-> 1]
      ELSE [large |-> full + 1, small |-> 0]

\* At most MaxAdd nodes: small ones go first.
Clamped(plan) ==
  LET over == plan.large + plan.small - MaxAdd
      drop == IF plan.small < over THEN plan.small ELSE over
  IN  IF over <= 0 THEN plan
      ELSE [large |-> Positive(plan.large - (over - drop)), small |-> plan.small - drop]

ScaleUp(deficit) == IF deficit <= 0 THEN NoAdd ELSE Clamped(Packed(deficit))

Size(plan) == plan.large + plan.small
Brings(plan) == LargeCap * plan.large + SmallCap * plan.small

-----------------------------------------------------------------------------
(* plan_scale_down. *)

\* Mutant: the headroom is not kept.
RemovableBare(n, before, workers, big, load) ==
  /\ Cardinality(before) < MaxRemove
  /\ Capacity(workers, big) - load - Capacity(before, big) > Capacity({n}, big)
  /\ Cardinality(workers) - Cardinality(before) - 1 >= MinWorkers

\* Whether n may go once those before it have: the cap of a cycle, the
\* dead-band, the least number of workers.
Removable(n, before, workers, big, load) ==
  /\ Cardinality(before) < MaxRemove
  /\ Capacity(workers, big) - load - Capacity(before, big) > Capacity({n}, big) + Headroom
  /\ Cardinality(workers) - Cardinality(before) - 1 >= MinWorkers

\* gone is what the loop selects of the candidates: from the highest serial down,
\* each that may go after those selected above it.
IsSelection(gone, candidates, workers, big, load) ==
  /\ gone \subseteq candidates
  /\ \A n \in candidates :
       n \in gone <=> Removable(n, {m \in gone : m > n}, workers, big, load)
=============================================================================
