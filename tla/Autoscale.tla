------------------------------ MODULE Autoscale ------------------------------
(***************************************************************************)
(* One cycle of the autoscaler after another (cs_docker/autoscale.py,        *)
(* run_autoscale), from cron every two minutes and by hand (`node            *)
(* autoscale`), against a Swarm whose hosts, classes and nodes change while  *)
(* a cycle runs.                                                             *)
(*                                                                          *)
(* A node is its serial.  The sidecar file keeps, from cycle to cycle, since  *)
(* when each node has been empty: here for less ("young") or for at least     *)
(* ("old") the cooldown.  The steps inside a removal are in NodePlacement.    *)
(***************************************************************************)
EXTENDS ScalePlan

CONSTANTS
  MaxSerial,   \* the bound on serials: no droplet is created beyond it
  Managers,    \* the nodes that are managers; they run no code hosts
  Hosts,       \* the code hosts there may be
  Cron, ByHand, \* processes that run `node autoscale`
  Free,        \* the lock's holder when there is none
  Prescales,   \* the prescale demands of the classes there may be
  MaxEvents    \* the bound on what is done by hand (nodes added and removed, cycles)
               \* and what fails (calls, cycles that die), together

Serials == 1 .. MaxSerial
Cycles == Cron \cup ByHand

ASSUME AutoscaleAssumption ==
  /\ MaxSerial \in Nat /\ Managers \subseteq Serials
  /\ Cron \cap ByHand = {} /\ Free \notin Cycles
  /\ IsFiniteSet(Hosts) /\ Prescales \subseteq Nat
  /\ MaxEvents \in Nat

VARIABLES
  nodes,    \* the nodes Swarm lists
  big,      \* those labelled with the capacity of the largest tier
  drained,  \* those drained
  host,     \* the row of each code host, and the node its task runs on
  prescale, \* what the classes in their purge window call for
  sidecar,  \* .autoscale_state.json
  lock,     \* the holder of .autoscale.lock
  cyc,      \* the cycles
  seen,     \* history: how long every gather has counted each node as empty
  reborn,   \* history: the nodes whose sidecar entry is of another time
  taken,    \* history: removals by hand
  events    \* what has been done by hand and what has failed

vars == <<nodes, big, drained, host, prescale, sidecar, lock, cyc, seen, reborn,
          taken, events>>

Nowhere == 0
Ages == {"none", "young", "old"}
Workers == nodes \ Managers

HostRec == [st: {"off", "starting", "ready", "quiet"}, at: Serials \cup {Nowhere}]

\* gather: has counted the hosts, on the nodes in on, and is about to read the rest
\* of the snapshot.  add, verify: scaling up.  check, remove: scaling
\* down.
CycRec == [pc: {"idle", "gather", "add", "verify", "check", "remove", "save"},
           on: [Hosts -> Serials \cup {Nowhere}], empty: [Serials -> Ages],
           add: [large: 0 .. MaxAdd, small: 0 .. MaxAdd], todo: SUBSET Serials,
           node: Serials \cup {Nowhere}]

TypeOK ==
  /\ nodes \subseteq Serials /\ big \subseteq nodes /\ drained \subseteq nodes
  /\ host \in [Hosts -> HostRec]
  /\ prescale \in Prescales
  /\ sidecar \in [Serials -> Ages]
  /\ lock \in Cycles \cup {Free}
  /\ cyc \in [Cycles -> CycRec]
  /\ seen \in [Serials -> Ages]
  /\ reborn \subseteq Serials
  /\ events \in 0 .. MaxEvents /\ taken \in 0 .. events

Never == [n \in Serials |-> "none"]
Uncounted == [h \in Hosts |-> Nowhere]
Idle == [pc |-> "idle", on |-> Uncounted, empty |-> Never, add |-> NoAdd, todo |-> {},
         node |-> Nowhere]

\* Nodes of both tiers, all verified, and hosts that run or not.
Init ==
  /\ \E workers \in SUBSET (Serials \ Managers) :
       /\ MinWorkers <= Cardinality(workers)
       /\ nodes = Managers \cup workers
       /\ big \in SUBSET workers
  /\ drained = {}
  /\ host = [h \in Hosts |-> [st |-> "off", at |-> Nowhere]]
  /\ prescale \in Prescales
  /\ sidecar = Never
  /\ lock = Free
  /\ cyc = [c \in Cycles |-> Idle]
  /\ seen = Never
  /\ reborn = {}
  /\ taken = 0 /\ events = 0

Swarm == <<nodes, big, drained>>
History == <<seen, reborn, taken>>
Costs(k) == events + k <= MaxEvents /\ events' = events + k
Fault == Costs(1)
NoFault == Costs(0)
ByOperator == Costs(1)

-----------------------------------------------------------------------------
(* What the hosts' rows call for. *)

InState(states) == {h \in Hosts : host[h].st \in states}
Wanted == Demand(Cardinality(InState({"starting", "ready"})),
                 Cardinality(InState({"starting"})), prescale)
Deficit(workers) == Wanted - Capacity(workers, big)

-----------------------------------------------------------------------------
(* A cycle: the snapshot and the plan. *)

\* Mutant: the lock is not looked at.
BeginUnlocked(c) ==
  /\ cyc[c].pc = "idle"
  /\ lock' = c
  /\ \E unread \in SUBSET {h \in Hosts : host[h].at # Nowhere} :
       /\ Costs((IF unread = {} THEN 0 ELSE 1) + (IF c \in ByHand THEN 1 ELSE 0))
       /\ cyc' = [cyc EXCEPT ![c].pc = "gather",
                    ![c].on = [h \in Hosts |-> IF h \in unread THEN Nowhere ELSE host[h].at]]
  /\ UNCHANGED <<Swarm, host, prescale, sidecar, History>>

\* Only one cycle runs: one that finds the lock held ends at once.  It counts the
\* hosts first (count_hosts_per_node skips a service whose tasks it cannot read).
Begin(c) ==
  /\ cyc[c].pc = "idle" /\ lock = Free
  /\ lock' = c
  /\ \E unread \in SUBSET {h \in Hosts : host[h].at # Nowhere} :
       /\ Costs((IF unread = {} THEN 0 ELSE 1) + (IF c \in ByHand THEN 1 ELSE 0))
       /\ cyc' = [cyc EXCEPT ![c].pc = "gather",
                    ![c].on = [h \in Hosts |-> IF h \in unread THEN Nowhere ELSE host[h].at]]
  /\ UNCHANGED <<Swarm, host, prescale, sidecar, History>>

Busy(on) == {on[h] : h \in Hosts} \ {Nowhere}

\* What an entry becomes: of a node that is empty, and has been for the cooldown if
\* it has been since the entry was made.
Entry(age, empty, aged) ==
  IF ~empty THEN "none"
  ELSE IF age = "none" THEN "young"
  ELSE IF aged THEN "old" ELSE age

\* Mutant: an entry outlives the hosts that ran meanwhile.
SinceKept(on, aged) ==
  [n \in Serials |->
     Entry(sidecar[n], n \in Workers /\ (n \in Busy(on) => sidecar[n] # "none"), n \in aged)]

\* The entries of a cycle.  Those of managers are never used and are left out.
Since(on, aged) ==
  [n \in Serials |-> Entry(sidecar[n], n \in Workers \ Busy(on), n \in aged)]

\* How long the gathers have counted each node as empty.
Counted(on, aged) == [n \in Serials |-> Entry(seen[n], n \in Workers \ Busy(on), n \in aged)]

\* plan_scale_down's candidates.
Candidates(on, empty, forced) ==
  {n \in Workers \ Busy(on) : empty[n] = "old" \/ (forced /\ empty[n] # "none")}

\* total_load: hosts on nodes that have gone since are not in it.
Load(on) == Cardinality({h \in Hosts : on[h] \in nodes})

\* build_plan: up, or else down.
IsPlan(on, empty, forced, add, todo) ==
  IF Deficit(Workers) > 0
  THEN add = ScaleUp(Deficit(Workers)) /\ todo = {}
  ELSE add = NoAdd /\ IsSelection(todo, Candidates(on, empty, forced), Workers, big, Load(on))

\* The next step of the cycle: nodes to add, nodes to remove, neither.
After(add, todo) == IF 0 < Size(add) THEN "add" ELSE IF todo # {} THEN "check" ELSE "save"

\* gather_cluster_state, build_plan and the options of the command: --force, and
\* what it is limited to (a dry run does nothing).
Gather(c) ==
  /\ cyc[c].pc = "gather"
  /\ \E aged \in SUBSET {n \in Workers : "young" \in {sidecar[n], seen[n]}},
        forced \in BOOLEAN, ups \in BOOLEAN, downs \in BOOLEAN,
        add \in [large : 0 .. MaxAdd, small : 0 .. MaxAdd], todo \in SUBSET Workers :
       LET empty == Since(cyc[c].on, aged)
           adds == IF ups THEN add ELSE NoAdd
           removes == IF downs THEN todo ELSE {}
       IN  /\ c \in Cron => ~forced /\ ups /\ downs
           /\ IsPlan(cyc[c].on, empty, forced, add, todo)
           /\ cyc' = [cyc EXCEPT ![c] = [pc |-> After(adds, removes), on |-> Uncounted,
                                         empty |-> empty, add |-> adds, todo |-> removes,
                                         node |-> Nowhere]]
           /\ seen' = Counted(cyc[c].on, aged)
  /\ UNCHANGED <<Swarm, host, prescale, sidecar, lock, reborn, taken, events>>

-----------------------------------------------------------------------------
(* Nodes that join and leave. *)

\* _get_next_serial
IsNext(n) == (\A m \in nodes : m < n) /\ (n = 1 \/ n - 1 \in nodes)
Full == ~\E n \in Serials : IsNext(n)

\* There is an entry for the name of a node that joins.
Listed(n) == sidecar[n] # "none" \/ \E c \in Cycles : cyc[c].empty[n] # "none"
Joins(n, large) ==
  /\ nodes' = nodes \cup {n}
  /\ big' = IF large THEN big \cup {n} ELSE big
  /\ reborn' = IF Listed(n) THEN reborn \cup {n} ELSE reborn

\* The tasks of a node end: Swarm places them anew, or they are gone.
Evicts(n) ==
  host' = [h \in Hosts |-> IF host[h].at = n THEN [host[h] EXCEPT !.at = Nowhere] ELSE host[h]]

Leaves(n) ==
  /\ nodes' = nodes \ {n} /\ big' = big \ {n} /\ drained' = drained \ {n}
  /\ Evicts(n)
  /\ seen' = [seen EXCEPT ![n] = "none"]
  /\ reborn' = reborn \ {n}

-----------------------------------------------------------------------------
(* A cycle: scaling up (apply_plan). *)

\* Mutant: a large node is always the one added.
FewerLarge(add) == [add EXCEPT !.large = @ - 1]

Fewer(add) == IF 0 < add.large THEN [add EXCEPT !.large = @ - 1] ELSE [add EXCEPT !.small = @ - 1]

\* The large ones first.  The node is drained as soon as it has joined; that may
\* fail, and so may its label.
AddNode(c) ==
  /\ cyc[c].pc = "add"
  /\ \/ \E n \in Serials, labelled \in BOOLEAN, drains \in BOOLEAN :
          /\ IsNext(n)
          /\ IF labelled /\ drains THEN NoFault ELSE Fault
          /\ Joins(n, 0 < cyc[c].add.large /\ labelled)
          /\ drained' = IF drains THEN drained \cup {n} ELSE drained
          /\ cyc' = [cyc EXCEPT ![c].pc = "verify", ![c].node = n, ![c].add = Fewer(@)]
     \/ \* It raises: no more nodes are added.
        /\ IF Full THEN NoFault ELSE Fault
        /\ cyc' = [cyc EXCEPT ![c].pc = "save", ![c].add = NoAdd]
        /\ UNCHANGED <<Swarm, reborn>>
  /\ UNCHANGED <<host, prescale, sidecar, lock, seen, taken>>

\* A node that passes is activated; a defective one stays drained.
Verify(c) ==
  /\ cyc[c].pc = "verify"
  /\ LET n == cyc[c].node
         onward == [cyc EXCEPT ![c].pc = After(cyc[c].add, {}), ![c].node = Nowhere]
     IN  \/ NoFault /\ drained' = drained \ {n} /\ cyc' = onward
         \/ Fault /\ drained' = drained \cup ({n} \cap nodes) /\ cyc' = onward
         \/ \* It raises: no more nodes are added.
            /\ Fault /\ UNCHANGED drained
            /\ cyc' = [cyc EXCEPT ![c].pc = "save", ![c].node = Nowhere, ![c].add = NoAdd]
  /\ UNCHANGED <<nodes, big, host, prescale, sidecar, lock, History>>

-----------------------------------------------------------------------------
(* A cycle: scaling down (apply_plan). *)

\* A node that hosts have been placed on since is skipped, as is one that cannot
\* be counted; one task that cannot be read is not counted.
Recheck(c) ==
  /\ cyc[c].pc = "check"
  /\ \E n \in cyc[c].todo :
       LET busy == \E h \in Hosts : host[h].at = n
           left == cyc[c].todo \ {n}
       IN  /\ \A m \in left : m < n
           /\ \/ /\ IF busy THEN Fault ELSE NoFault
                 /\ cyc' = [cyc EXCEPT ![c].pc = "remove", ![c].todo = left, ![c].node = n]
              \/ /\ IF busy THEN NoFault ELSE Fault
                 /\ cyc' = [cyc EXCEPT ![c].pc = After(NoAdd, left), ![c].todo = left]
  /\ UNCHANGED <<Swarm, host, prescale, sidecar, lock, History>>

\* graceful_remove_node raises if the droplet cannot be found or a call fails; a
\* node that Swarm fails to remove stays, drained.
RemoveNode(c) ==
  /\ cyc[c].pc = "remove"
  /\ cyc' = [cyc EXCEPT ![c].pc = After(NoAdd, cyc[c].todo), ![c].node = Nowhere]
  /\ \/ cyc[c].node \in nodes /\ NoFault /\ Leaves(cyc[c].node)
     \/ /\ cyc[c].node \in nodes /\ Fault
        /\ drained' = drained \cup {cyc[c].node} /\ Evicts(cyc[c].node)
        /\ UNCHANGED <<nodes, big, seen, reborn>>
     \/ /\ IF cyc[c].node \in nodes THEN Fault ELSE NoFault
        /\ UNCHANGED <<Swarm, host, seen, reborn>>
  /\ UNCHANGED <<prescale, sidecar, lock, taken>>

-----------------------------------------------------------------------------
(* A cycle: its end. *)

\* Mutant: the lock outlives the process.
UnlockNever(c) ==
  /\ lock' = lock
  /\ cyc' = [cyc EXCEPT ![c] = Idle]
  /\ UNCHANGED <<Swarm, host, prescale, seen, taken>>

\* The lock goes with the process.
Unlock(c) ==
  /\ lock' = Free
  /\ cyc' = [cyc EXCEPT ![c] = Idle]
  /\ UNCHANGED <<Swarm, host, prescale, seen, taken>>

\* Nothing is saved: the entries the cycle has dropped are still in the file.
Lost(c) ==
  /\ Fault
  /\ UNCHANGED sidecar
  /\ reborn' = IF cyc[c].pc = "gather" THEN reborn
               ELSE reborn \cup {n \in nodes : cyc[c].empty[n] = "none" /\ sidecar[n] # "none"}

Save(c) ==
  /\ cyc[c].pc = "save"
  /\ Unlock(c)
  /\ \/ /\ NoFault
        /\ sidecar' = cyc[c].empty
        /\ reborn' = {n \in reborn : cyc[c].empty[n] # "none"}
     \/ Lost(c)

\* A call that nothing catches raises, or the process is killed.
Cut(c) ==
  /\ cyc[c].pc # "idle"
  /\ Unlock(c)
  /\ Lost(c)

Step(c) ==
  \/ Gather(c) \/ AddNode(c) \/ Verify(c) \/ Recheck(c)
  \/ RemoveNode(c) \/ Save(c)

-----------------------------------------------------------------------------
(* Nodes added and removed by hand; hosts and classes. *)

\* `node expand`: a node of either size, once it is verified.
HandAdd ==
  /\ ByOperator
  /\ \E n \in Serials, large \in BOOLEAN : IsNext(n) /\ Joins(n, large)
  /\ UNCHANGED <<drained, host, prescale, sidecar, lock, cyc, seen, taken>>

\* `node stop`, `node contract`
HandRemove ==
  /\ ByOperator
  /\ \E n \in Workers : Leaves(n)
  /\ taken' = taken + 1
  /\ UNCHANGED <<prescale, sidecar, lock, cyc>>

Becomes(h, st, at) == host' = [host EXCEPT ![h] = [st |-> st, at |-> at]]
Running(h) == host[h].at # Nowhere

\* A host is started, placed on a node, becomes ready or purgeable, loses its
\* task, is stopped (the reaper of a cycle stops hosts too).
HostStep(h) ==
  LET st == host[h].st at == host[h].at
  IN  \/ st = "off" /\ Becomes(h, "starting", Nowhere)
      \/ st # "off" /\ ~Running(h) /\ \E n \in Workers \ drained : Becomes(h, st, n)
      \/ st \in {"starting", "quiet"} /\ Running(h) /\ Becomes(h, "ready", at)
      \/ st = "ready" /\ Becomes(h, "quiet", at)
      \/ Running(h) /\ Becomes(h, st, Nowhere)
      \/ st # "off" /\ Becomes(h, "off", Nowhere)

Demands ==
  /\ \/ \E h \in Hosts : HostStep(h) /\ UNCHANGED prescale
     \/ prescale' \in Prescales \ {prescale} /\ UNCHANGED host
  /\ UNCHANGED <<Swarm, sidecar, lock, cyc, History, events>>

Next ==
  \/ \E c \in Cycles : Begin(c) \/ Step(c) \/ Cut(c)
  \/ HandAdd \/ HandRemove \/ Demands

Spec == Init /\ [][Next]_vars

\* Cron runs a cycle every two minutes, and a cycle that is not killed goes on.
Fairness ==
  /\ \A c \in Cron : WF_vars(Begin(c))
  /\ WF_vars(\E c \in Cycles : Step(c))

FairSpec == Spec /\ Fairness

-----------------------------------------------------------------------------
(* Properties. *)

\* The autoscaler never leaves fewer workers than AUTOSCALE_MIN_WORKER_NODES,
\* whatever is added or removed by hand after its plan was made: only what is
\* removed by hand may be missing.
FloorHeld == MinWorkers <= Cardinality(Workers) + taken

\* A node that a cycle from cron means to remove has been counted as empty by
\* every gather for the whole cooldown, unless its entry in the sidecar file is
\* of another time: of an earlier node of the same name, or from before a cycle
\* that died without saving what it had dropped.
CooldownHonoured ==
  [][\A c \in Cron : \A n \in cyc'[c].todo \ cyc[c].todo :
       seen'[n] = "old" \/ n \in reborn]_vars

\* A plan to remove nodes, made when the classes and the starting hosts call for
\* no more than the hosts that run, leaves no deficit for the next cycle to fill.
NotUndone ==
  [][\A c \in Cycles :
       cyc[c].pc = "gather" /\ cyc'[c].todo # {} /\ Wanted <= Load(cyc[c].on) + Headroom
       => Deficit(Workers \ cyc'[c].todo) <= 0]_vars

\* What a plan adds covers the deficit with no node to spare, or is as much as a
\* cycle may add.
ScaleUpFits ==
  [][\A c \in Cycles :
       LET add == cyc'[c].add
           deficit == Deficit(Workers)
       IN  cyc[c].pc = "gather" /\ 0 < Size(add) =>
             /\ deficit <= Brings(add) \/ Size(add) = MaxAdd
             /\ Brings(Fewer(add)) < deficit]_vars

\* Once the hosts and the classes stay as they are, the nodes that take hosts have
\* room for what they call for, again and again, unless no more droplets can be
\* created or a defective node, drained, is counted as capacity.
DemandMet ==
  <>[][FALSE]_<<host, prescale>> =>
    []<>(Deficit(Workers \ drained) <= 0 \/ Full \/ drained # {})

-----------------------------------------------------------------------------
(* What the operator may count on. *)

\* The plan in force is that of the cycle that holds the lock.
InForce == IF lock = Free THEN Idle ELSE cyc[lock]
ToRemove == InForce.todo \cup (IF InForce.pc = "remove" THEN {InForce.node} ELSE {})

Fleet ==
  INSTANCE WorkerFleet WITH Names <- Serials \ Managers, Floor <- MinWorkers,
                            fleet <- Workers, room <- Size(InForce.add), marked <- ToRemove

\* run_autoscale's cycles, with their lock, failures and deaths and what is done by
\* hand meanwhile, are plans carried out one at a time (WorkerFleet).
KeepsFleet == Fleet!Spec

-----------------------------------------------------------------------------
(* What a document in the repository claims. *)

\* A plan to remove nodes never leaves a deficit for the next cycle to fill.
NeverUndone ==
  [][\A c \in Cycles :
       cyc[c].pc = "gather" /\ cyc'[c].todo # {} => Deficit(Workers \ cyc'[c].todo) <= 0]_vars
=============================================================================
