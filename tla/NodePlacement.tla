---------------------------- MODULE NodePlacement ----------------------------
(***************************************************************************)
(* The placement of code hosts on worker nodes while nodes are removed:      *)
(* the pin that a start puts on its new service (csmanager.py), `node        *)
(* rebalance`, and the three ways a node is removed: by the autoscaler, by   *)
(* graceful_remove_node and by `node stop --force` (cli/node.py).            *)
(*                                                                          *)
(* Swarm schedules a service's task on an active node its pin allows.  A     *)
(* service update names the version it was computed from and is refused if   *)
(* the service has changed since.  Managers never run hosts and are left     *)
(* out.                                                                      *)
(***************************************************************************)
EXTENDS Integers, FiniteSets

CONSTANTS
  Nodes,       \* the workers; none is added
  Svcs,        \* service ids, never reused: the bound on starts
  Removers,    \* processes that remove nodes
  NoNode,
  Kinds,       \* the kinds of removal: "auto", "graceful", "force"
  Pinning,     \* PIN_HOSTS_TO_NODE
  Rebalances,  \* the bound on runs of `node rebalance`
  MaxFaults    \* the bound on failed Docker and DigitalOcean calls and on deaths

ASSUME PlacementAssumption ==
  /\ NoNode \notin Nodes
  /\ Kinds \subseteq {"auto", "graceful", "force"}
  /\ Pinning \in BOOLEAN
  /\ Rebalances \in Nat /\ MaxFaults \in Nat
  /\ Removers \cap {"start", "rebalance"} = {}

VARIABLES
  node,    \* availability of each node in the Swarm, or gone from it
  droplet, \* the nodes whose droplet exists
  svc,     \* code-server services and their tasks
  start,   \* the start of each service, until it is pinned
  reb,     \* the run of `node rebalance`
  rem,     \* the removals
  fresh,   \* the services whose version each client's copy still has
  missed,  \* history: services whose pin no removal of its node will clear
  undrained, \* history: nodes whose removal went on without knowing them drained
  faults

vars == <<node, droplet, svc, start, reb, rem, fresh, missed, undrained, faults>>

Clients == {"start", "rebalance"} \cup Removers
MaybeNode == Nodes \cup {NoNode}

-----------------------------------------------------------------------------

SvcRec == [st: {"unborn", "live", "gone"}, pin: MaybeNode, at: MaybeNode, run: BOOLEAN]
StartRec == [pc: {"none", "resolve", "pin"}, node: MaybeNode]
RebRec == [pc: {"idle", "list", "tasks", "moves"}, eligible: SUBSET Nodes,
           unread: SUBSET Svcs, members: [Nodes -> SUBSET Svcs], runs: 0 .. Rebalances]

\* list: about to list the pinned services.  clear: clearing the pins in todo.
Cleared == {"clear", "wait", "remove", "destroy"}
RemRec == [pc: {"idle", "recheck", "find", "list"} \cup Cleared, node: MaybeNode,
           kind: {"auto", "graceful", "force"}, found: BOOLEAN, todo: SUBSET Svcs]

TypeOK ==
  /\ node \in [Nodes -> {"active", "drain", "gone"}]
  /\ droplet \subseteq Nodes
  /\ svc \in [Svcs -> SvcRec]
  /\ start \in [Svcs -> StartRec]
  /\ reb \in RebRec
  /\ rem \in [Removers -> RemRec]
  /\ fresh \in [Clients -> SUBSET Svcs]
  /\ missed \subseteq Svcs
  /\ undrained \subseteq Nodes
  /\ faults \in 0 .. MaxFaults

NoSvc == [st |-> "unborn", pin |-> NoNode, at |-> NoNode, run |-> FALSE]
NoStart == [pc |-> "none", node |-> NoNode]
NoMembers == [n \in Nodes |-> {}]
NoRem == [pc |-> "idle", node |-> NoNode, kind |-> "graceful", found |-> FALSE, todo |-> {}]
NoReb(runs) == [pc |-> "idle", eligible |-> {}, unread |-> {}, members |-> NoMembers,
                runs |-> runs]

\* Services of earlier starts run on their nodes, pinned or not.
Init ==
  /\ node = [n \in Nodes |-> "active"]
  /\ droplet = Nodes
  /\ \E old \in SUBSET Svcs, on \in [Svcs -> Nodes], pinned \in SUBSET Svcs :
       svc = [s \in Svcs |->
                IF s \notin old THEN NoSvc
                ELSE [st |-> "live", at |-> on[s], run |-> TRUE,
                      pin |-> IF s \in pinned THEN on[s] ELSE NoNode]]
  /\ start = [s \in Svcs |-> NoStart]
  /\ reb = NoReb(0)
  /\ rem = [r \in Removers |-> NoRem]
  /\ fresh = [c \in Clients |-> {}]
  /\ missed = {} /\ undrained = {}
  /\ faults = 0

Live(s) == svc[s].st = "live"
Usable(n) == node[n] = "active" /\ n \in droplet
Tasks(n) == {s \in Svcs : svc[s].at = n}
RunningOn(n) == {s \in Tasks(n) : svc[s].run}
PinnedTo(n) == {s \in Svcs : Live(s) /\ svc[s].pin = n}
Fault == faults < MaxFaults /\ faults' = faults + 1
NoFault == faults' = faults

\* A node that no removal will list the pins of again: one being removed, past
\* its listing, or one already drained or destroyed.
Doomed(n) ==
  \/ ~Usable(n)
  \/ \E r \in Removers : rem[r].node = n /\ rem[r].pc \in Cleared

-----------------------------------------------------------------------------
(* Swarm's service update. *)

Unchanged == UNCHANGED <<svc, fresh, missed>>

\* Mutant: the update names no version.
AcceptedAny(c, s, pin, missing) ==
  /\ Live(s)
  /\ svc' = [svc EXCEPT ![s].pin = pin]
  /\ fresh' = fresh
  /\ missed' = missing
  /\ NoFault

\* svc.update(constraints=...) by client c, with what becomes of `missed`.
Accepted(c, s, pin, missing) ==
  /\ Live(s) /\ s \in fresh[c]
  /\ svc' = [svc EXCEPT ![s].pin = pin]
  /\ fresh' = [d \in Clients |-> fresh[d] \ {s}]
  /\ missed' = missing
  /\ NoFault

Refused(c, s) == ~(Live(s) /\ s \in fresh[c]) /\ Unchanged /\ NoFault

\* _pin_service_to_node; every caller catches what it raises.
Pin(c, s, n) ==
  \/ Accepted(c, s, n, IF Doomed(n) THEN missed \cup {s} ELSE missed \ {s})
  \/ Refused(c, s)
  \/ Unchanged /\ Fault

-----------------------------------------------------------------------------
(* A start: create the service, find where Swarm put it, pin it there. *)

Create(s) ==
  /\ svc[s].st = "unborn"
  /\ svc' = [svc EXCEPT ![s].st = "live"]
  /\ start' = [start EXCEPT ![s].pc = IF Pinning THEN "resolve" ELSE "none"]
  /\ fresh' = [fresh EXCEPT !["start"] = @ \cup {s}]
  /\ UNCHANGED <<node, droplet, reb, rem, missed, undrained, faults>>

\* _resolve_task_node_fqdn finds a task whose node Swarm knows, or gives up.  A
\* task that has ended since is one found earlier.
Resolve(s) ==
  /\ start[s].pc = "resolve"
  /\ \/ svc[s].at # NoNode /\ node[svc[s].at] # "gone"
        /\ start' = [start EXCEPT ![s] = [pc |-> "pin", node |-> svc[s].at]]
     \/ start' = [start EXCEPT ![s] = NoStart]
  /\ UNCHANGED <<node, droplet, svc, reb, rem, fresh, missed, undrained, faults>>

PinNew(s) ==
  /\ start[s].pc = "pin"
  /\ Pin("start", s, start[s].node)
  /\ start' = [start EXCEPT ![s] = NoStart]
  /\ UNCHANGED <<node, droplet, reb, rem, undrained>>

-----------------------------------------------------------------------------
(* node rebalance. *)

\* nodes.list(): active workers may receive hosts.
RebNodes ==
  /\ reb.pc = "idle" /\ reb.runs < Rebalances
  /\ reb' = [NoReb(reb.runs + 1) EXCEPT !.pc = "list",
                                        !.eligible = {n \in Nodes : node[n] = "active"}]
  /\ UNCHANGED <<node, droplet, svc, start, rem, fresh, missed, undrained, faults>>

\* services.list().
RebList ==
  /\ reb.pc = "list"
  /\ LET live == {s \in Svcs : Live(s)} IN
       /\ reb' = [reb EXCEPT !.pc = "tasks", !.unread = live]
       /\ fresh' = [fresh EXCEPT !["rebalance"] = live]
  /\ UNCHANGED <<node, droplet, svc, start, rem, missed, undrained, faults>>

\* svc.tasks() of one of them, which raises out of the command if it has gone.
RebTasks(s) ==
  /\ reb.pc = "tasks" /\ s \in reb.unread
  /\ reb' = IF ~Live(s) THEN NoReb(reb.runs)
            ELSE [reb EXCEPT !.unread = @ \ {s},
                             !.members = [n \in Nodes |-> IF s \in RunningOn(n)
                                                          THEN @[n] \cup {s} ELSE @[n]]]
  /\ UNCHANGED <<node, droplet, svc, start, rem, fresh, missed, undrained, faults>>

RebPlan ==
  /\ reb.pc = "tasks" /\ reb.unread = {}
  /\ reb' = IF reb.eligible = {} THEN NoReb(reb.runs) ELSE [reb EXCEPT !.pc = "moves"]
  /\ UNCHANGED <<node, droplet, svc, start, rem, fresh, missed, undrained, faults>>

Load(n) == Cardinality(reb.members[n])
Least == {n \in reb.eligible : \A m \in reb.eligible : Load(n) <= Load(m)}
Most == {n \in reb.eligible : \A m \in reb.eligible : Load(n) >= Load(m)}
Evacuated == \A n \in Nodes \ reb.eligible : reb.members[n] = {}

\* plan_rebalance, move by move: first off the nodes that may not receive, then
\* from the most to the least loaded until they differ by at most one.
NextMove(s, src, tgt) ==
  /\ s \in reb.members[src] /\ tgt \in Least
  /\ \/ src \notin reb.eligible
     \/ Evacuated /\ src \in Most /\ Load(src) - Load(tgt) > 1

Moved(s, src, tgt) == [reb.members EXCEPT ![src] = @ \ {s}, ![tgt] = @ \cup {s}]

\* The plan is computed before the first move and needs nothing of the cluster,
\* so each move is taken from it as it is made.  The push changes nothing here.
RebMove(s, tgt) ==
  /\ reb.pc = "moves"
  /\ \E src \in Nodes :
       /\ NextMove(s, src, tgt)
       /\ reb' = [reb EXCEPT !.members = Moved(s, src, tgt)]
  /\ Pin("rebalance", s, tgt)
  /\ UNCHANGED <<node, droplet, start, rem, undrained>>

\* The plan is exhausted, or cut: --max-moves, --dry-run.
RebEnd ==
  /\ reb.pc = "moves"
  /\ reb' = NoReb(reb.runs)
  /\ UNCHANGED <<node, droplet, svc, start, rem, fresh, missed, undrained, faults>>

-----------------------------------------------------------------------------
(* Removals of nodes. *)

RemGo(r, pc) == rem' = [rem EXCEPT ![r].pc = pc]
RemStop(r) == rem' = [rem EXCEPT ![r] = NoRem]

\* The autoscaler has planned the removal from a count that showed none running.
Remove(r, n, kind) ==
  /\ rem[r].pc = "idle" /\ n \in droplet
  /\ kind \in Kinds
  /\ kind = "auto" => RunningOn(n) = {}
  /\ rem' = [rem EXCEPT ![r] = [NoRem EXCEPT
       !.pc = CASE kind = "auto" -> "recheck" [] kind = "graceful" -> "find"
                [] kind = "force" -> "list",
       !.node = n, !.kind = kind]]
  /\ UNCHANGED <<node, droplet, svc, start, reb, fresh, missed, undrained, faults>>

\* apply_plan counts again.  The count fails, or leaves out a service whose tasks
\* it could not list.
Recheck(r) ==
  /\ rem[r].pc = "recheck"
  /\ \/ RunningOn(rem[r].node) = {} /\ RemGo(r, "find") /\ NoFault
     \/ RunningOn(rem[r].node) # {} /\ RemStop(r) /\ NoFault
     \/ (RemGo(r, "find") \/ RemStop(r)) /\ Fault
  /\ UNCHANGED <<node, droplet, svc, start, reb, fresh, missed, undrained>>

\* A call failed, or was not made, that the rest of the removal counts on.
Presumed(r) == undrained' = undrained \cup {rem[r].node}

\* _find_swarm_node: a failed listing finds nothing.
Find(r) ==
  /\ rem[r].pc = "find"
  /\ \/ /\ rem' = [rem EXCEPT ![r].pc = "list", ![r].found = node[rem[r].node] # "gone"]
        /\ NoFault /\ UNCHANGED undrained
     \/ RemGo(r, "list") /\ Fault /\ Presumed(r)
  /\ UNCHANGED <<node, droplet, svc, start, reb, fresh, missed>>

\* Mutant: only hosts whose task is on the node are looked at.
ListTasks(r) ==
  /\ rem[r].pc = "list"
  /\ LET pinned == PinnedTo(rem[r].node) \cap Tasks(rem[r].node) IN
       /\ rem' = [rem EXCEPT ![r].pc = "clear", ![r].todo = pinned]
       /\ fresh' = [fresh EXCEPT ![r] = pinned]
  /\ UNCHANGED <<node, droplet, svc, start, reb, missed, undrained, faults>>

\* _unpin_services_from_node lists the services.  If that fails, a forced stop
\* goes on and any other ends.
ListPins(r) ==
  /\ rem[r].pc = "list"
  /\ LET pinned == PinnedTo(rem[r].node) IN
     \/ /\ rem' = [rem EXCEPT ![r].pc = "clear", ![r].todo = pinned]
        /\ fresh' = [fresh EXCEPT ![r] = pinned]
        /\ UNCHANGED missed /\ NoFault
     \/ /\ rem[r].kind = "force"
        /\ RemGo(r, "clear")
        /\ missed' = missed \cup pinned
        /\ UNCHANGED fresh /\ Fault
     \/ /\ rem[r].kind # "force"
        /\ RemStop(r)
        /\ UNCHANGED <<fresh, missed>> /\ Fault
  /\ UNCHANGED <<node, droplet, svc, start, reb, undrained>>

\* One service's update; a failure is only logged.
Unpin(r, s) ==
  /\ rem[r].pc = "clear" /\ s \in rem[r].todo
  /\ \/ Accepted(r, s, NoNode, missed \ {s})
     \/ Refused(r, s)
     \/ /\ missed' = IF svc[s].pin = rem[r].node THEN missed \cup {s} ELSE missed
        /\ UNCHANGED <<svc, fresh>> /\ Fault
  /\ rem' = [rem EXCEPT ![r].todo = @ \ {s}]
  /\ UNCHANGED <<node, droplet, start, reb, undrained>>

\* Every pin has been tried: a node not in the Swarm, and a forced stop, go
\* straight to the droplet.
Skip(r) ==
  /\ rem[r].pc = "clear" /\ rem[r].todo = {} /\ ~rem[r].found
  /\ RemGo(r, "destroy")
  /\ IF rem[r].kind = "force" THEN Presumed(r) ELSE UNCHANGED undrained
  /\ UNCHANGED <<node, droplet, svc, start, reb, fresh, missed, faults>>

\* Mutant: removed without having been drained.
NoDrain(r) ==
  /\ rem[r].pc = "clear" /\ rem[r].todo = {} /\ rem[r].found
  /\ RemGo(r, "wait")
  /\ UNCHANGED <<node, droplet, svc, start, reb, fresh, missed, undrained, faults>>

\* Mutant: an availability the rest does not expect.
Pause(r) ==
  /\ rem[r].pc = "clear" /\ rem[r].todo = {} /\ rem[r].found
  /\ RemGo(r, "wait")
  /\ node' = [node EXCEPT ![rem[r].node] = "pause"]
  /\ UNCHANGED <<droplet, svc, start, reb, fresh, missed, undrained, faults>>

\* _drain_swarm_node logs what it raises.
Drain(r) ==
  /\ rem[r].pc = "clear" /\ rem[r].todo = {} /\ rem[r].found
  /\ RemGo(r, "wait")
  /\ \/ /\ node' = [node EXCEPT ![rem[r].node] = IF @ = "active" THEN "drain" ELSE @]
        /\ NoFault /\ UNCHANGED undrained
     \/ UNCHANGED node /\ Fault /\ Presumed(r)
  /\ UNCHANGED <<droplet, svc, start, reb, fresh, missed>>

\* _wait_node_tasks_drained: no task, ten minutes, or a failed listing.
Wait(r) ==
  /\ rem[r].pc = "wait"
  /\ RemGo(r, "remove")
  /\ \/ Tasks(rem[r].node) = {} /\ UNCHANGED undrained /\ NoFault
     \/ Presumed(r) /\ (NoFault \/ Fault)
  /\ UNCHANGED <<node, droplet, svc, start, reb, fresh, missed>>

RemoveNode(r) ==
  /\ rem[r].pc = "remove"
  /\ RemGo(r, "destroy")
  /\ \/ node' = [node EXCEPT ![rem[r].node] = "gone"] /\ NoFault
     \/ UNCHANGED node /\ Fault
  /\ UNCHANGED <<droplet, svc, start, reb, fresh, missed, undrained>>

Destroy(r) ==
  /\ rem[r].pc = "destroy"
  /\ RemStop(r)
  /\ \/ droplet' = droplet \ {rem[r].node} /\ NoFault
     \/ UNCHANGED droplet /\ Fault
  /\ UNCHANGED <<node, svc, start, reb, fresh, missed, undrained>>

\* The process dies with its container.
Dies(r) ==
  /\ rem[r].pc # "idle"
  /\ RemStop(r) /\ Fault
  /\ UNCHANGED <<node, droplet, svc, start, reb, fresh, missed, undrained>>

-----------------------------------------------------------------------------
(* Swarm, and hosts stopped by others. *)

Allowed(s, n) == Usable(n) /\ svc[s].pin \in {NoNode, n}

Schedule(s, n) ==
  /\ Live(s) /\ svc[s].at = NoNode
  /\ Allowed(s, n)
  /\ svc' = [svc EXCEPT ![s].at = n]
  /\ UNCHANGED <<node, droplet, start, reb, rem, fresh, missed, undrained, faults>>

TaskRuns(s) ==
  /\ svc[s].at # NoNode /\ ~svc[s].run
  /\ Usable(svc[s].at)
  /\ svc' = [svc EXCEPT ![s].run = TRUE]
  /\ UNCHANGED <<node, droplet, start, reb, rem, fresh, missed, undrained, faults>>

\* The task fails, is replaced after an update, or may not stay.
TaskEnds(s) ==
  /\ svc[s].at # NoNode
  /\ svc' = [svc EXCEPT ![s].at = NoNode, ![s].run = FALSE]
  /\ UNCHANGED <<node, droplet, start, reb, rem, fresh, missed, undrained, faults>>

StopHost(s) ==
  /\ Live(s)
  /\ svc' = [svc EXCEPT ![s] = [NoSvc EXCEPT !.st = "gone"]]
  /\ UNCHANGED <<node, droplet, start, reb, rem, fresh, missed, undrained, faults>>

-----------------------------------------------------------------------------

Removal(r) ==
  \/ Recheck(r) \/ Find(r) \/ ListPins(r) \/ \E s \in Svcs : Unpin(r, s)
  \/ Skip(r) \/ Drain(r) \/ Wait(r) \/ RemoveNode(r) \/ Destroy(r)

Rebalance ==
  RebList \/ RebPlan \/ RebEnd
    \/ \E s \in Svcs : RebTasks(s) \/ \E n \in Nodes : RebMove(s, n)

Next ==
  \/ RebNodes \/ Rebalance
  \/ \E r \in Removers : \/ Removal(r) \/ Dies(r)
                         \/ \E n \in Nodes, k \in Kinds : Remove(r, n, k)
  \/ \E s \in Svcs : \/ Create(s) \/ Resolve(s) \/ PinNew(s)
                     \/ TaskRuns(s) \/ TaskEnds(s) \/ StopHost(s)
                     \/ \E n \in Nodes : Schedule(s, n)

Spec == Init /\ [][Next]_vars

\* Processes run, the waits have deadlines, and Swarm reconciles.
Fairness ==
  /\ WF_vars(Rebalance)
  /\ \A r \in Removers : WF_vars(Removal(r))
  /\ \A s \in Svcs : /\ WF_vars(Resolve(s)) /\ WF_vars(PinNew(s))
                     /\ WF_vars(\E n \in Nodes : Schedule(s, n))
                     /\ WF_vars(svc[s].at # NoNode /\ ~Allowed(s, svc[s].at) /\ TaskEnds(s))

FairSpec == Spec /\ Fairness

-----------------------------------------------------------------------------
(* Safety. *)

Lost(n) == node[n] = "gone" \/ n \notin droplet

\* Pinned to a node that no longer exists: Swarm will never run it.
Stranded(s) == Live(s) /\ svc[s].pin # NoNode /\ Lost(svc[s].pin)

\* _unpin_services_from_node against every writer of pins: a removal strands
\* only a service pinned to the node after the removal had listed its pins, or
\* one whose update failed.  Refused updates and other removals strand none.
StrandedOnlyIfMissed == \A s \in Svcs : Stranded(s) => s \in missed

\* graceful_remove_node ("Drain -> wait-tasks-drained -> remove-swarm-node ->
\* destroy-droplet"): no task loses its node under it but by a forced stop, a wait
\* that ran out, or one of the three calls whose failure is taken for a drained
\* node (the search for the node, the drain, the listing of its tasks): not by
\* two removals that overlap, nor by one that fails elsewhere or dies half-way and
\* is done again.
DrainedFirst ==
  \A s \in Svcs : svc[s].at # NoNode /\ Lost(svc[s].at) => svc[s].at \in undrained

\* _unpin_services_from_node writes constraints it read before: a pin is only ever
\* cleared by a removal of the node it names, and one set since by a start or a
\* rebalance is never lost with it.
UnpinsOwn ==
  [][\A s \in Svcs :
       Live(s) /\ Live(s)' /\ svc[s].pin # NoNode /\ svc'[s].pin = NoNode =>
         \E r \in Removers : rem[r].node = svc[s].pin /\ rem[r].pc = "clear"]_vars

-----------------------------------------------------------------------------
(* Liveness. *)

\* "affected hosts land on another eligible worker" (SUC-003 of sprint 014).
Rehosted ==
  \A s \in Svcs :
    Live(s) /\ svc[s].at = NoNode
      ~> \/ ~Live(s) \/ svc[s].at # NoNode \/ s \in missed
         \/ \A n \in Nodes : ~Usable(n)

-----------------------------------------------------------------------------
(* What a document in the repository claims. *)

\* Sprint 014, SUC-003: "No codehost service is left permanently pinned to a
\* node that no longer exists".
NeverStranded == \A s \in Svcs : ~Stranded(s)
=============================================================================
