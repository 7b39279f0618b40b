---------------------------- MODULE NodeProvision ----------------------------
(***************************************************************************)
(* Provisioning of nodes (cli/node.py `expand`, and the scale-up of         *)
(* autoscale.py): a serial is chosen, a droplet of that name is created or  *)
(* found, configured, joined to the Swarm, labelled, drained, verified and  *)
(* made active; and the two commands that mend what provisioning left       *)
(* behind, `purge` and `label-backfill`.                                    *)
(*                                                                          *)
(* A name is its serial.  Droplets are numbered in the order in which they  *)
(* are created, as DigitalOcean's ids are.  Nodes and droplets are found by *)
(* name, so a step may reach another one than the step before it did.       *)
(***************************************************************************)
EXTENDS Integers, FiniteSets, FiniteSetsExt

CONSTANTS
  Creators,       \* processes that expand the cluster
  Kinds,          \* what they were called for; see Path
  MaxDroplets,    \* the bound on droplets
  MaxSerial,      \* the bound on serials
  MaxCalls,       \* the bound on commands begun
  Tries,          \* _activate_swarm_node's `retries`
  MaxFaults       \* the bound on calls that fail and processes that die

AllKinds == {"op", "cli", "auto", "create", "configure", "join"}

ASSUME NodeProvisionAssumption ==
  /\ Kinds \subseteq AllKinds
  /\ MaxDroplets \in Nat \ {0, 1} /\ MaxSerial \in Nat \ {0, 1}
  /\ MaxCalls \in Nat
  /\ Tries \in Nat \ {0} /\ MaxFaults \in Nat

Droplets == 1 .. MaxDroplets
Serials == 1 .. MaxSerial
NoDroplet == 0
Tiers == {"small", "large"}

VARIABLES
  drop,     \* DigitalOcean's droplets
  node,     \* Swarm's node on each droplet
  cr,       \* the expansions in progress
  rm,       \* a removal in progress
  pg,       \* a purge in progress
  bf,       \* a label backfill in progress
  served,   \* history: the nodes put into service
  verified, \* history: the droplets that passed verification
  mixed,    \* history: the droplets reused by an expansion for another tier, and those
            \* made while a backfill had listed an earlier one of their name
  known,    \* history: the droplets a failed or killed command left behind, and those
            \* whose node went when another of the name was removed
  suspect,  \* history: the serials handled twice at once, by an operator, or blindly
  calls,
  died,     \* history: an expansion's process was killed
  faults

cluster == <<drop, node>>
history == <<served, verified, mixed, known, suspect>>
vars == <<drop, node, cr, rm, pg, bf, history, calls, died, faults>>

-----------------------------------------------------------------------------

\* fit: docker's major version is the manager's, and cloud-init ends well.
DropRec == [st: {"unborn", "up", "gone"}, serial: 0 .. MaxSerial, size: Tiers,
            fit: BOOLEAN]
\* label: cs.tier and cs.capacity.
NodeRec == [st: {"out", "active", "drain"}, label: Tiers \cup {"none"}]
\* own: the droplet made or found; ip: the one verified; obj, was: the node found
\* before the verification and its availability then.
CrRec == [pc: {"idle", "number", "look", "create", "await", "configure", "join",
               "label", "member", "drain", "verify", "redrain", "activate"},
          kind: AllKinds, tier: Tiers, serial: 0 .. MaxSerial,
          own: 0 .. MaxDroplets, ip: 0 .. MaxDroplets, obj: 0 .. MaxDroplets,
          was: {"active", "drain"}, tries: 0 .. Tries]
NoRm == [pc |-> "idle", d |-> NoDroplet]
RmRec == [pc: {"leave", "destroy"}, d: Droplets]
\* of: the droplets whose sizes are to be labels, by their names.
BfRec == [pc: {"idle", "nodes", "label"}, of: SUBSET Droplets]
\* late: joined since the nodes were listed.
PgRec == [pc: {"idle", "droplets", "act"}, nodes: SUBSET Droplets,
          destroy: SUBSET Droplets, remove: SUBSET Droplets, late: SUBSET Droplets]

TypeOK ==
  /\ drop \in [Droplets -> DropRec]
  /\ node \in [Droplets -> NodeRec]
  /\ cr \in [Creators -> CrRec]
  /\ rm \in RmRec \cup {NoRm}
  /\ pg \in PgRec
  /\ bf \in BfRec
  /\ served \subseteq Droplets /\ verified \subseteq Droplets
  /\ mixed \subseteq Droplets /\ known \subseteq Droplets
  /\ suspect \subseteq 0 .. MaxSerial
  /\ calls \in 0 .. MaxCalls
  /\ died \in BOOLEAN
  /\ faults \in 0 .. MaxFaults

Unborn == [st |-> "unborn", serial |-> 0, size |-> "small", fit |-> TRUE]
First == [st |-> "up", serial |-> 1, size |-> "small", fit |-> TRUE]
Out == [st |-> "out", label |-> "none"]
Idle == [pc |-> "idle", kind |-> "cli", tier |-> "small", serial |-> 0,
         own |-> NoDroplet, ip |-> NoDroplet, obj |-> NoDroplet, was |-> "active",
         tries |-> 0]
NoBf == [pc |-> "idle", of |-> {}]
NoPg == [pc |-> "idle", nodes |-> {}, destroy |-> {}, remove |-> {}, late |-> {}]

\* One node in service, and perhaps a droplet that an expansion left behind, and a
\* backfill that has listed them.
Init ==
  /\ drop \in {[d \in Droplets |-> CASE d = 1 -> First
                                     [] d = 2 -> second
                                     [] OTHER -> Unborn] :
               second \in {Unborn} \cup [st : {"up"}, serial : {2}, size : Tiers, fit : BOOLEAN]}
  /\ node = [d \in Droplets |-> IF d = 1 THEN [st |-> "active", label |-> "small"] ELSE Out]
  /\ cr = [c \in Creators |-> Idle]
  /\ rm = NoRm
  /\ pg = NoPg
  /\ \/ bf = NoBf
     \/ drop[2].st = "up" /\ bf = [pc |-> "nodes", of |-> {1, 2}]
  /\ served = {1} /\ verified = {1}
  /\ known = {d \in Droplets \ {1} : drop[d].st = "up"}
  /\ mixed = {} /\ suspect = {}
  /\ calls = 0
  /\ died = FALSE
  /\ faults = 0

Up == {d \in Droplets : drop[d].st = "up"}
Named(s) == {d \in Up : drop[d].serial = s}
InSwarm == {d \in Droplets : node[d].st # "out"}
Nodes(s) == {d \in InSwarm : drop[d].serial = s}
Busy == {c \in Creators : cr[c].pc # "idle"}
At(c, pc) == cr[c].pc = pc
Fault == faults < MaxFaults /\ faults' = faults + 1
NoFault == faults' = faults
Call == calls < MaxCalls /\ calls' = calls + 1
Suspect(s) == suspect' = suspect \cup {s}

\* `op` is op-run's expand, `cli` a bare `node expand`, `auto` the scale-up; the
\* others are expand's --create, --configure and --join.
Numbered == {"op", "cli", "auto", "create"}
AfterAwait(c) == IF cr[c].kind = "create" THEN "member" ELSE "configure"
AfterConfigure(c) == IF cr[c].kind = "configure" THEN "member" ELSE "join"
AfterJoin(c) == IF cr[c].kind = "auto" THEN "drain" ELSE "member"

Go(c, pc) == cr' = [cr EXCEPT ![c].pc = pc]
Finish(c) == cr' = [cr EXCEPT ![c] = Idle]

\* The command raises or is killed; its droplet stays.
Drop(c) == Finish(c) /\ known' = known \cup ({cr[c].own} \ {NoDroplet})

Raise(c) == Drop(c) /\ UNCHANGED <<drop, node, served, verified, mixed, suspect>> /\ NoFault

Alone == UNCHANGED <<rm, pg, bf, calls, died>>
Begun == Call /\ UNCHANGED <<rm, pg, bf, died>>

-----------------------------------------------------------------------------
(* An expansion. *)

Clash(c, s) == \E o \in Busy \ {c} : cr[o].serial = s

\* op-run holds .node-ops.lock, the autoscaler .autoscale.lock, the others none.
Start(c, k, t) ==
  /\ At(c, "idle")
  /\ k \in {"op", "auto"} => \A o \in Busy : cr[o].kind # k
  /\ k \in Numbered
  /\ cr' = [cr EXCEPT ![c] = [Idle EXCEPT !.pc = "number", !.kind = k, !.tier = t]]
  /\ UNCHANGED <<cluster, history, faults>> /\ Begun

\* --configure and --join name a node.
StartNamed(c, k, s) ==
  /\ At(c, "idle")
  /\ k \in {"configure", "join"}
  /\ cr' = [cr EXCEPT ![c] = [Idle EXCEPT !.pc = k, !.kind = k, !.serial = s]]
  /\ IF Clash(c, s) \/ Nodes(s) # {} THEN Suspect(s) ELSE UNCHANGED suspect
  /\ UNCHANGED <<cluster, served, verified, mixed, known, faults>> /\ Begun

Numbers(c, s) == cr' = [cr EXCEPT ![c].pc = "look", ![c].serial = s]

\* Off by one.
BadNumber(c) ==
  /\ At(c, "number")
  /\ \E s \in Serials : s = Max({1} \cup {drop[d].serial : d \in InSwarm}) /\ Numbers(c, s)
  /\ UNCHANGED <<cluster, history, faults>> /\ Alone

\* _get_next_serial: a failed listing counts no node.
Number(c) ==
  /\ At(c, "number")
  /\ \/ LET s == Max({0} \cup {drop[d].serial : d \in InSwarm}) + 1 IN
          /\ s \in Serials
          /\ Numbers(c, s)
          /\ IF Clash(c, s) THEN Suspect(s) ELSE UNCHANGED suspect
          /\ NoFault
     \/ Numbers(c, 1) /\ Suspect(1) /\ Fault
  /\ UNCHANGED <<cluster, served, verified, mixed, known>> /\ Alone

\* The serial after the one given.
BadGiven(c, s) ==
  /\ At(c, "number") /\ cr[c].kind = "create"
  /\ Numbers(c, s + 1)
  /\ UNCHANGED <<cluster, history, faults>> /\ Alone

\* --create --id.
Given(c, s) ==
  /\ At(c, "number") /\ cr[c].kind = "create"
  /\ Numbers(c, s)
  /\ IF Clash(c, s) \/ Nodes(s) # {} THEN Suspect(s) ELSE UNCHANGED suspect
  /\ UNCHANGED <<cluster, served, verified, mixed, known, faults>> /\ Alone

\* Always makes a droplet.
BadLook(c) ==
  /\ At(c, "look") /\ Go(c, "create")
  /\ UNCHANGED <<cluster, history, faults>> /\ Alone

\* A droplet of that name is reused, whatever its size; a failed listing finds
\* none.
Look(c) ==
  /\ At(c, "look")
  /\ \/ \E d \in Named(cr[c].serial) :
          /\ cr' = [cr EXCEPT ![c].pc = "await", ![c].own = d]
          /\ mixed' = IF drop[d].size # cr[c].tier THEN mixed \cup {d} ELSE mixed
          /\ UNCHANGED suspect /\ NoFault
     \/ /\ Named(cr[c].serial) = {}
        /\ Go(c, "create") /\ UNCHANGED <<mixed, suspect>> /\ NoFault
     \/ Go(c, "create") /\ UNCHANGED mixed /\ Suspect(cr[c].serial) /\ Fault
  /\ UNCHANGED <<cluster, served, verified, known>> /\ Alone

NewDroplet(c, d, fit) ==
  /\ drop[d].st = "unborn" /\ \A e \in Droplets : e < d => drop[e].st # "unborn"
  /\ drop' = [drop EXCEPT ![d] = [st |-> "up", serial |-> cr[c].serial,
                                  size |-> cr[c].tier, fit |-> fit]]

\* The droplet d of serial s, made while a backfill goes by an earlier one's size.
Mixes(d, s) == mixed' = IF \E e \in bf.of : drop[e].serial = s THEN mixed \cup {d} ELSE mixed

\* droplet.create() may raise after the droplet was made.
Create(c) ==
  /\ At(c, "create")
  /\ \/ \E d \in Droplets, fit \in BOOLEAN :
          /\ NewDroplet(c, d, fit) /\ Mixes(d, cr[c].serial)
          /\ \/ cr' = [cr EXCEPT ![c].pc = "await", ![c].own = d] /\ UNCHANGED known
             \/ Finish(c) /\ known' = known \cup {d}
          /\ UNCHANGED <<node, served, verified, suspect>> /\ NoFault
     \/ Raise(c)
  /\ Alone

\* _wait_for_droplet_active, then the tag and the project, both best effort.
Await(c) ==
  /\ At(c, "await")
  /\ \/ /\ cr[c].own \in Up
        /\ cr' = [cr EXCEPT ![c].pc = AfterAwait(c), ![c].ip = cr[c].own]
        /\ UNCHANGED <<cluster, history>> /\ NoFault
     \/ Raise(c)
  /\ Alone

\* Droplets are reached by name, the newest first.
Reached(s) == {d \in Named(s) : \A e \in Named(s) : e <= d}

Configure(c) ==
  /\ At(c, "configure")
  /\ \/ \E d \in Reached(cr[c].serial) :
          /\ cr' = [cr EXCEPT ![c].pc = AfterConfigure(c),
                              ![c].ip = IF cr[c].kind = "auto" THEN @ ELSE d]
          /\ UNCHANGED <<cluster, history>> /\ NoFault
     \/ Raise(c)
  /\ Alone

Past(c) == IF cr[c].kind = "join" THEN Finish(c) ELSE Go(c, AfterJoin(c))

\* A lost answer is ignored: a droplet that did not join passes for one that did.
BadJoin(c) ==
  /\ At(c, "join") /\ Named(cr[c].serial) # {}
  /\ Past(c)
  /\ UNCHANGED <<cluster, history, faults>> /\ Alone

\* Once `docker swarm join` has returned, the node is labelled, unless its tier
\* is unknown.  A node found in the Swarm already, or whose join is tried again
\* because the answer was lost, is not.
Join(c) ==
  /\ At(c, "join")
  /\ \/ \E d \in Reached(cr[c].serial) :
          /\ \/ /\ node[d].st # "out"
                /\ Past(c) /\ UNCHANGED <<node, pg, known>> /\ NoFault
             \/ /\ node[d].st = "out"
                /\ node' = [node EXCEPT ![d] = [st |-> "active", label |-> "none"]]
                /\ pg' = IF pg.pc = "idle" THEN pg ELSE [pg EXCEPT !.late = @ \cup {d}]
                /\ \/ /\ IF cr[c].kind = "join" THEN Finish(c) ELSE Go(c, "label")
                      /\ UNCHANGED known /\ NoFault
                   \/ Past(c) /\ UNCHANGED known /\ Fault
                   \/ Drop(c) /\ Fault
          /\ UNCHANGED <<drop, served, verified, mixed, suspect>>
     \/ Raise(c) /\ UNCHANGED pg
  /\ UNCHANGED <<rm, bf, calls, died>>

\* The node that joined last is labelled.
BadLabel(c) ==
  /\ At(c, "label") /\ Go(c, AfterJoin(c))
  /\ node' = [node EXCEPT ![Max(InSwarm)].label = cr[c].tier]
  /\ UNCHANGED <<drop, history, faults>> /\ Alone

\* _apply_labels_after_join waits for a node of that name, and logs what fails.
Label(c) ==
  /\ At(c, "label")
  /\ Go(c, AfterJoin(c))
  /\ \/ \E d \in Nodes(cr[c].serial) :
          node' = [node EXCEPT ![d].label = cr[c].tier] /\ NoFault
     \/ Nodes(cr[c].serial) = {} /\ UNCHANGED node /\ NoFault
     \/ UNCHANGED node /\ Fault
  /\ UNCHANGED <<drop, history>> /\ Alone

\* The wait for a node of that name among the Swarm's.
Member(c) ==
  /\ At(c, "member")
  /\ \/ /\ Nodes(cr[c].serial) # {}
        /\ Go(c, "drain") /\ UNCHANGED <<cluster, history>> /\ NoFault
     \/ Raise(c)
  /\ Alone

\* A failed verification is only logged.
BadVerify(c) ==
  /\ At(c, "verify") /\ Go(c, "activate")
  /\ UNCHANGED <<cluster, history, faults>> /\ Alone

\* Drained before it is verified.  A node that is not found, or not drained, is
\* only logged.
Drain(c) ==
  /\ At(c, "drain")
  /\ \/ \E d \in Nodes(cr[c].serial) :
          /\ cr' = [cr EXCEPT ![c].pc = "verify", ![c].obj = d, ![c].was = node[d].st]
          /\ \/ node' = [node EXCEPT ![d].st = "drain"] /\ NoFault
             \/ UNCHANGED node /\ Fault
     \/ Nodes(cr[c].serial) = {} /\ Go(c, "verify") /\ UNCHANGED node /\ NoFault
     \/ Go(c, "verify") /\ UNCHANGED node /\ Fault
  /\ UNCHANGED <<drop, history>> /\ Alone

Sound(d) == d \in Up /\ drop[d].fit

\* _verify_node_provisioning: by SSH; docker's version is not looked at when the
\* manager's is unknown.
Verify(c) ==
  /\ At(c, "verify")
  /\ \/ /\ Go(c, "activate") /\ verified' = verified \cup {cr[c].ip}
        /\ \/ Sound(cr[c].ip) /\ NoFault
           \/ cr[c].ip \in Up /\ Fault
     \/ /\ Go(c, "redrain") /\ UNCHANGED verified
        /\ \/ ~Sound(cr[c].ip) /\ NoFault
           \/ Fault
  /\ UNCHANGED <<cluster, served, mixed, known, suspect>> /\ Alone

\* Drained again, whichever node has the name by now, and the command raises.
Redrain(c) ==
  /\ At(c, "redrain")
  /\ Drop(c)
  /\ \/ \E d \in Nodes(cr[c].serial) : node' = [node EXCEPT ![d].st = "drain"] /\ NoFault
     \/ Nodes(cr[c].serial) = {} /\ UNCHANGED node /\ NoFault
     \/ UNCHANGED node /\ Fault
  /\ UNCHANGED <<drop, served, verified, mixed, suspect>> /\ Alone

\* The node found before the verification, or one of that name now.
Target(c) == IF cr[c].obj # NoDroplet THEN {cr[c].obj} ELSE Nodes(cr[c].serial)

\* The node's state from before the drain is trusted.
BadActivate(c) ==
  /\ At(c, "activate")
  /\ \/ cr[c].was = "active" /\ UNCHANGED <<node, served>>
     \/ /\ cr[c].was = "drain"
        /\ \E d \in Target(c) \cap InSwarm :
             node' = [node EXCEPT ![d].st = "active"] /\ served' = served \cup {d}
  /\ Finish(c)
  /\ UNCHANGED <<drop, verified, mixed, known, suspect, faults>> /\ Alone

\* _activate_swarm_node, up to Tries times, on the node's state read again.  If
\* that cannot be read, a node that was active before it was drained is taken
\* for an active one.
Activate(c) ==
  /\ At(c, "activate")
  /\ \/ \E d \in Target(c) \cap InSwarm :
          \/ /\ node' = [node EXCEPT ![d].st = "active"]
             /\ served' = served \cup {d}
             /\ Finish(c) /\ UNCHANGED suspect /\ NoFault
          \/ /\ IF cr[c].tries + 1 >= Tries THEN Finish(c)
                ELSE cr' = [cr EXCEPT ![c].tries = @ + 1, ![c].obj = d, ![c].was = node[d].st]
             /\ UNCHANGED <<node, served, suspect>> /\ Fault
     \/ /\ cr[c].obj # NoDroplet /\ cr[c].was = "active"
        /\ Suspect(cr[c].serial)
        /\ Finish(c) /\ UNCHANGED <<node, served>> /\ Fault
     \/ /\ Target(c) \cap InSwarm = {}
        /\ Finish(c) /\ UNCHANGED <<node, served, suspect>> /\ NoFault
  /\ UNCHANGED <<drop, verified, mixed, known>> /\ Alone

Dies(c) ==
  /\ ~At(c, "idle")
  /\ Drop(c) /\ Fault
  /\ died' = TRUE
  /\ UNCHANGED <<cluster, served, verified, mixed, suspect, rm, pg, bf, calls>>

Expand(c) ==
  \/ Number(c) \/ Look(c) \/ Create(c) \/ Await(c) \/ Configure(c) \/ Join(c)
  \/ Label(c) \/ Member(c) \/ Drain(c) \/ Verify(c) \/ Redrain(c) \/ Activate(c)

-----------------------------------------------------------------------------
(* A removal: `stop`, `contract`, or the scale-down. *)

Removing(d) ==
  /\ rm.pc = "idle" /\ d \in Up
  /\ rm' = [pc |-> "leave", d |-> d]
  /\ Call
  /\ UNCHANGED <<cluster, cr, pg, bf, history, died, faults>>

\* The node of that name leaves the Swarm, be it on another droplet by now; a forced
\* stop leaves it there.
Leave ==
  /\ rm.pc = "leave"
  /\ rm' = [rm EXCEPT !.pc = "destroy"]
  /\ \/ \E d \in Nodes(drop[rm.d].serial) :
          /\ node' = [node EXCEPT ![d] = Out] /\ served' = served \ {d}
          /\ known' = known \cup ({d} \ {rm.d})
     \/ UNCHANGED <<node, served, known>>
  /\ UNCHANGED <<drop, cr, pg, bf, verified, mixed, suspect, calls, died, faults>>

\* Or the droplet stays: the call fails, or the process is killed.
Destroy ==
  /\ rm.pc = "destroy"
  /\ rm' = NoRm
  /\ \/ drop' = [drop EXCEPT ![rm.d].st = "gone"] /\ UNCHANGED known /\ NoFault
     \/ UNCHANGED drop /\ known' = known \cup {rm.d} /\ Fault
  /\ UNCHANGED <<node, cr, pg, bf, served, verified, mixed, suspect, calls, died>>

-----------------------------------------------------------------------------
(* node purge and node label-backfill. *)

\* A dictionary by short name keeps one of each name.
OnePerName(S, T) ==
  /\ S \subseteq T
  /\ \A d \in T : \E e \in S : drop[e].serial = drop[d].serial
  /\ \A d, e \in S : drop[e].serial = drop[d].serial => d = e

NameIn(d, S) == \E e \in S : drop[e].serial = drop[d].serial

\* Either listing, if it fails, finds nothing.
PurgeNodes ==
  /\ pg.pc = "idle" /\ Call
  /\ \/ \E S \in SUBSET InSwarm :
          /\ OnePerName(S, InSwarm)
          /\ pg' = [NoPg EXCEPT !.pc = "droplets", !.nodes = S]
          /\ UNCHANGED suspect /\ NoFault
     \/ /\ pg' = [NoPg EXCEPT !.pc = "droplets"]
        /\ suspect' = suspect \cup Serials /\ Fault
  /\ UNCHANGED <<cluster, cr, rm, bf, served, verified, mixed, known, died>>

\* Drained nodes are taken for absent.
BadPurgePlan(S) ==
  pg' = [pg EXCEPT !.pc = "act", !.nodes = {},
                   !.destroy = {d \in S : node[d].st # "active"}, !.remove = {}]

PurgePlan(S) ==
  pg' = [pg EXCEPT !.pc = "act", !.nodes = {},
                   !.destroy = {d \in S : ~NameIn(d, pg.nodes)},
                   !.remove = {d \in pg.nodes : ~NameIn(d, S)}]

PurgeDroplets ==
  /\ pg.pc = "droplets"
  /\ \/ \E S \in SUBSET Up : OnePerName(S, Up) /\ PurgePlan(S) /\ UNCHANGED suspect /\ NoFault
     \/ PurgePlan({}) /\ suspect' = suspect \cup Serials /\ Fault
  /\ UNCHANGED <<cluster, cr, rm, bf, served, verified, mixed, known, calls, died>>

PurgeDroplet(d) ==
  /\ pg.pc = "act" /\ d \in pg.destroy
  /\ pg' = [pg EXCEPT !.destroy = @ \ {d}]
  /\ \/ drop' = [drop EXCEPT ![d].st = "gone"] /\ NoFault
     \/ UNCHANGED drop /\ Fault
  /\ UNCHANGED <<node, cr, rm, bf, history, calls, died>>

PurgeNode(d) ==
  /\ pg.pc = "act" /\ pg.destroy = {} /\ d \in pg.remove
  /\ pg' = [pg EXCEPT !.remove = @ \ {d}]
  /\ \/ node' = [node EXCEPT ![d] = Out] /\ served' = served \ {d} /\ NoFault
     \/ UNCHANGED <<node, served>> /\ Fault
  /\ UNCHANGED <<drop, cr, rm, bf, verified, mixed, known, suspect, calls, died>>

PurgeEnds ==
  /\ pg.pc = "act" /\ pg.destroy = {} /\ pg.remove = {}
  /\ pg' = NoPg
  /\ UNCHANGED <<cluster, cr, rm, bf, history, calls, died, faults>>

\* label-backfill: the droplets are listed, then the nodes.  A failed listing, or a
\* death, ends it.
BackfillDroplets ==
  /\ bf.pc = "idle" /\ Call
  /\ \E S \in SUBSET Up : OnePerName(S, Up) /\ bf' = [pc |-> "nodes", of |-> S]
  /\ UNCHANGED <<cluster, cr, rm, pg, history, died, faults>>

Labels(S) == IF S = {} THEN NoBf ELSE [pc |-> "label", of |-> S]

\* The names whose node has no label and whose droplet was listed.
BackfillNodes ==
  /\ bf.pc = "nodes"
  /\ bf' = Labels({e \in bf.of : \E d \in Nodes(drop[e].serial) : node[d].label = "none"})
  /\ UNCHANGED <<cluster, cr, rm, pg, history, calls, died, faults>>

\* _ensure_node_labels writes over the label of whichever node has the name by now,
\* and logs what fails.
BackfillLabel(e) ==
  /\ bf.pc = "label" /\ e \in bf.of
  /\ bf' = Labels(bf.of \ {e})
  /\ \/ \E d \in Nodes(drop[e].serial) : node' = [node EXCEPT ![d].label = drop[e].size]
     \/ UNCHANGED node
  /\ UNCHANGED <<drop, cr, rm, pg, history, calls, died, faults>>

BackfillEnds ==
  /\ bf.pc # "idle"
  /\ bf' = NoBf
  /\ UNCHANGED <<cluster, cr, rm, pg, history, calls, died, faults>>

-----------------------------------------------------------------------------

Removal == Leave \/ Destroy

Purge == PurgeDroplets \/ PurgeEnds \/ \E d \in Droplets : PurgeDroplet(d) \/ PurgeNode(d)

Backfill ==
  BackfillDroplets \/ BackfillNodes \/ BackfillEnds \/ \E e \in Droplets : BackfillLabel(e)

Next ==
  \/ \E c \in Creators : \/ \E k \in Kinds, t \in Tiers : Start(c, k, t)
                         \/ \E k \in Kinds, s \in Serials : StartNamed(c, k, s)
                         \/ \E s \in Serials : Given(c, s)
                         \/ Expand(c) \/ Dies(c)
  \/ Removal \/ PurgeNodes \/ Purge \/ Backfill
  \/ \E d \in Droplets : Removing(d)

Spec == Init /\ [][Next]_vars

-----------------------------------------------------------------------------
(* Safety. *)

\* _get_next_serial and the reuse of a droplet by name: two droplets share a name
\* only if two expansions worked on it at once, or a listing failed.  Leftovers
\* of failed expansions, removals and purges in between make none.
UniqueNames ==
  \A d, e \in Up : d # e /\ drop[d].serial = drop[e].serial => drop[d].serial \in suspect

\* "Idempotent": an expansion drains no node in service, however late it comes to
\* the drain, unless another expansion had the same name, an operator named it,
\* or a listing failed.
ServingUndisturbed ==
  [][\A d \in served : node[d].st = "active" /\ node'[d].st = "drain"
                         => drop[d].serial \in suspect]_vars

\* The verification is "a hard-fail gate": no node is made active by an expansion
\* whose droplet has not passed, though both are found by name and may change
\* between the steps.
ActivatedIsVerified ==
  [][\A d \in Droplets : node[d].st = "drain" /\ node'[d].st = "active"
                           => d \in verified \/ drop[d].serial \in suspect]_vars

\* cs.tier and cs.capacity, from which the autoscaler counts seats, are those of
\* the droplet's size, except where an expansion reused a droplet of another, or the
\* droplet was made while a backfill went by an earlier one of the name.
LabelsHonest ==
  \A d \in InSwarm :
    node[d].label # "none" /\ node[d].label # drop[d].size
      => d \in mixed \/ drop[d].serial \in suspect

\* A droplet outside the Swarm is in the hands of a command, or of one that
\* failed: no expansion reports success and leaves one.
NoSilentLeftover ==
  \A d \in Up \ InSwarm :
    \/ \E c \in Busy : cr[c].own = d
    \/ d \in known \/ rm.d = d
    \/ drop[d].serial \in suspect

\* purge: "Destroy DO_TAG-tagged droplets not in swarm and remove swarm nodes
\* without droplets".  It takes no machine that has both, unless a listing failed
\* or the node joined after the nodes were listed.
PurgeSpares ==
  [][\A d \in Up \cap InSwarm :
       /\ pg.pc = "act" /\ (d \in pg.destroy \/ d \in pg.remove) /\ d \notin pg'.destroy \cup pg'.remove
       => d \in pg.late \/ drop[d].serial \in suspect]_vars

\* _activate_swarm_node: "a node that gets warmed but never reactivates is
\* silently-wasted capacity".  An expansion that drained a node and verified it
\* does not end with the node drained, unless its tries all failed, the process
\* was killed, or the node's state could not be read.
WarmedServes ==
  [][\A c \in Creators, d \in Droplets :
       /\ At(c, "activate") /\ cr[c].obj = d /\ node[d].st = "drain"
       /\ cr'[c].pc = "idle"
       => node'[d].st # "drain" \/ faults' >= Tries \/ died' \/ drop[d].serial \in suspect']_vars
=============================================================================
