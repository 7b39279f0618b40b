------------------------ MODULE NodeProvision_proofs ------------------------
(***************************************************************************)
(* Proofs about NodeProvision: types, that names stay unique, and that a     *)
(* purge takes no machine that is both a droplet and a node.                 *)
(***************************************************************************)
EXTENDS NodeProvision, TLAPS

-----------------------------------------------------------------------------
(* Types. *)

LEMMA Resets ==
  /\ Idle \in CrRec /\ NoPg \in PgRec /\ NoBf \in BfRec
  /\ Unborn \in DropRec /\ Out \in NodeRec
BY NodeProvisionAssumption
   DEF Idle, CrRec, NoRm, RmRec, NoPg, PgRec, NoBf, BfRec, Unborn, DropRec, Out, NodeRec, AllKinds,
       Tiers, NoDroplet

LEMMA InitTypes == Init => TypeOK
<1> SUFFICES ASSUME Init PROVE TypeOK
  OBVIOUS
<1>1. PICK second \in {Unborn} \cup [st : {"up"}, serial : {2}, size : Tiers, fit : BOOLEAN] :
        drop = [d \in Droplets |-> CASE d = 1 -> First
                                     [] d = 2 -> second
                                     [] OTHER -> Unborn]
  BY DEF Init
<1>2. second \in DropRec
  BY <1>1, Resets, NodeProvisionAssumption DEF DropRec
<1>3. First \in DropRec
  BY NodeProvisionAssumption DEF First, DropRec, Tiers
<1>4. drop \in [Droplets -> DropRec]
  <2>1. ASSUME NEW d \in Droplets
        PROVE  (CASE d = 1 -> First
                  [] d = 2 -> second [] OTHER -> Unborn) \in DropRec
    <3>1. CASE d = 1
      BY <3>1, <1>3
    <3>2. CASE d = 2
      BY <3>2, <1>2
    <3>3. CASE d # 1 /\ d # 2
      BY <3>3, Resets
    <3> QED
      BY <3>1, <3>2, <3>3
  <2> QED
    BY <1>1, <2>1
<1>5. node \in [Droplets -> NodeRec]
  BY Resets DEF Init, NodeRec, Tiers
<1>6. cr \in [Creators -> CrRec]
  BY Resets DEF Init
<1>7. 1 \in Droplets
  BY NodeProvisionAssumption DEF Droplets
<1>8. rm \in RmRec \cup {NoRm} /\ pg \in PgRec /\ bf \in BfRec
  BY Resets, NodeProvisionAssumption, SMTT(20) DEF Init, BfRec, Droplets
<1>9. /\ served \subseteq Droplets /\ verified \subseteq Droplets
      /\ mixed \subseteq Droplets /\ known \subseteq Droplets /\ suspect \subseteq 0 .. MaxSerial
  BY <1>7 DEF Init
<1>10. calls = 0 /\ died = FALSE /\ faults = 0
  BY Zenon DEF Init
<1>11. calls \in 0 .. MaxCalls /\ faults \in 0 .. MaxFaults
  BY <1>10, NodeProvisionAssumption
<1> QED
  BY <1>4, <1>5, <1>6, <1>8, <1>9, <1>10, <1>11 DEF TypeOK

\* What an expansion's record, a droplet's and a node's keep of their types.
LEMMA CrFields ==
  ASSUME TypeOK, NEW c \in Creators
  PROVE  /\ cr[c] \in CrRec
         /\ cr[c].serial \in 0 .. MaxSerial /\ cr[c].tier \in Tiers
         /\ cr[c].own \in 0 .. MaxDroplets /\ cr[c].ip \in 0 .. MaxDroplets
         /\ cr[c].tries \in 0 .. Tries
BY DEF TypeOK, CrRec

LEMMA DropFields ==
  ASSUME TypeOK, NEW d \in Droplets
  PROVE  /\ drop[d] \in DropRec /\ node[d] \in NodeRec
         /\ drop[d].serial \in 0 .. MaxSerial /\ drop[d].size \in Tiers
BY DEF TypeOK, DropRec, NodeRec

LEMMA Updates ==
  ASSUME TypeOK
  PROVE  /\ \A c \in Creators, r \in CrRec : [cr EXCEPT ![c] = r] \in [Creators -> CrRec]
         /\ \A d \in Droplets, r \in DropRec : [drop EXCEPT ![d] = r] \in [Droplets -> DropRec]
         /\ \A d \in Droplets, r \in NodeRec : [node EXCEPT ![d] = r] \in [Droplets -> NodeRec]
BY DEF TypeOK

LEMMA GoType ==
  ASSUME TypeOK, NEW c \in Creators, NEW pc, Go(c, pc),
         pc \in {"idle", "number", "look", "create", "await", "configure", "join",
                 "label", "member", "drain", "verify", "redrain", "activate"}
  PROVE  cr' \in [Creators -> CrRec]
<1>1. cr' = [cr EXCEPT ![c] = [cr[c] EXCEPT !.pc = pc]]
  BY DEF Go, TypeOK
<1>2. [cr[c] EXCEPT !.pc = pc] \in CrRec
  BY CrFields DEF CrRec
<1> QED
  BY <1>1, <1>2, Updates

LEMMA FinishType ==
  ASSUME TypeOK, NEW c \in Creators, Finish(c)
  PROVE  cr' \in [Creators -> CrRec]
BY Updates, Resets DEF Finish

LEMMA DropType ==
  ASSUME TypeOK, NEW c \in Creators, Drop(c)
  PROVE  cr' \in [Creators -> CrRec] /\ known' \subseteq Droplets
<1>1. cr[c].own \in 0 .. MaxDroplets
  BY DEF TypeOK, CrRec
<1>2. {cr[c].own} \ {NoDroplet} \subseteq Droplets
  BY <1>1, NodeProvisionAssumption DEF Droplets, NoDroplet
<1> QED
  BY <1>2, FinishType DEF Drop, TypeOK

LEMMA FaultType ==
  ASSUME TypeOK, Fault \/ NoFault
  PROVE  faults' \in 0 .. MaxFaults
BY NodeProvisionAssumption DEF TypeOK, Fault, NoFault

LEMMA CallType ==
  ASSUME TypeOK, Call
  PROVE  calls' \in 0 .. MaxCalls
BY NodeProvisionAssumption DEF TypeOK, Call

LEMMA RaiseType ==
  ASSUME TypeOK, NEW c \in Creators, Raise(c), UNCHANGED <<rm, pg, bf, calls, died>>
  PROVE  TypeOK'
BY DropType, FaultType DEF Raise, TypeOK

LEMMA SuspectType ==
  ASSUME TypeOK, NEW s \in 0 .. MaxSerial, Suspect(s) \/ UNCHANGED suspect
  PROVE  suspect' \subseteq 0 .. MaxSerial
<1>1. suspect \subseteq 0 .. MaxSerial
  BY DEF TypeOK
<1> QED
  BY <1>1 DEF Suspect

LEMMA SerialType == \A s \in Serials : s \in 0 .. MaxSerial
BY NodeProvisionAssumption DEF Serials

LEMMA DropletType == \A d \in Droplets : d \in 0 .. MaxDroplets
BY NodeProvisionAssumption DEF Droplets

\* The variables that most steps of an expansion leave alone.
LEMMA RestTypes ==
  ASSUME TypeOK,
         UNCHANGED <<rm, pg, bf, died>>, calls' \in 0 .. MaxCalls, faults' \in 0 .. MaxFaults,
         drop' \in [Droplets -> DropRec], node' \in [Droplets -> NodeRec],
         cr' \in [Creators -> CrRec],
         served' \subseteq Droplets, verified' \subseteq Droplets,
         mixed' \subseteq Droplets, known' \subseteq Droplets, suspect' \subseteq 0 .. MaxSerial
  PROVE  TypeOK'
BY DEF TypeOK

LEMMA StartType ==
  ASSUME TypeOK, NEW c \in Creators, NEW k \in Kinds, NEW t \in Tiers, Start(c, k, t)
  PROVE  TypeOK'
<1>1. [Idle EXCEPT !.pc = "number", !.kind = k, !.tier = t] \in CrRec
  BY Resets, NodeProvisionAssumption DEF CrRec
<1>2. cr' \in [Creators -> CrRec]
  BY <1>1, Updates DEF Start
<1> QED
  BY <1>2, CallType, RestTypes DEF Start, Begun, cluster, history, TypeOK

LEMMA StartNamedType ==
  ASSUME TypeOK, NEW c \in Creators, NEW k \in Kinds, NEW s \in Serials, StartNamed(c, k, s)
  PROVE  TypeOK'
<1>0. s \in 0 .. MaxSerial
  BY NodeProvisionAssumption DEF Serials
<1>1. [Idle EXCEPT !.pc = k, !.kind = k, !.serial = s] \in CrRec
  BY <1>0, Resets, NodeProvisionAssumption DEF CrRec, StartNamed
<1>2. cr' \in [Creators -> CrRec]
  BY <1>1, Updates DEF StartNamed
<1>3. suspect' \subseteq 0 .. MaxSerial
  BY <1>0, SuspectType DEF StartNamed
<1> QED
  BY <1>2, <1>3, CallType, RestTypes DEF StartNamed, Begun, cluster, TypeOK

LEMMA NumbersType ==
  ASSUME TypeOK, NEW c \in Creators, NEW s \in Serials, Numbers(c, s)
  PROVE  cr' \in [Creators -> CrRec]
<1>0. s \in 0 .. MaxSerial
  BY NodeProvisionAssumption DEF Serials
<1>1. cr' = [cr EXCEPT ![c] = [cr[c] EXCEPT !.pc = "look", !.serial = s]]
  BY DEF Numbers, TypeOK
<1>2. [cr[c] EXCEPT !.pc = "look", !.serial = s] \in CrRec
  BY <1>0, CrFields DEF CrRec
<1> QED
  BY <1>1, <1>2, Updates

LEMMA NumberType ==
  ASSUME TypeOK, NEW c \in Creators, Number(c)
  PROVE  TypeOK'
<1>1. PICK s \in Serials : Numbers(c, s) /\ (Suspect(s) \/ UNCHANGED suspect)
  BY NodeProvisionAssumption DEF Number, Serials
<1>2. suspect' \subseteq 0 .. MaxSerial
  BY <1>1, SerialType, SuspectType
<1>3. Fault \/ NoFault
  BY DEF Number
<1> QED
  BY <1>1, <1>2, <1>3, NumbersType, FaultType, RestTypes DEF Number, Alone, cluster, TypeOK

LEMMA GivenType ==
  ASSUME TypeOK, NEW c \in Creators, NEW s \in Serials, Given(c, s)
  PROVE  TypeOK'
<1>1. suspect' \subseteq 0 .. MaxSerial
  BY SerialType, SuspectType DEF Given
<1> QED
  BY <1>1, NumbersType, RestTypes DEF Given, Alone, cluster, TypeOK

LEMMA LookType ==
  ASSUME TypeOK, NEW c \in Creators, Look(c)
  PROVE  TypeOK'
<1>0. /\ Fault \/ NoFault
      /\ UNCHANGED <<drop, node, served, verified, known, rm, pg, bf, calls, died>>
  BY DEF Look, Alone, cluster
<1>1. CASE \E d \in Named(cr[c].serial) :
             /\ cr' = [cr EXCEPT ![c].pc = "await", ![c].own = d]
             /\ mixed' = IF drop[d].size # cr[c].tier THEN mixed \cup {d} ELSE mixed
             /\ UNCHANGED suspect
  <2>1. PICK d \in Droplets : /\ cr' = [cr EXCEPT ![c].pc = "await", ![c].own = d]
                             /\ mixed' \subseteq mixed \cup {d} /\ UNCHANGED suspect
    BY <1>1 DEF Named, Up
  <2>2. d \in 0 .. MaxDroplets
    BY NodeProvisionAssumption DEF Droplets
  <2>3. cr' = [cr EXCEPT ![c] = [cr[c] EXCEPT !.pc = "await", !.own = d]]
    BY <2>1 DEF TypeOK
  <2>4. [cr[c] EXCEPT !.pc = "await", !.own = d] \in CrRec
    BY <2>2, CrFields DEF CrRec
  <2> QED
    BY <1>0, <2>1, <2>3, <2>4, Updates, FaultType, RestTypes DEF TypeOK
<1>2. CASE Go(c, "create") /\ UNCHANGED mixed
           /\ (UNCHANGED suspect \/ Suspect(cr[c].serial))
  <2>1. suspect' \subseteq 0 .. MaxSerial
    BY <1>2, CrFields, SuspectType DEF TypeOK
  <2> QED
    BY <1>0, <1>2, <2>1, GoType, FaultType, RestTypes DEF TypeOK
<1> QED
  BY <1>1, <1>2 DEF Look

LEMMA CreateType ==
  ASSUME TypeOK, NEW c \in Creators, Create(c)
  PROVE  TypeOK'
<1>1. CASE Raise(c)
  BY <1>1, RaiseType DEF Create, Alone
<1>2. ASSUME NEW d \in Droplets, NEW fit \in BOOLEAN, NewDroplet(c, d, fit),
             \/ cr' = [cr EXCEPT ![c].pc = "await", ![c].own = d] /\ UNCHANGED known
             \/ Finish(c) /\ known' = known \cup {d},
             UNCHANGED <<node, served, verified, suspect, rm, pg, bf, calls, died>>, NoFault,
             Mixes(d, cr[c].serial)
      PROVE  TypeOK'
  <2>1. [st |-> "up", serial |-> cr[c].serial, size |-> cr[c].tier, fit |-> fit] \in DropRec
    BY CrFields DEF DropRec
  <2>2. drop' \in [Droplets -> DropRec]
    BY <1>2, <2>1, Updates DEF NewDroplet
  <2>0. mixed' \subseteq Droplets
    BY <1>2 DEF Mixes, TypeOK
  <2>3. CASE cr' = [cr EXCEPT ![c].pc = "await", ![c].own = d] /\ UNCHANGED known
    <3>1. cr' = [cr EXCEPT ![c] = [cr[c] EXCEPT !.pc = "await", !.own = d]]
      BY <2>3 DEF TypeOK
    <3>2. [cr[c] EXCEPT !.pc = "await", !.own = d] \in CrRec
      BY DropletType, CrFields DEF CrRec
    <3> QED
      BY <1>2, <2>0, <2>2, <2>3, <3>1, <3>2, Updates, FaultType, RestTypes DEF TypeOK
  <2>4. CASE Finish(c) /\ known' = known \cup {d}
    BY <1>2, <2>0, <2>2, <2>4, FinishType, FaultType, RestTypes DEF TypeOK
  <2> QED
    BY <1>2, <2>3, <2>4
<1> QED
  BY <1>1, <1>2 DEF Create, Alone

LEMMA AwaitType ==
  ASSUME TypeOK, NEW c \in Creators, Await(c)
  PROVE  TypeOK'
<1>1. CASE Raise(c)
  BY <1>1, RaiseType DEF Await, Alone
<1>2. CASE /\ cr' = [cr EXCEPT ![c].pc = AfterAwait(c), ![c].ip = cr[c].own]
           /\ UNCHANGED <<cluster, history>> /\ NoFault
  <2>1. cr' = [cr EXCEPT ![c] = [cr[c] EXCEPT !.pc = AfterAwait(c), !.ip = cr[c].own]]
    BY <1>2 DEF TypeOK
  <2>2. AfterAwait(c) \in {"member", "configure"}
    BY DEF AfterAwait
  <2>3. [cr[c] EXCEPT !.pc = AfterAwait(c), !.ip = cr[c].own] \in CrRec
    BY <2>2, CrFields DEF CrRec
  <2> QED
    BY <1>2, <2>1, <2>3, Updates, FaultType, RestTypes DEF TypeOK, Await, Alone, cluster, history
<1> QED
  BY <1>1, <1>2 DEF Await

LEMMA ConfigureType ==
  ASSUME TypeOK, NEW c \in Creators, Configure(c)
  PROVE  TypeOK'
<1>1. CASE Raise(c)
  BY <1>1, RaiseType DEF Configure, Alone
<1>2. ASSUME NEW d \in Reached(cr[c].serial),
             cr' = [cr EXCEPT ![c].pc = AfterConfigure(c),
                              ![c].ip = IF cr[c].kind = "auto" THEN @ ELSE d],
             UNCHANGED <<cluster, history>>, NoFault
      PROVE  TypeOK'
  <2> DEFINE ip == IF cr[c].kind = "auto" THEN cr[c].ip ELSE d
  <2>1. cr' = [cr EXCEPT ![c] = [cr[c] EXCEPT !.pc = AfterConfigure(c), !.ip = ip]]
    BY <1>2 DEF TypeOK
  <2>2. AfterConfigure(c) \in {"member", "join"}
    BY DEF AfterConfigure
  <2>3. d \in 0 .. MaxDroplets
    BY DropletType DEF Reached, Named, Up
  <2>4. ip \in 0 .. MaxDroplets
    BY <2>3, CrFields
  <2> HIDE DEF ip
  <2>5. [cr[c] EXCEPT !.pc = AfterConfigure(c), !.ip = ip] \in CrRec
    BY <2>2, <2>4, CrFields DEF CrRec
  <2>6. cr' \in [Creators -> CrRec]
    BY <2>1, <2>5, Updates
  <2> QED
    BY <1>2, <2>6, FaultType, RestTypes
       DEF TypeOK, Configure, Alone, cluster, history
<1> QED
  BY <1>1, <1>2 DEF Configure

LEMMA PastType ==
  ASSUME TypeOK, NEW c \in Creators, Past(c)
  PROVE  cr' \in [Creators -> CrRec]
BY FinishType, GoType DEF Past, AfterJoin

LEMMA JoinType ==
  ASSUME TypeOK, NEW c \in Creators, Join(c)
  PROVE  TypeOK'
<1>1. CASE Raise(c) /\ UNCHANGED pg
  BY <1>1, RaiseType DEF Join
<1>2. ASSUME NEW d \in Reached(cr[c].serial), node[d].st # "out",
             Past(c), UNCHANGED <<node, pg, known, drop, served, verified, mixed, suspect>>, NoFault
      PROVE  TypeOK'
  BY <1>2, PastType, FaultType, RestTypes DEF TypeOK, Join
<1>3. ASSUME NEW d \in Reached(cr[c].serial),
             node' = [node EXCEPT ![d] = [st |-> "active", label |-> "none"]],
             pg' = IF pg.pc = "idle" THEN pg ELSE [pg EXCEPT !.late = @ \cup {d}],
             \/ (IF cr[c].kind = "join" THEN Finish(c) ELSE Go(c, "label")) /\ UNCHANGED known
             \/ Past(c) /\ UNCHANGED known
             \/ Drop(c),
             Fault \/ NoFault,
             UNCHANGED <<drop, served, verified, mixed, suspect>>
      PROVE  TypeOK'
  <2>1. d \in Droplets
    BY DEF Reached, Named, Up
  <2>2. [st |-> "active", label |-> "none"] \in NodeRec
    BY DEF NodeRec
  <2>3. node' \in [Droplets -> NodeRec]
    BY <1>3, <2>1, <2>2, Updates
  <2>4. cr' \in [Creators -> CrRec] /\ known' \subseteq Droplets
    BY <1>3, PastType, DropType, FinishType, GoType DEF TypeOK
  <2>5. pg' \in PgRec
    <3>1. pg \in PgRec
      BY DEF TypeOK
    <3>2. [pg EXCEPT !.late = pg.late \cup {d}] \in PgRec
      BY <3>1, <2>1 DEF PgRec
    <3> QED
      BY <1>3, <3>1, <3>2
  <2>6. faults' \in 0 .. MaxFaults
    BY <1>3, FaultType
  <2> QED
    BY <1>3, <2>3, <2>4, <2>5, <2>6 DEF TypeOK, Join
<1> QED
  BY <1>1, <1>2, <1>3 DEF Join

\* What a step may make of a node's record.
LEMMA NodeUpdates ==
  ASSUME TypeOK, NEW d \in Droplets
  PROVE  /\ \A t \in Tiers : [node EXCEPT ![d].label = t] \in [Droplets -> NodeRec]
         /\ \A st \in {"active", "drain"} : [node EXCEPT ![d].st = st] \in [Droplets -> NodeRec]
         /\ [node EXCEPT ![d] = Out] \in [Droplets -> NodeRec]
<1>1. \A t \in Tiers : [node EXCEPT ![d].label = t] = [node EXCEPT ![d] = [node[d] EXCEPT !.label = t]]
  BY DEF TypeOK
<1>2. \A st \in {"active", "drain"} :
        [node EXCEPT ![d].st = st] = [node EXCEPT ![d] = [node[d] EXCEPT !.st = st]]
  BY DEF TypeOK
<1>3. \A t \in Tiers : [node[d] EXCEPT !.label = t] \in NodeRec
  BY DropFields DEF NodeRec
<1>4. \A st \in {"active", "drain"} : [node[d] EXCEPT !.st = st] \in NodeRec
  BY DropFields DEF NodeRec
<1> QED
  BY <1>1, <1>2, <1>3, <1>4, Updates, Resets

LEMMA LabelType ==
  ASSUME TypeOK, NEW c \in Creators, Label(c)
  PROVE  TypeOK'
<1>1. node' \in [Droplets -> NodeRec]
  <2>1. CASE UNCHANGED node
    BY <2>1 DEF TypeOK
  <2>2. CASE \E d \in Nodes(cr[c].serial) : node' = [node EXCEPT ![d].label = cr[c].tier]
    <3>1. PICK d \in Droplets : node' = [node EXCEPT ![d].label = cr[c].tier]
      BY <2>2 DEF Nodes, InSwarm
    <3>2. cr[c].tier \in Tiers
      BY CrFields
    <3> QED
      BY <3>1, <3>2, NodeUpdates
  <2> QED
    BY <2>1, <2>2 DEF Label
<1>2. cr' \in [Creators -> CrRec]
  BY GoType DEF Label, AfterJoin
<1>3. faults' \in 0 .. MaxFaults
  BY FaultType DEF Label
<1> QED
  BY <1>1, <1>2, <1>3, RestTypes DEF Label, Alone, history, TypeOK

LEMMA MemberType ==
  ASSUME TypeOK, NEW c \in Creators, Member(c)
  PROVE  TypeOK'
<1>1. CASE Raise(c)
  BY <1>1, RaiseType DEF Member, Alone
<1>2. CASE Go(c, "drain") /\ UNCHANGED <<cluster, history>> /\ NoFault
  BY <1>2, GoType, FaultType, RestTypes DEF Member, Alone, cluster, history, TypeOK
<1> QED
  BY <1>1, <1>2 DEF Member

LEMMA DrainType ==
  ASSUME TypeOK, NEW c \in Creators, Drain(c)
  PROVE  TypeOK'
<1>0. /\ Fault \/ NoFault
      /\ UNCHANGED <<drop, served, verified, mixed, known, suspect, rm, pg, bf, calls, died>>
  BY DEF Drain, Alone, history
<1>1. ASSUME NEW d \in Nodes(cr[c].serial),
             cr' = [cr EXCEPT ![c].pc = "verify", ![c].obj = d, ![c].was = node[d].st],
             node' = [node EXCEPT ![d].st = "drain"] \/ UNCHANGED node
      PROVE  TypeOK'
  <2>1. d \in Droplets /\ node[d].st # "out"
    BY DEF Nodes, InSwarm
  <2>2. node[d].st \in {"active", "drain"}
    BY <2>1, DropFields DEF NodeRec
  <2>3. cr' = [cr EXCEPT ![c] = [cr[c] EXCEPT !.pc = "verify", !.obj = d, !.was = node[d].st]]
    BY <1>1 DEF TypeOK
  <2>4. [cr[c] EXCEPT !.pc = "verify", !.obj = d, !.was = node[d].st] \in CrRec
    BY <2>1, <2>2, DropletType, CrFields DEF CrRec
  <2>5. node' \in [Droplets -> NodeRec]
    BY <1>1, <2>1, NodeUpdates, ZenonT(30) DEF TypeOK
  <2> QED
    BY <1>0, <2>3, <2>4, <2>5, Updates, FaultType, RestTypes DEF TypeOK
<1>2. CASE Go(c, "verify") /\ UNCHANGED node
  BY <1>0, <1>2, GoType, FaultType, RestTypes DEF TypeOK
<1> QED
  BY <1>1, <1>2 DEF Drain

LEMMA VerifyType ==
  ASSUME TypeOK, NEW c \in Creators, Verify(c)
  PROVE  TypeOK'
<1>0. /\ Fault \/ NoFault
      /\ UNCHANGED <<drop, node, served, mixed, known, suspect, rm, pg, bf, calls, died>>
  BY DEF Verify, Alone, cluster
<1>1. cr' \in [Creators -> CrRec]
  BY GoType DEF Verify
<1>2. verified' \subseteq Droplets
  BY DEF Verify, Sound, Up, TypeOK
<1> QED
  BY <1>0, <1>1, <1>2, FaultType, RestTypes DEF TypeOK

LEMMA RedrainType ==
  ASSUME TypeOK, NEW c \in Creators, Redrain(c)
  PROVE  TypeOK'
<1>1. node' \in [Droplets -> NodeRec]
  <2>1. CASE UNCHANGED node
    BY <2>1 DEF TypeOK
  <2>2. CASE \E d \in Nodes(cr[c].serial) : node' = [node EXCEPT ![d].st = "drain"]
    BY <2>2, NodeUpdates DEF Nodes, InSwarm
  <2> QED
    BY <2>1, <2>2 DEF Redrain
<1>2. faults' \in 0 .. MaxFaults
  BY FaultType DEF Redrain
<1>3. cr' \in [Creators -> CrRec] /\ known' \subseteq Droplets
  BY DropType DEF Redrain
<1> QED
  BY <1>1, <1>2, <1>3, RestTypes DEF Redrain, Alone, TypeOK

LEMMA ActivateType ==
  ASSUME TypeOK, NEW c \in Creators, Activate(c)
  PROVE  TypeOK'
<1>0. /\ Fault \/ NoFault
      /\ UNCHANGED <<drop, verified, mixed, known, rm, pg, bf, calls, died>>
  BY DEF Activate, Alone
<1>1. ASSUME NEW d \in Droplets, node' = [node EXCEPT ![d].st = "active"],
             served' = served \cup {d}, Finish(c), UNCHANGED suspect
      PROVE  TypeOK'
  BY <1>0, <1>1, NodeUpdates, FinishType, FaultType, RestTypes DEF TypeOK
<1>2. ASSUME NEW d \in Droplets, d \in InSwarm, ~(cr[c].tries + 1 >= Tries),
             cr' = [cr EXCEPT ![c].tries = @ + 1, ![c].obj = d, ![c].was = node[d].st],
             UNCHANGED <<node, served, suspect>>
      PROVE  TypeOK'
  <2>1. node[d].st \in {"active", "drain"}
    BY <1>2, DropFields DEF NodeRec, InSwarm
  <2>2. cr' = [cr EXCEPT ![c] = [cr[c] EXCEPT !.tries = cr[c].tries + 1, !.obj = d, !.was = node[d].st]]
    BY <1>2 DEF TypeOK
  <2>3. cr[c].tries + 1 \in 0 .. Tries
    BY <1>2, CrFields, NodeProvisionAssumption
  <2>4. [cr[c] EXCEPT !.tries = cr[c].tries + 1, !.obj = d, !.was = node[d].st] \in CrRec
    BY <2>1, <2>3, DropletType, CrFields DEF CrRec
  <2> QED
    BY <1>0, <1>2, <2>2, <2>4, Updates, FaultType, RestTypes DEF TypeOK
<1>3. CASE Finish(c) /\ UNCHANGED <<node, served>>
           /\ (UNCHANGED suspect \/ Suspect(cr[c].serial))
  <2>1. suspect' \subseteq 0 .. MaxSerial
    BY <1>3, CrFields, SuspectType
  <2> QED
    BY <1>0, <1>3, <2>1, FinishType, FaultType, RestTypes DEF TypeOK
<1> QED
  BY <1>1, <1>2, <1>3 DEF Activate, InSwarm

LEMMA DiesType ==
  ASSUME TypeOK, NEW c \in Creators, Dies(c)
  PROVE  TypeOK'
BY DropType, FaultType DEF Dies, cluster, TypeOK

LEMMA ExpandType ==
  ASSUME TypeOK, NEW c \in Creators, Expand(c)
  PROVE  TypeOK'
BY NumberType, LookType, CreateType, AwaitType, ConfigureType, JoinType, LabelType,
   MemberType, DrainType, VerifyType, RedrainType, ActivateType DEF Expand

LEMMA RemovalType ==
  ASSUME TypeOK, Removal \/ \E d \in Droplets : Removing(d)
  PROVE  TypeOK'
<1>0. rm \in RmRec \cup {NoRm}
  BY DEF TypeOK
<1>1. ASSUME NEW d \in Droplets, Removing(d)
      PROVE  TypeOK'
  <2>1. rm' \in RmRec
    BY <1>1 DEF Removing, RmRec
  <2> QED
    BY <1>1, <2>1, CallType DEF Removing, cluster, history, TypeOK
<1>2. CASE Leave
  <2>1. rm' \in RmRec
    BY <1>0, <1>2 DEF Leave, RmRec, NoRm
  <2>2. /\ node' \in [Droplets -> NodeRec] /\ served' \subseteq Droplets
        /\ known' \subseteq Droplets
    <3>1. CASE UNCHANGED <<node, served, known>>
      BY <3>1 DEF TypeOK
    <3>2. ASSUME NEW d \in Nodes(drop[rm.d].serial),
                 node' = [node EXCEPT ![d] = Out], served' = served \ {d},
                 known' = known \cup ({d} \ {rm.d})
          PROVE  /\ node' \in [Droplets -> NodeRec] /\ served' \subseteq Droplets
                 /\ known' \subseteq Droplets
      <4>1. d \in Droplets
        BY DEF Nodes, InSwarm
      <4> QED
        BY <3>2, <4>1, NodeUpdates DEF TypeOK
    <3> QED
      BY <1>2, <3>1, <3>2 DEF Leave
  <2> QED
    BY <1>2, <2>1, <2>2 DEF Leave, TypeOK
<1>3. CASE Destroy
  <2>1. rm.d \in Droplets
    BY <1>0, <1>3 DEF Destroy, RmRec, NoRm
  <2>2. faults' \in 0 .. MaxFaults
    BY <1>3, FaultType DEF Destroy
  <2>3. drop' \in [Droplets -> DropRec]
    <3>1. [drop EXCEPT ![rm.d].st = "gone"] = [drop EXCEPT ![rm.d] = [drop[rm.d] EXCEPT !.st = "gone"]]
      BY <2>1 DEF TypeOK
    <3>2. [drop[rm.d] EXCEPT !.st = "gone"] \in DropRec
      BY <2>1, DropFields DEF DropRec
    <3> QED
      BY <1>3, <2>1, <3>1, <3>2, Updates DEF Destroy, TypeOK
  <2> QED
    BY <1>3, <2>1, <2>2, <2>3 DEF Destroy, TypeOK
<1> QED
  BY <1>1, <1>2, <1>3 DEF Removal

LEMMA PurgeType ==
  ASSUME TypeOK, PurgeNodes \/ Purge
  PROVE  TypeOK'
<1>0. pg \in PgRec
  BY DEF TypeOK
<1>1. CASE PurgeNodes
  <2>0. /\ Fault \/ NoFault
        /\ Call
        /\ UNCHANGED <<cluster, cr, rm, bf, served, verified, mixed, known, died>>
        /\ UNCHANGED suspect \/ suspect' = suspect \cup Serials
    BY <1>1 DEF PurgeNodes
  <2>1. pg' \in PgRec
    <3>1. PICK S \in SUBSET Droplets : pg' = [NoPg EXCEPT !.pc = "droplets", !.nodes = S]
                                       \/ pg' = [NoPg EXCEPT !.pc = "droplets"]
      BY <1>1 DEF PurgeNodes, InSwarm
    <3> QED
      BY <3>1, Resets DEF PgRec
  <2> QED
    BY <2>0, <2>1, SerialType, FaultType, CallType DEF cluster, TypeOK
<1>2. CASE PurgeDroplets
  <2>0. /\ Fault \/ NoFault
        /\ UNCHANGED <<cluster, cr, rm, bf, served, verified, mixed, known, calls, died>>
        /\ UNCHANGED suspect \/ suspect' = suspect \cup Serials
    BY <1>2 DEF PurgeDroplets
  <2>1. PICK S \in SUBSET Droplets : PurgePlan(S)
    BY <1>2 DEF PurgeDroplets, Up
  <2>2. pg' \in PgRec
    BY <1>0, <2>1 DEF PurgePlan, PgRec
  <2> QED
    BY <2>0, <2>2, SerialType, FaultType DEF cluster, TypeOK
<1>3. ASSUME NEW d \in Droplets, PurgeDroplet(d)
      PROVE  TypeOK'
  <2>1. pg' \in PgRec
    BY <1>0, <1>3 DEF PurgeDroplet, PgRec
  <2>2. drop' \in [Droplets -> DropRec]
    <3>1. [drop EXCEPT ![d].st = "gone"] = [drop EXCEPT ![d] = [drop[d] EXCEPT !.st = "gone"]]
      BY DEF TypeOK
    <3>2. [drop[d] EXCEPT !.st = "gone"] \in DropRec
      BY DropFields DEF DropRec
    <3> QED
      BY <1>3, <3>1, <3>2, Updates DEF PurgeDroplet, TypeOK
  <2>3. faults' \in 0 .. MaxFaults
    BY <1>3, FaultType DEF PurgeDroplet
  <2> QED
    BY <1>3, <2>1, <2>2, <2>3 DEF PurgeDroplet, history, TypeOK
<1>4. ASSUME NEW d \in Droplets, PurgeNode(d)
      PROVE  TypeOK'
  <2>1. pg' \in PgRec
    BY <1>0, <1>4 DEF PurgeNode, PgRec
  <2>2. node' \in [Droplets -> NodeRec] /\ served' \subseteq Droplets
    BY <1>4, NodeUpdates DEF PurgeNode, TypeOK
  <2>3. faults' \in 0 .. MaxFaults
    BY <1>4, FaultType DEF PurgeNode
  <2> QED
    BY <1>4, <2>1, <2>2, <2>3 DEF PurgeNode, TypeOK
<1>5. CASE PurgeEnds
  BY <1>5, Resets DEF PurgeEnds, cluster, history, TypeOK
<1> QED
  BY <1>1, <1>2, <1>3, <1>4, <1>5 DEF Purge

\* What the steps of a backfill leave alone, and what they may do to a node.
LEMMA BackfillOnly ==
  ASSUME Backfill
  PROVE  /\ UNCHANGED <<drop, cr, rm, pg, history, died, faults>>
         /\ \/ UNCHANGED node
            \/ \E e \in bf.of : \E d \in Nodes(drop[e].serial) :
                 bf.pc = "label" /\ node' = [node EXCEPT ![d].label = drop[e].size]
BY DEF Backfill, BackfillDroplets, BackfillNodes, BackfillLabel, BackfillEnds, cluster, history

LEMMA BackfillType ==
  ASSUME TypeOK, Backfill
  PROVE  TypeOK'
<1>1. node' \in [Droplets -> NodeRec]
  <2>1. CASE UNCHANGED node
    BY <2>1 DEF TypeOK
  <2>2. ASSUME NEW e \in bf.of, NEW d \in Nodes(drop[e].serial),
               node' = [node EXCEPT ![d].label = drop[e].size]
        PROVE  node' \in [Droplets -> NodeRec]
    <3>1. e \in Droplets /\ d \in Droplets
      BY DEF TypeOK, BfRec, Nodes, InSwarm
    <3>2. drop[e].size \in Tiers
      BY <3>1, DropFields
    <3> QED
      BY <2>2, <3>1, <3>2, NodeUpdates
  <2> QED
    BY <2>1, <2>2, BackfillOnly
<1>2. bf' \in BfRec
  <2>1. bf \in BfRec
    BY DEF TypeOK
  <2>2. ASSUME NEW S \in SUBSET Droplets PROVE Labels(S) \in BfRec
    BY Resets DEF Labels, BfRec
  <2>3. bf.of \subseteq Droplets /\ Up \subseteq Droplets
    BY <2>1 DEF BfRec, Up
  <2>4. CASE BackfillDroplets
    BY <2>3, <2>4 DEF BackfillDroplets, BfRec
  <2>5. CASE BackfillNodes
    BY <2>2, <2>3, <2>5 DEF BackfillNodes
  <2>6. CASE \E e \in Droplets : BackfillLabel(e)
    BY <2>2, <2>3, <2>6 DEF BackfillLabel
  <2>7. CASE BackfillEnds
    BY <2>7, Resets DEF BackfillEnds
  <2> QED
    BY <2>4, <2>5, <2>6, <2>7 DEF Backfill
<1>3. calls' \in 0 .. MaxCalls
  BY CallType DEF Backfill, BackfillDroplets, BackfillNodes, BackfillLabel, BackfillEnds, TypeOK
<1> QED
  BY <1>1, <1>2, <1>3, BackfillOnly DEF history, TypeOK

LEMMA NextType == TypeOK /\ [Next]_vars => TypeOK'
<1> SUFFICES ASSUME TypeOK, [Next]_vars PROVE TypeOK'
  OBVIOUS
<1>1. CASE UNCHANGED vars
  BY <1>1 DEF vars, history, TypeOK
<1>2. CASE Next
  BY <1>2, StartType, StartNamedType, GivenType, ExpandType, DiesType, RemovalType,
     PurgeType, BackfillType DEF Next
<1> QED
  BY <1>1, <1>2

\* Types: the droplets, nodes, expansions, removals and purges of
\* NodeProvision stay well formed.
THEOREM ProvisionTypes == Spec => []TypeOK
BY InitTypes, NextType, PTL DEF Spec

-----------------------------------------------------------------------------
(* Names. *)

\* An expansion has a serial from the step that chooses it to its end.
SerialInv == \A c \in Creators : cr[c].pc \in {"idle", "number"} <=> cr[c].serial = 0

\* Two expansions that have one serial were seen to.
DistinctInv ==
  \A c, o \in Creators :
    c # o /\ cr[c].serial = cr[o].serial /\ cr[c].serial # 0 => cr[c].serial \in suspect

\* Nobody else has made the droplet that an expansion is about to make.
FreshInv ==
  \A c \in Creators : At(c, "create") => Named(cr[c].serial) = {} \/ cr[c].serial \in suspect

NameInv == SerialInv /\ DistinctInv /\ FreshInv /\ UniqueNames

LEMMA InitNames == Init => NameInv
<1> SUFFICES ASSUME Init PROVE NameInv
  OBVIOUS
<1>1. \A c \in Creators : cr[c] = Idle
  BY DEF Init
<1>2. SerialInv /\ DistinctInv /\ FreshInv
  BY <1>1 DEF SerialInv, DistinctInv, FreshInv, Idle, At
<1>3. PICK second \in {Unborn} \cup [st : {"up"}, serial : {2}, size : Tiers, fit : BOOLEAN] :
        drop = [d \in Droplets |-> CASE d = 1 -> First
                                     [] d = 2 -> second
                                     [] OTHER -> Unborn]
  BY DEF Init
<1>4. /\ \A d \in Droplets : d # 1 /\ d # 2 => drop[d] = Unborn
      /\ 1 \in Droplets => drop[1] = First
      /\ 2 \in Droplets => drop[2] = second
  BY <1>3
<1>5. UniqueNames
  BY <1>4 DEF UniqueNames, Up, Unborn, First
<1> QED
  BY <1>2, <1>5 DEF NameInv

\* No droplet comes up or changes its name, and no name stops being suspect.
Calm ==
  /\ \A d \in Droplets : drop'[d].st = "up" => drop[d].st = "up" /\ drop'[d].serial = drop[d].serial
  /\ suspect \subseteq suspect'

LEMMA CalmNames ==
  ASSUME NameInv, Calm
  PROVE  UniqueNames' /\ \A s \in 0 .. MaxSerial : Named(s)' \subseteq Named(s)
<1>1. Up' \subseteq Up /\ \A d \in Up' : drop'[d].serial = drop[d].serial
  BY DEF Calm, Up
<1>2. UniqueNames'
  BY <1>1 DEF NameInv, Calm, UniqueNames
<1> QED
  BY <1>1, <1>2 DEF Named

\* Every expansion goes on with its serial, has none, or stays where it is.
Keeps(c) ==
  \/ cr'[c] = cr[c]
  \/ cr'[c].serial = 0 /\ cr'[c].pc \in {"idle", "number"}
  \/ /\ cr'[c].serial = cr[c].serial
     /\ cr[c].pc \notin {"idle", "number"} /\ cr'[c].pc \notin {"idle", "number", "create"}

LEMMA KeepNames ==
  ASSUME TypeOK, NameInv, Calm, \A c \in Creators : Keeps(c)
  PROVE  NameInv'
<1>1. SerialInv'
  BY DEF NameInv, SerialInv, Keeps
<1>2. DistinctInv'
  BY DEF NameInv, DistinctInv, Keeps, Calm
<1>3. FreshInv'
  <2> SUFFICES ASSUME NEW c \in Creators, At(c, "create")', cr'[c].serial \notin suspect'
               PROVE  Named(cr[c].serial)' = {} /\ cr'[c] = cr[c]
    BY DEF FreshInv
  <2>1. cr'[c] = cr[c]
    BY DEF Keeps, At
  <2>2. Named(cr[c].serial) = {}
    BY <2>1 DEF NameInv, FreshInv, Calm, At
  <2> QED
    BY <2>1, <2>2, CalmNames, CrFields
<1> QED
  BY <1>1, <1>2, <1>3, CalmNames DEF NameInv

\* An expansion takes a serial that no other has, or that is suspect now.
LEMMA TakeNames ==
  ASSUME TypeOK, NameInv, Calm, NEW c \in Creators, NEW s \in Serials,
         \A o \in Creators \ {c} : cr'[o] = cr[o],
         cr'[c].serial = s, cr'[c].pc \notin {"idle", "number", "create"},
         ~Clash(c, s) \/ s \in suspect'
  PROVE  NameInv'
<1>1. SerialInv'
  BY DEF NameInv, SerialInv, Serials
<1>2. \A o \in Creators \ {c} : cr[o].serial = s => s \in suspect'
  <2>1. s # 0
    BY DEF Serials
  <2> QED
    BY <2>1 DEF NameInv, SerialInv, Clash, Busy
<1>3. DistinctInv'
  BY <1>2 DEF NameInv, DistinctInv, Calm
<1>4. FreshInv'
  <2> SUFFICES ASSUME NEW o \in Creators, At(o, "create")', cr'[o].serial \notin suspect'
               PROVE  Named(cr[o].serial)' = {} /\ cr'[o] = cr[o]
    BY DEF FreshInv
  <2>1. cr'[o] = cr[o]
    BY DEF At
  <2>2. Named(cr[o].serial) = {}
    BY <2>1 DEF NameInv, FreshInv, Calm, At
  <2> QED
    BY <2>1, <2>2, CalmNames, CrFields
<1> QED
  BY <1>1, <1>3, <1>4, CalmNames DEF NameInv

\* Moves that keep the serial, or give it up.
LEMMA Moves ==
  ASSUME TypeOK, NEW c \in Creators
  PROVE  /\ \A pc : Go(c, pc) /\ pc \notin {"idle", "number", "create"}
                    /\ cr[c].pc \notin {"idle", "number"}
                  => \A o \in Creators : Keeps(o)
         /\ Finish(c) => \A o \in Creators : Keeps(o)
         /\ Drop(c) => \A o \in Creators : Keeps(o)
<1>1. ASSUME NEW pc, Go(c, pc), pc \notin {"idle", "number", "create"},
             cr[c].pc \notin {"idle", "number"}, NEW o \in Creators
      PROVE  Keeps(o)
  BY <1>1, CrFields DEF TypeOK, CrRec, Go, Keeps
<1>2. ASSUME Finish(c), NEW o \in Creators
      PROVE  Keeps(o)
  BY <1>2 DEF TypeOK, Finish, Keeps, Idle
<1> QED
  BY <1>1, <1>2 DEF Drop

LEMMA StartNames ==
  ASSUME TypeOK, NameInv, NEW c \in Creators, NEW k \in Kinds, NEW t \in Tiers, Start(c, k, t)
  PROVE  NameInv'
<1>1. \A o \in Creators : Keeps(o)
  BY DEF Start, Keeps, TypeOK, Idle
<1>2. Calm
  BY DEF Start, Calm, cluster, history
<1> QED
  BY <1>1, <1>2, KeepNames

LEMMA StartNamedNames ==
  ASSUME TypeOK, NameInv, NEW c \in Creators, NEW k \in Kinds, NEW s \in Serials, StartNamed(c, k, s)
  PROVE  NameInv'
<1>1. Calm
  BY DEF StartNamed, Calm, cluster, Suspect
<1>2. /\ \A o \in Creators \ {c} : cr'[o] = cr[o]
      /\ cr'[c].serial = s /\ cr'[c].pc \notin {"idle", "number", "create"}
  BY DEF StartNamed, TypeOK, Idle
<1>3. ~Clash(c, s) \/ s \in suspect'
  BY DEF StartNamed, Suspect
<1> QED
  BY <1>1, <1>2, <1>3, TakeNames

LEMMA NumbersNames ==
  ASSUME TypeOK, NameInv, NEW c \in Creators, NEW s \in Serials, Numbers(c, s),
         UNCHANGED drop, suspect \subseteq suspect', ~Clash(c, s) \/ s \in suspect'
  PROVE  NameInv'
<1>1. Calm
  BY DEF Calm
<1>2. /\ \A o \in Creators \ {c} : cr'[o] = cr[o]
      /\ cr'[c].serial = s /\ cr'[c].pc \notin {"idle", "number", "create"}
  BY CrFields DEF Numbers, TypeOK, CrRec
<1> QED
  BY <1>1, <1>2, TakeNames

LEMMA NumberNames ==
  ASSUME TypeOK, NameInv, NEW c \in Creators, Number(c)
  PROVE  NameInv'
<1>1. PICK s \in Serials : /\ Numbers(c, s) /\ suspect \subseteq suspect'
                           /\ ~Clash(c, s) \/ s \in suspect'
  BY NodeProvisionAssumption DEF Number, Serials, Suspect
<1> QED
  BY <1>1, NumbersNames DEF Number, cluster

LEMMA GivenNames ==
  ASSUME TypeOK, NameInv, NEW c \in Creators, NEW s \in Serials, Given(c, s)
  PROVE  NameInv'
<1>1. suspect \subseteq suspect' /\ (~Clash(c, s) \/ s \in suspect')
  BY DEF Given, Suspect
<1> QED
  BY <1>1, NumbersNames DEF Given, cluster

LEMMA LookNames ==
  ASSUME TypeOK, NameInv, NEW c \in Creators, Look(c)
  PROVE  NameInv'
<1>0. UNCHANGED drop
  BY DEF Look, cluster
<1>1. CASE UNCHANGED suspect /\ \E d \in Droplets : cr' = [cr EXCEPT ![c].pc = "await", ![c].own = d]
  <2>1. \A o \in Creators : Keeps(o)
    <3>1. PICK d \in Droplets : cr' = [cr EXCEPT ![c].pc = "await", ![c].own = d]
      BY <1>1
    <3>2. cr[c].pc = "look"
      BY DEF Look, At
    <3> QED
      BY <3>1, <3>2, CrFields DEF TypeOK, CrRec, Keeps
  <2> QED
    BY <1>0, <1>1, <2>1, KeepNames DEF Calm
<1>2. CASE /\ Go(c, "create") /\ suspect \subseteq suspect'
           /\ Named(cr[c].serial) = {} \/ cr[c].serial \in suspect'
  <2>1. /\ \A o \in Creators \ {c} : cr'[o] = cr[o]
        /\ cr'[c].serial = cr[c].serial /\ cr'[c].pc = "create"
    BY <1>2, CrFields DEF Go, TypeOK, CrRec
  <2>2. Calm
    BY <1>0, <1>2 DEF Calm
  <2>3. SerialInv'
    BY <2>1 DEF NameInv, SerialInv, Look, At
  <2>4. DistinctInv'
    BY <2>1, <2>2 DEF NameInv, DistinctInv, Calm
  <2>5. FreshInv'
    <3>1. \A s : Named(s)' = Named(s)
      BY <1>0 DEF Named, Up
    <3> SUFFICES ASSUME NEW o \in Creators, At(o, "create")', cr'[o].serial \notin suspect'
                 PROVE  Named(cr[o].serial) = {} /\ cr'[o].serial = cr[o].serial
      BY <3>1 DEF FreshInv
    <3> QED
      BY <1>2, <2>1, <2>2 DEF NameInv, FreshInv, Calm, At
  <2> QED
    BY <2>2, <2>3, <2>4, <2>5, CalmNames DEF NameInv
<1> QED
  BY <1>1, <1>2 DEF Look, Suspect, Named, Up

LEMMA CreateNames ==
  ASSUME TypeOK, NameInv, NEW c \in Creators, Create(c)
  PROVE  NameInv'
<1>1. CASE Raise(c)
  BY <1>1, Moves, KeepNames DEF Raise, Calm
<1>2. ASSUME NEW d \in Droplets, NEW fit \in BOOLEAN, NewDroplet(c, d, fit),
             cr' = [cr EXCEPT ![c].pc = "await", ![c].own = d] \/ Finish(c),
             UNCHANGED suspect, At(c, "create")
      PROVE  NameInv'
  <2> DEFINE s == cr[c].serial
  <2>1. \A o \in Creators : Keeps(o)
    <3>1. CASE Finish(c)
      BY <3>1, Moves
    <3>2. CASE cr' = [cr EXCEPT ![c].pc = "await", ![c].own = d]
      BY <1>2, <3>2, CrFields DEF TypeOK, CrRec, Keeps, At
    <3> QED
      BY <1>2, <3>1, <3>2
  <2>2. /\ \A e \in Droplets \ {d} : drop'[e] = drop[e]
        /\ drop'[d].serial = s /\ drop[d].st = "unborn"
    BY <1>2 DEF NewDroplet, TypeOK
  <2>3. Named(s) = {} \/ s \in suspect
    BY <1>2 DEF NameInv, FreshInv
  <2>4. SerialInv' /\ DistinctInv'
    BY <1>2, <2>1 DEF NameInv, SerialInv, DistinctInv, Keeps
  <2>5. cr'[c].pc # "create"
    BY <1>2, CrFields DEF TypeOK, Finish, Idle, CrRec
  <2>6. FreshInv'
    <3> SUFFICES ASSUME NEW o \in Creators, At(o, "create")', cr'[o].serial \notin suspect'
                 PROVE  Named(cr[o].serial)' = {} /\ cr'[o].serial = cr[o].serial
      BY DEF FreshInv
    <3>1. cr'[o] = cr[o] /\ o # c
      BY <2>1, <2>5 DEF Keeps, At
    <3>2. Named(cr[o].serial) = {}
      BY <1>2, <3>1 DEF NameInv, FreshInv, At
    <3>3. cr[o].serial # s
      BY <1>2, <3>1 DEF NameInv, DistinctInv, SerialInv, At
    <3> QED
      BY <2>2, <3>1, <3>2, <3>3 DEF Named, Up
  <2>7. UniqueNames'
    <3>1. Up' \subseteq Up \cup {d} /\ \A e \in Up' : e = d \/ drop'[e] = drop[e]
      BY <2>2 DEF Up
    <3>2. \A e \in Up : drop[e].serial = s => s \in suspect
      BY <2>3 DEF Named
    <3> QED
      BY <1>2, <2>2, <3>1, <3>2 DEF NameInv, UniqueNames
  <2> QED
    BY <2>4, <2>6, <2>7 DEF NameInv
<1> QED
  BY <1>1, <1>2 DEF Create

LEMMA StepNames ==
  ASSUME TypeOK, NameInv, NEW c \in Creators,
         \/ Await(c) \/ Configure(c) \/ Join(c) \/ Label(c) \/ Member(c) \/ Drain(c)
         \/ Verify(c) \/ Redrain(c) \/ Activate(c) \/ Dies(c)
  PROVE  NameInv'
<1>1. \A o \in Creators : Keeps(o)
  <2>1. CASE Await(c)
    <3>1. CASE Raise(c)
      BY <3>1, Moves DEF Raise
    <3>2. CASE cr' = [cr EXCEPT ![c].pc = AfterAwait(c), ![c].ip = cr[c].own]
      BY <2>1, <3>2, CrFields DEF TypeOK, CrRec, Keeps, Await, AfterAwait, At
    <3> QED
      BY <2>1, <3>1, <3>2 DEF Await
  <2>2. CASE Configure(c)
    <3>1. CASE Raise(c)
      BY <3>1, Moves DEF Raise
    <3>2. CASE \E d : cr' = [cr EXCEPT ![c].pc = AfterConfigure(c),
                                      ![c].ip = IF cr[c].kind = "auto" THEN @ ELSE d]
      <4>1. PICK d : cr' = [cr EXCEPT ![c].pc = AfterConfigure(c),
                                      ![c].ip = IF cr[c].kind = "auto" THEN @ ELSE d]
        BY <3>2
      <4>2. cr[c].pc = "configure"
        BY <2>2 DEF Configure, At
      <4> QED
        BY <4>1, <4>2, CrFields DEF TypeOK, CrRec, Keeps, AfterConfigure
    <3> QED
      BY <2>2, <3>1, <3>2 DEF Configure
  <2>3. CASE Join(c)
    <3>1. CASE Past(c) \/ Finish(c) \/ Go(c, "label")
      BY <2>3, <3>1, Moves DEF Past, AfterJoin, Join, At
    <3>2. CASE Drop(c) \/ Raise(c)
      BY <3>2, Moves DEF Raise
    <3> QED
      BY <2>3, <3>1, <3>2 DEF Join
  <2>4. CASE Label(c)
    BY <2>4, Moves DEF Label, AfterJoin, At
  <2>5. CASE Member(c)
    BY <2>5, Moves DEF Member, Raise, At
  <2>6. CASE Drain(c)
    <3>1. CASE Go(c, "verify")
      BY <2>6, <3>1, Moves DEF Drain, At
    <3>2. CASE \E d : cr' = [cr EXCEPT ![c].pc = "verify", ![c].obj = d, ![c].was = node[d].st]
      <4>1. PICK d : cr' = [cr EXCEPT ![c].pc = "verify", ![c].obj = d, ![c].was = node[d].st]
        BY <3>2
      <4>2. cr[c].pc = "drain"
        BY <2>6 DEF Drain, At
      <4> QED
        BY <4>1, <4>2, CrFields DEF TypeOK, CrRec, Keeps
    <3> QED
      BY <2>6, <3>1, <3>2 DEF Drain
  <2>7. CASE Verify(c)
    BY <2>7, Moves DEF Verify, At
  <2>8. CASE Redrain(c) \/ Dies(c)
    BY <2>8, Moves DEF Redrain, Dies
  <2>9. CASE Activate(c)
    <3>1. CASE Finish(c)
      BY <3>1, Moves
    <3>2. CASE \E d : cr' = [cr EXCEPT ![c].tries = @ + 1, ![c].obj = d, ![c].was = node[d].st]
      <4>1. PICK d : cr' = [cr EXCEPT ![c].tries = @ + 1, ![c].obj = d, ![c].was = node[d].st]
        BY <3>2
      <4>2. cr[c].pc = "activate"
        BY <2>9 DEF Activate, At
      <4> QED
        BY <4>1, <4>2, CrFields DEF TypeOK, CrRec, Keeps
    <3> QED
      BY <2>9, <3>1, <3>2 DEF Activate
  <2> QED
    BY <2>1, <2>2, <2>3, <2>4, <2>5, <2>6, <2>7, <2>8, <2>9
<1>2. UNCHANGED drop
  BY DEF Await, Configure, Join, Label, Member, Drain, Verify, Redrain, Activate, Dies,
     Raise, cluster
<1>3. suspect \subseteq suspect'
  BY DEF Await, Configure, Join, Label, Member, Drain, Verify, Redrain, Activate, Dies,
     Raise, cluster, history, Suspect
<1> QED
  BY <1>1, <1>2, <1>3, KeepNames DEF Calm

\* Removals, purges and the backfill make no droplet.
LEMMA OtherNames ==
  ASSUME TypeOK, NameInv,
         \/ Removal \/ PurgeNodes \/ Purge \/ Backfill \/ \E d \in Droplets : Removing(d)
  PROVE  NameInv'
<1>1. UNCHANGED cr
  BY DEF Removal, Leave, Destroy, PurgeNodes, Purge, PurgeDroplets, PurgeDroplet, PurgeNode,
     PurgeEnds, Removing, Backfill, BackfillDroplets,
     BackfillNodes, BackfillLabel, BackfillEnds
<1>2. suspect \subseteq suspect'
  BY DEF Removal, Leave, Destroy, PurgeNodes, Purge, PurgeDroplets, PurgeDroplet, PurgeNode,
     PurgeEnds, Removing, Backfill, BackfillDroplets,
     BackfillNodes, BackfillLabel, BackfillEnds, history
<1>3. UNCHANGED drop \/ \E d : drop' = [drop EXCEPT ![d].st = "gone"]
  BY DEF Removal, Leave, Destroy, PurgeNodes, Purge, PurgeDroplets, PurgeDroplet, PurgeNode,
     PurgeEnds, Removing, Backfill, BackfillDroplets,
     BackfillNodes, BackfillLabel, BackfillEnds, cluster
<1>4. Calm
  BY <1>2, <1>3 DEF Calm, TypeOK, DropRec
<1> QED
  BY <1>1, <1>4, KeepNames DEF Keeps

LEMMA NextNames == TypeOK /\ NameInv /\ [Next]_vars => NameInv'
<1> SUFFICES ASSUME TypeOK, NameInv, [Next]_vars PROVE NameInv'
  OBVIOUS
<1>1. CASE UNCHANGED vars
  <2>1. UNCHANGED <<cr, drop, suspect>>
    BY <1>1 DEF vars, history
  <2> QED
    BY <2>1, KeepNames DEF Keeps, Calm
<1>2. CASE Next
  BY <1>2, StartNames, StartNamedNames, NumberNames, GivenNames, LookNames, CreateNames,
     StepNames, OtherNames DEF Next, Expand
<1> QED
  BY <1>1, <1>2

\* Two droplets have one name only where two expansions had it at once, an
\* operator gave it, or a listing failed: the choice of a serial above those in the
\* Swarm and the reuse of a droplet by name (_get_next_serial, _create_droplet) make
\* no second droplet of a name, whatever failed or was killed, removed or purged.
THEOREM NamesAreUnique == Spec => []UniqueNames
<1>1. Init => TypeOK /\ NameInv
  BY InitTypes, InitNames
<1>2. (TypeOK /\ NameInv) /\ [Next]_vars => (TypeOK /\ NameInv)'
  BY NextType, NextNames
<1>3. NameInv => UniqueNames
  BY DEF NameInv
<1> QED
  BY <1>1, <1>2, <1>3, PTL DEF Spec

-----------------------------------------------------------------------------
(* Purges. *)

Born(d) == drop[d].st # "unborn"

\* A node is on a droplet that was made, which has a serial.
BornInv ==
  /\ \A d \in Droplets : Born(d) => drop[d].serial \in Serials
  /\ InSwarm \subseteq {d \in Droplets : Born(d)}

\* What is in the Swarm was listed under its name, or joined since.
ListedInv ==
  pg.pc = "droplets" =>
    /\ pg.nodes \subseteq {d \in Droplets : Born(d)}
    /\ \A d \in InSwarm : d \in pg.late \/ NameIn(d, pg.nodes) \/ Serials \subseteq suspect

\* What is to be destroyed is no node; what is to be removed has no droplet.
PlannedInv ==
  pg.pc = "act" =>
    /\ pg.destroy \cup pg.remove \subseteq {d \in Droplets : Born(d)}
    /\ \A d \in pg.destroy \cup pg.remove :
         d \in Up \cap InSwarm => d \in pg.late \/ drop[d].serial \in suspect

PurgeInv == BornInv /\ ListedInv /\ PlannedInv

\* What is being removed was made.
RmInv == rm.pc # "idle" => rm.d \in Droplets /\ Born(rm.d)

LEMMA BornStays ==
  ASSUME TypeOK, [Next]_vars, NEW d \in Droplets, Born(d)
  PROVE  Born(d)'
<1>1. CASE UNCHANGED drop
  BY <1>1 DEF Born
<1>2. ASSUME NEW e \in Droplets, drop' = [drop EXCEPT ![e].st = "gone"]
      PROVE  Born(d)'
  BY <1>2, DropFields DEF Born, TypeOK, DropRec
<1>3. ASSUME NEW c \in Creators, NEW e \in Droplets, NEW fit \in BOOLEAN, NewDroplet(c, e, fit)
      PROVE  Born(d)'
  BY <1>3 DEF Born, TypeOK, NewDroplet
<1>4. CASE Next
  <2>1. ASSUME NEW c \in Creators, Expand(c) \/ Dies(c)
        PROVE  Born(d)'
    <3>1. UNCHANGED drop \/ \E e \in Droplets, fit \in BOOLEAN : NewDroplet(c, e, fit)
      BY <2>1 DEF Expand, Number, Look, Create, Await, Configure, Join, Label, Member, Drain,
         Verify, Redrain, Activate, Dies, Raise, cluster
    <3> QED
      BY <1>1, <1>3, <3>1
  <2>2. CASE Destroy
    <3>1. rm.d \in Droplets
      BY <2>2 DEF Destroy, TypeOK, RmRec, NoRm
    <3> QED
      BY <2>2, <3>1, <1>1, <1>2 DEF Destroy
  <2>3. CASE \/ \E c \in Creators, k \in Kinds, t \in Tiers : Start(c, k, t)
             \/ \E c \in Creators, k \in Kinds, s \in Serials : StartNamed(c, k, s)
             \/ \E c \in Creators, s \in Serials : Given(c, s)
             \/ Leave \/ PurgeNodes \/ PurgeDroplets \/ PurgeEnds
             \/ Backfill \/ \E e \in Droplets : Removing(e) \/ PurgeNode(e)
    BY <2>3, <1>1 DEF Start, StartNamed, Given, Leave, PurgeNodes, PurgeDroplets, PurgeEnds,
       Removing, Backfill, BackfillDroplets,
     BackfillNodes, BackfillLabel, BackfillEnds, PurgeNode, cluster
  <2>4. CASE \E e \in Droplets : PurgeDroplet(e)
    BY <2>4, <1>1, <1>2 DEF PurgeDroplet
  <2> QED
    BY <1>4, <2>1, <2>2, <2>3, <2>4 DEF Next, Removal, Purge
<1> QED
  BY <1>1, <1>4 DEF vars

LEMMA NextRm == TypeOK /\ RmInv /\ [Next]_vars => RmInv'
<1> SUFFICES ASSUME TypeOK, RmInv, [Next]_vars, rm'.pc # "idle"
             PROVE  (rm.d \in Droplets /\ Born(rm.d))'
  BY DEF RmInv
<1>1. CASE UNCHANGED rm
  BY <1>1, BornStays DEF RmInv
<1>2. ASSUME NEW d \in Droplets, Removing(d)
      PROVE  (rm.d \in Droplets /\ Born(rm.d))'
  <2>1. rm'.d = d /\ Born(d)
    BY <1>2 DEF Removing, Up, Born
  <2> QED
    BY <2>1, BornStays
<1>3. CASE Leave
  <2>1. rm'.d = rm.d /\ rm.pc # "idle"
    BY <1>3 DEF Leave, TypeOK, RmRec, NoRm
  <2> QED
    BY <2>1, BornStays DEF RmInv
<1>4. CASE Destroy
  BY <1>4 DEF Destroy, NoRm
<1>5. CASE Next
  <2>1. ASSUME NEW c \in Creators, Expand(c) \/ Dies(c)
        PROVE  UNCHANGED rm
    BY <2>1 DEF Expand, Number, Look, Create, Await, Configure, Join, Label, Member, Drain,
       Verify, Redrain, Activate, Dies, Alone
  <2>2. CASE \/ \E c \in Creators, k \in Kinds, t \in Tiers : Start(c, k, t)
             \/ \E c \in Creators, k \in Kinds, s \in Serials : StartNamed(c, k, s)
             \/ \E c \in Creators, s \in Serials : Given(c, s)
             \/ PurgeNodes \/ Purge \/ Backfill
    BY <2>2, <1>1 DEF Start, StartNamed, Given, PurgeNodes, Purge, PurgeDroplets, PurgeEnds,
       Backfill, BackfillDroplets, BackfillNodes, BackfillLabel, BackfillEnds, PurgeNode,
       PurgeDroplet, Begun, Alone
  <2> QED
    BY <1>1, <1>2, <1>3, <1>4, <1>5, <2>1, <2>2 DEF Next, Removal
<1> QED
  BY <1>1, <1>5 DEF vars

LEMMA InitPurge == Init => PurgeInv
<1> SUFFICES ASSUME Init PROVE PurgeInv
  OBVIOUS
<1>1. PICK second \in {Unborn} \cup [st : {"up"}, serial : {2}, size : Tiers, fit : BOOLEAN] :
        drop = [d \in Droplets |-> CASE d = 1 -> First
                                     [] d = 2 -> second
                                     [] OTHER -> Unborn]
  BY DEF Init
<1>2. /\ \A d \in Droplets : d # 1 /\ d # 2 => drop[d] = Unborn
      /\ 1 \in Droplets => drop[1] = First
      /\ 2 \in Droplets => drop[2] = second
  BY <1>1
<1>3. 1 \in Serials /\ 2 \in Serials
  BY NodeProvisionAssumption DEF Serials
<1>4. \A d \in Droplets : Born(d) => drop[d].serial \in Serials
  BY <1>2, <1>3 DEF Born, Unborn, First
<1>5. InSwarm \subseteq {d \in Droplets : Born(d)}
  <2>1. InSwarm \subseteq {1} \cap Droplets
    BY DEF Init, InSwarm, Out
  <2> QED
    BY <2>1, <1>2 DEF Born, First
<1>6. pg.pc = "idle"
  BY DEF Init, NoPg
<1> QED
  BY <1>4, <1>5, <1>6 DEF PurgeInv, BornInv, ListedInv, PlannedInv

\* What every step of the others does to droplets, nodes and names.
Kept ==
  /\ \A d \in Droplets :
       Born(d) => /\ drop'[d].st # "unborn" /\ drop'[d].serial = drop[d].serial
                  /\ drop'[d].st = "up" => drop[d].st = "up"
  /\ \A d \in Droplets : ~Born(d) /\ drop'[d].st # "unborn" => drop'[d].serial \in Serials
  /\ suspect \subseteq suspect'
  /\ \A d \in Droplets :
       node'[d].st # "out" => node[d].st # "out" \/ (Born(d) /\ (pg.pc = "idle" \/ d \in pg'.late))

\* The purge's lists but for what was dealt with.
PgKept ==
  /\ pg'.pc = pg.pc /\ pg'.nodes = pg.nodes /\ pg.late \subseteq pg'.late
  /\ pg'.destroy \subseteq pg.destroy /\ pg'.remove \subseteq pg.remove

LEMMA BornNext ==
  ASSUME TypeOK, BornInv, Kept
  PROVE  BornInv'
BY DEF BornInv, Born, InSwarm, Kept

LEMMA KeptPurge ==
  ASSUME TypeOK, PurgeInv, Kept, PgKept
  PROVE  PurgeInv'
<1>1. BornInv'
  BY BornNext DEF PurgeInv
<1>2. ListedInv'
  <2> SUFFICES ASSUME pg.pc = "droplets"
               PROVE  /\ pg.nodes \subseteq {d \in Droplets : Born(d)'}
                      /\ \A d \in InSwarm' : \/ d \in pg'.late \/ NameIn(d, pg.nodes)'
                                            \/ Serials \subseteq suspect'
    BY DEF ListedInv, PgKept
  <2>1. pg.nodes \subseteq {d \in Droplets : Born(d)}
    BY DEF PurgeInv, ListedInv
  <2>2. \A e \in pg.nodes : Born(e)' /\ drop'[e].serial = drop[e].serial
    BY <2>1 DEF Kept, Born
  <2>3. ASSUME NEW d \in InSwarm'
        PROVE  d \in pg'.late \/ NameIn(d, pg.nodes)' \/ Serials \subseteq suspect'
    <3>1. CASE d \in InSwarm
      <4>1. d \in Droplets /\ Born(d)
        BY <3>1 DEF PurgeInv, BornInv
      <4>2. drop'[d].serial = drop[d].serial
        BY <4>1 DEF Kept
      <4>3. NameIn(d, pg.nodes) => NameIn(d, pg.nodes)'
        BY <2>2, <4>2 DEF NameIn, PgKept
      <4> QED
        BY <3>1, <4>3 DEF PurgeInv, ListedInv, PgKept, Kept
    <3>2. CASE d \notin InSwarm
      BY <3>2 DEF InSwarm, Kept
    <3> QED
      BY <3>1, <3>2
  <2> QED
    BY <2>1, <2>2, <2>3
<1>3. PlannedInv'
  <2> SUFFICES ASSUME pg.pc = "act", NEW d \in pg'.destroy \cup pg'.remove
               PROVE  /\ d \in Droplets /\ Born(d)'
                      /\ d \in Up' \cap InSwarm' => d \in pg'.late \/ drop'[d].serial \in suspect'
    BY DEF PlannedInv, PgKept
  <2>1. /\ d \in Droplets /\ Born(d)
        /\ d \in Up \cap InSwarm => d \in pg.late \/ drop[d].serial \in suspect
    BY DEF PurgeInv, PlannedInv, PgKept
  <2>2. Born(d)' /\ drop'[d].serial = drop[d].serial
    BY <2>1 DEF Kept, Born
  <2>3. ASSUME d \in Up' \cap InSwarm'
        PROVE  d \in pg'.late \/ drop'[d].serial \in suspect'
    <3>1. d \in Up
      BY <2>1, <2>3 DEF Up, Kept
    <3>2. d \in InSwarm \/ d \in pg'.late
      BY <2>1, <2>3 DEF InSwarm, Kept
    <3> QED
      BY <2>1, <2>2, <3>1, <3>2 DEF Kept, PgKept
  <2> QED
    BY <2>1, <2>2, <2>3
<1> QED
  BY <1>1, <1>2, <1>3 DEF PurgeInv

\* No step but a join brings a node into the Swarm.
NoneJoins == \A d \in Droplets : node'[d].st # "out" => node[d].st # "out"

LEMMA QuietPurge ==
  ASSUME TypeOK, PurgeInv, UNCHANGED <<drop, pg>>, suspect \subseteq suspect', NoneJoins
  PROVE  PurgeInv'
<1>1. Kept
  BY DEF Kept, NoneJoins, Born
<1>2. PgKept
  BY DEF PgKept
<1> QED
  BY <1>1, <1>2, KeptPurge

\* A change to a node of the Swarm.
LEMMA NodeChange ==
  ASSUME TypeOK, NEW d \in InSwarm, NEW x, NEW st \in {"active", "drain"},
         \/ UNCHANGED node \/ node' = [node EXCEPT ![d].label = x]
         \/ node' = [node EXCEPT ![d].st = st] \/ node' = [node EXCEPT ![d] = Out]
  PROVE  NoneJoins
BY DropFields DEF NoneJoins, InSwarm, TypeOK, NodeRec, Out

LEMMA CreatePurge ==
  ASSUME TypeOK, NameInv, PurgeInv, NEW c \in Creators, Create(c)
  PROVE  PurgeInv'
<1>1. CASE Raise(c)
  BY <1>1, QuietPurge DEF Create, Alone, Raise, NoneJoins
<1>2. ASSUME NEW d \in Droplets, NEW fit \in BOOLEAN, NewDroplet(c, d, fit),
             UNCHANGED <<node, suspect, pg>>, At(c, "create")
      PROVE  PurgeInv'
  <2>1. /\ \A e \in Droplets \ {d} : drop'[e] = drop[e]
        /\ drop'[d].serial = cr[c].serial /\ drop[d].st = "unborn"
    BY <1>2 DEF NewDroplet, TypeOK
  <2>2. cr[c].serial # 0
    BY <1>2 DEF NameInv, SerialInv, At
  <2>3. cr[c].serial \in Serials
    BY <2>2, CrFields, NodeProvisionAssumption DEF Serials
  <2>4. Kept
    BY <1>2, <2>1, <2>3 DEF Kept, Born
  <2>5. PgKept
    BY <1>2 DEF PgKept
  <2> QED
    BY <2>4, <2>5, KeptPurge
<1> QED
  BY <1>1, <1>2 DEF Create, Alone

LEMMA JoinPurge ==
  ASSUME TypeOK, PurgeInv, NEW c \in Creators, Join(c)
  PROVE  PurgeInv'
<1>1. CASE Raise(c) /\ UNCHANGED pg
  BY <1>1, QuietPurge DEF Raise, NoneJoins
<1>2. CASE UNCHANGED <<node, drop, pg, suspect>>
  BY <1>2, QuietPurge DEF NoneJoins
<1>3. ASSUME NEW d \in Reached(cr[c].serial),
             node' = [node EXCEPT ![d] = [st |-> "active", label |-> "none"]],
             pg' = IF pg.pc = "idle" THEN pg ELSE [pg EXCEPT !.late = @ \cup {d}],
             UNCHANGED <<drop, suspect>>
      PROVE  PurgeInv'
  <2>1. d \in Droplets /\ Born(d)
    BY DEF Reached, Named, Up, Born
  <2>2. pg \in PgRec
    BY DEF TypeOK
  <2>3. PgKept
    BY <1>3, <2>2 DEF PgKept, PgRec
  <2>4. pg.pc = "idle" \/ d \in pg'.late
    BY <1>3, <2>2 DEF PgRec
  <2>5. \A e \in Droplets \ {d} : node'[e] = node[e]
    BY <1>3 DEF TypeOK
  <2>6. Kept
    BY <1>3, <2>1, <2>4, <2>5 DEF Kept, Born
  <2> QED
    BY <2>3, <2>6, KeptPurge
<1> QED
  BY <1>1, <1>2, <1>3 DEF Join

LEMMA StepPurge ==
  ASSUME TypeOK, PurgeInv, NEW c \in Creators,
         \/ \E k \in Kinds, t \in Tiers : Start(c, k, t)
         \/ \E k \in Kinds, s \in Serials : StartNamed(c, k, s)
         \/ \E s \in Serials : Given(c, s)
         \/ Number(c) \/ Look(c) \/ Await(c) \/ Configure(c) \/ Member(c)
         \/ Verify(c) \/ Dies(c)
  PROVE  PurgeInv'
<1>1. UNCHANGED <<drop, node, pg>>
  BY DEF Start, StartNamed, Given, Number, Look, Await, Configure, Member, Verify, Dies,
     Raise, cluster, Alone, Begun
<1>2. suspect \subseteq suspect'
  BY DEF Start, StartNamed, Given, Number, Look, Await, Configure, Member, Verify, Dies,
     Raise, cluster, history, Suspect
<1> QED
  BY <1>1, <1>2, QuietPurge DEF NoneJoins

LEMMA MarkPurge ==
  ASSUME TypeOK, PurgeInv, NEW c \in Creators,
         Label(c) \/ Drain(c) \/ Redrain(c) \/ Activate(c)
  PROVE  PurgeInv'
<1>1. UNCHANGED <<drop, pg>>
  BY DEF Label, Drain, Redrain, Activate, Alone
<1>2. suspect \subseteq suspect'
  BY DEF Label, Drain, Redrain, Activate, history, Suspect
<1>3. NoneJoins
  <2>1. CASE UNCHANGED node
    BY <2>1 DEF NoneJoins
  <2>2. ASSUME NEW d \in InSwarm,
               \/ \E x : node' = [node EXCEPT ![d].label = x]
               \/ \E st \in {"active", "drain"} : node' = [node EXCEPT ![d].st = st]
        PROVE  NoneJoins
    BY <2>2, NodeChange
  <2> QED
    BY <2>1, <2>2 DEF Label, Drain, Redrain, Activate, Nodes, Target
<1> QED
  BY <1>1, <1>2, <1>3, QuietPurge

LEMMA RemovalPurge ==
  ASSUME TypeOK, PurgeInv, RmInv,
         \/ Removal \/ Backfill \/ \E d \in Droplets : Removing(d)
  PROVE  PurgeInv'
<1>1. CASE \E d \in Droplets : Removing(d)
  BY <1>1, QuietPurge DEF Removing, NoneJoins, cluster, history
<1>2. CASE Backfill
  <2>1. UNCHANGED node \/ \E d \in InSwarm : \E x : node' = [node EXCEPT ![d].label = x]
    BY <1>2, BackfillOnly DEF Nodes
  <2>2. NoneJoins
    <3>1. CASE UNCHANGED node
      BY <3>1 DEF NoneJoins
    <3> QED
      BY <2>1, <3>1, NodeChange
  <2> QED
    BY <1>2, <2>2, BackfillOnly, QuietPurge DEF history
<1>3. CASE Leave
  <2>1. NoneJoins
    <3>1. CASE UNCHANGED node
      BY <3>1 DEF NoneJoins
    <3>2. CASE \E d \in InSwarm : node' = [node EXCEPT ![d] = Out]
      BY <3>2, NodeChange
    <3> QED
      BY <1>3, <3>1, <3>2 DEF Leave, Nodes
  <2> QED
    BY <1>3, <2>1, QuietPurge DEF Leave
<1>4. CASE Destroy
  <2>1. Kept
    <3>1. \A d \in Droplets : \/ drop'[d] = drop[d]
                             \/ drop'[d] = [drop[d] EXCEPT !.st = "gone"]
      BY <1>4 DEF Destroy, TypeOK
    <3>2. \A d \in Droplets : drop'[d] = drop[d] \/ (drop'[d].st = "gone" /\ drop'[d].serial = drop[d].serial)
      BY <3>1, DropFields DEF DropRec
    <3>3. \A d \in Droplets : drop'[d].st = "gone" => Born(d)
      BY <1>4 DEF Destroy, RmInv, Born, TypeOK
    <3> QED
      BY <1>4, <3>2, <3>3 DEF Destroy, Kept, Born
  <2>2. PgKept
    BY <1>4 DEF Destroy, PgKept
  <2> QED
    BY <2>1, <2>2, KeptPurge
<1> QED
  BY <1>1, <1>2, <1>3, <1>4 DEF Removal

LEMMA PurgeNodesPurge ==
  ASSUME TypeOK, PurgeInv, PurgeNodes
  PROVE  PurgeInv'
<1>0. UNCHANGED <<drop, node>> /\ suspect \subseteq suspect'
  BY DEF PurgeNodes, cluster
<1>1. BornInv'
  BY <1>0 DEF PurgeInv, BornInv, Born, InSwarm
<1>2. PlannedInv'
  BY DEF PurgeNodes, PlannedInv, NoPg
<1>3. ListedInv'
  <2>1. InSwarm' = InSwarm /\ \A d \in Droplets : Born(d)' = Born(d)
    BY <1>0 DEF InSwarm, Born
  <2>2. ASSUME NEW S \in SUBSET InSwarm, OnePerName(S, InSwarm),
               pg' = [NoPg EXCEPT !.pc = "droplets", !.nodes = S]
        PROVE  ListedInv'
    <3>1. pg'.nodes = S
      BY <2>2 DEF NoPg
    <3>2. S \subseteq {d \in Droplets : Born(d)}
      BY <2>2 DEF PurgeInv, BornInv
    <3>3. \A d \in InSwarm : NameIn(d, S)'
      BY <1>0, <2>2 DEF OnePerName, NameIn
    <3> QED
      BY <2>1, <3>1, <3>2, <3>3 DEF ListedInv, NameIn
  <2>3. CASE pg' = [NoPg EXCEPT !.pc = "droplets"] /\ suspect' = suspect \cup Serials
    BY <2>3 DEF ListedInv, NoPg
  <2> QED
    BY <2>2, <2>3 DEF PurgeNodes
<1> QED
  BY <1>1, <1>2, <1>3 DEF PurgeInv

LEMMA PurgeDropletsPurge ==
  ASSUME TypeOK, PurgeInv, PurgeDroplets
  PROVE  PurgeInv'
<1>0. UNCHANGED <<drop, node>> /\ suspect \subseteq suspect' /\ pg \in PgRec
  BY DEF PurgeDroplets, cluster, TypeOK
<1>1. BornInv'
  BY <1>0 DEF PurgeInv, BornInv, Born, InSwarm
<1>2. PICK S \in SUBSET Up : PurgePlan(S) /\ (OnePerName(S, Up) \/ suspect' = suspect \cup Serials)
  BY DEF PurgeDroplets
<1>3. /\ pg'.pc = "act" /\ pg'.late = pg.late
      /\ pg'.destroy = {d \in S : ~NameIn(d, pg.nodes)}
      /\ pg'.remove = {d \in pg.nodes : ~NameIn(d, S)}
  BY <1>0, <1>2 DEF PurgePlan, PgRec
<1>4. ListedInv'
  BY <1>3 DEF ListedInv
<1>5. /\ pg.nodes \subseteq {d \in Droplets : Born(d)}
      /\ \A d \in InSwarm : d \in pg.late \/ NameIn(d, pg.nodes) \/ Serials \subseteq suspect
  BY DEF PurgeInv, ListedInv, PurgeDroplets
<1>6. \A d \in Droplets : Born(d) => drop[d].serial \in Serials
  BY DEF PurgeInv, BornInv
<1>7. ASSUME NEW d \in pg'.destroy \cup pg'.remove
      PROVE  /\ d \in Droplets /\ Born(d)
             /\ d \in Up /\ d \in InSwarm => d \in pg.late \/ drop[d].serial \in suspect'
  <2>1. d \in Droplets /\ Born(d)
    BY <1>3, <1>5 DEF Up, Born
  <2>2. CASE d \in pg'.destroy
    BY <1>0, <1>3, <1>5, <1>6, <2>1, <2>2
  <2>3. CASE d \in pg'.remove
    BY <1>0, <1>2, <1>3, <1>6, <2>1, <2>3 DEF OnePerName, NameIn
  <2> QED
    BY <2>1, <2>2, <2>3
<1>8. PlannedInv'
  BY <1>0, <1>3, <1>7 DEF PlannedInv, Born, Up, InSwarm
<1> QED
  BY <1>1, <1>4, <1>8 DEF PurgeInv

LEMMA PurgeActsPurge ==
  ASSUME TypeOK, PurgeInv, PurgeEnds \/ \E d \in Droplets : PurgeDroplet(d) \/ PurgeNode(d)
  PROVE  PurgeInv'
<1>0. pg \in PgRec
  BY DEF TypeOK
<1>1. ASSUME NEW d \in Droplets, PurgeDroplet(d)
      PROVE  PurgeInv'
  <2>1. PgKept
    BY <1>0, <1>1 DEF PurgeDroplet, PgKept, PgRec
  <2>2. Born(d)
    BY <1>1 DEF PurgeDroplet, PurgeInv, PlannedInv
  <2>3. \A e \in Droplets : drop'[e] = drop[e] \/ (e = d /\ drop'[e].st = "gone" /\ drop'[e].serial = drop[e].serial)
    BY <1>1, DropFields DEF PurgeDroplet, TypeOK, DropRec
  <2>4. UNCHANGED <<node, suspect>>
    BY <1>1 DEF PurgeDroplet, history
  <2>5. Kept
    BY <2>2, <2>3, <2>4 DEF Kept, Born
  <2> QED
    BY <2>1, <2>5, KeptPurge
<1>2. ASSUME NEW d \in Droplets, PurgeNode(d)
      PROVE  PurgeInv'
  <2>1. PgKept
    BY <1>0, <1>2 DEF PurgeNode, PgKept, PgRec
  <2>2. UNCHANGED <<drop, suspect>> /\ (UNCHANGED node \/ node' = [node EXCEPT ![d] = Out])
    BY <1>2 DEF PurgeNode
  <2>3. Kept
    BY <2>2 DEF Kept, Born, TypeOK, Out
  <2> QED
    BY <2>1, <2>3, KeptPurge
<1>3. CASE PurgeEnds
  <2>1. UNCHANGED <<drop, node, suspect>> /\ pg'.pc = "idle"
    BY <1>3 DEF PurgeEnds, cluster, history, NoPg
  <2> QED
    BY <2>1 DEF PurgeInv, BornInv, ListedInv, PlannedInv, Born, InSwarm
<1> QED
  BY <1>1, <1>2, <1>3

LEMMA NextPurge == TypeOK /\ NameInv /\ RmInv /\ PurgeInv /\ [Next]_vars => PurgeInv'
<1> SUFFICES ASSUME TypeOK, NameInv, RmInv, PurgeInv, [Next]_vars PROVE PurgeInv'
  OBVIOUS
<1>1. CASE UNCHANGED vars
  <2>1. UNCHANGED <<drop, pg, suspect, node>>
    BY <1>1 DEF vars, history
  <2> QED
    BY <2>1, QuietPurge DEF NoneJoins
<1>2. CASE Next
  <2>1. CASE PurgeNodes \/ Purge
    BY <2>1, PurgeNodesPurge, PurgeDropletsPurge, PurgeActsPurge DEF Purge
  <2>2. CASE Removal \/ Backfill \/ \E d \in Droplets : Removing(d)
    BY <2>2, RemovalPurge
  <2> QED
    BY <1>2, <2>1, <2>2, StepPurge, MarkPurge, CreatePurge, JoinPurge DEF Next, Expand
<1> QED
  BY <1>1, <1>2

\* purge (expand_purge) destroys no droplet of a node and removes no node of a
\* droplet, unless one of its two listings failed or the node joined after the
\* first, however the cluster changes under it.
THEOREM PurgesSpare == Spec => PurgeSpares
<1>1. Init => TypeOK /\ NameInv /\ RmInv /\ PurgeInv
  BY InitTypes, InitNames, InitPurge DEF Init, RmInv, NoRm
<1>2. (TypeOK /\ NameInv /\ RmInv /\ PurgeInv) /\ [Next]_vars
        => (TypeOK /\ NameInv /\ RmInv /\ PurgeInv)'
  BY NextType, NextNames, NextRm, NextPurge
<1>3. (TypeOK /\ NameInv /\ RmInv /\ PurgeInv) =>
        [\A d \in Up \cap InSwarm :
           /\ pg.pc = "act" /\ (d \in pg.destroy \/ d \in pg.remove) /\ d \notin pg'.destroy \cup pg'.remove
           => d \in pg.late \/ drop[d].serial \in suspect]_vars
  BY DEF PurgeInv, PlannedInv
<1> QED
  BY <1>1, <1>2, <1>3, PTL DEF Spec, PurgeSpares
=============================================================================
