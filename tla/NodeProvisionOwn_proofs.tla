------------------------ MODULE NodeProvisionOwn_proofs ------------------------
(***************************************************************************)
(* Proofs about NodeProvision: what an expansion knows of its droplet.  Nodes *)
(* and droplets are found by name at every step; as long as a name is not     *)
(* suspect, what an expansion finds is its own.  From this follow the labels, *)
(* the verification, the nodes in service and the leftovers.                  *)
(***************************************************************************)
EXTENDS NodeProvision_proofs, WellFoundedInduction

-----------------------------------------------------------------------------
(* The invariant. *)

Early == {"idle", "number", "look", "create"}
Bare == {"configure", "join"}

\* Which expansions have a droplet, and where the others may be.
KindInv ==
  \A c \in Creators :
    /\ cr[c].pc \in Early => cr[c].own = NoDroplet
    /\ cr[c].pc \notin Early => (cr[c].own = NoDroplet <=> cr[c].kind \in Bare)
    /\ cr[c].pc \in {"number", "look", "create"} => cr[c].kind \notin Bare
    /\ cr[c].pc \notin Early /\ cr[c].kind = "join" => cr[c].pc = "join"
    /\ cr[c].pc \notin Early /\ cr[c].kind = "configure"
         => cr[c].pc \notin {"await", "join", "label"}

\* The droplet of an expansion has its serial, its tier and its address.
OwnInv ==
  \A c \in Creators : cr[c].own # NoDroplet =>
    /\ cr[c].own \in Droplets /\ Born(cr[c].own)
    /\ drop[cr[c].own].serial = cr[c].serial
    /\ drop[cr[c].own].size = cr[c].tier \/ cr[c].own \in mixed
    /\ cr[c].pc = "await" \/ cr[c].ip = cr[c].own \/ cr[c].serial \in suspect

\* It is the only one of the name, and before there is one the Swarm has no node of
\* the name.
MineInv ==
  \A c \in Creators : \A d \in Up \cup InSwarm :
    drop[d].serial = cr[c].serial =>
      \/ d = cr[c].own \/ cr[c].serial \in suspect
      \/ cr[c].own = NoDroplet /\ d \notin InSwarm

\* What is up or in the Swarm has a name of its own.
OneEachInv ==
  \A d, e \in Up \cup InSwarm :
    d # e /\ drop[d].serial = drop[e].serial => drop[d].serial \in suspect

\* The node found before the verification has the name, and each try that failed
\* was a call that failed.
ObjInv ==
  \A c \in Creators :
    /\ cr[c].tries <= faults
    /\ cr[c].obj # NoDroplet =>
         cr[c].obj \in Droplets /\ Born(cr[c].obj) /\ drop[cr[c].obj].serial = cr[c].serial

HoldInv == KindInv /\ OwnInv /\ MineInv /\ OneEachInv /\ ObjInv

LEMMA InitHold == Init => HoldInv
<1> SUFFICES ASSUME Init PROVE HoldInv
  OBVIOUS
<1>1. \A c \in Creators : cr[c] = Idle
  BY DEF Init
<1>2. PICK second \in {Unborn} \cup [st : {"up"}, serial : {2}, size : Tiers, fit : BOOLEAN] :
        drop = [d \in Droplets |-> CASE d = 1 -> First
                                     [] d = 2 -> second
                                     [] OTHER -> Unborn]
  BY DEF Init
<1>3. /\ \A d \in Droplets : d # 1 /\ d # 2 => drop[d] = Unborn
      /\ 1 \in Droplets => drop[1] = First
      /\ 2 \in Droplets => drop[2] = second
  BY <1>2
<1>4. InSwarm \subseteq {1} \cap Droplets
  BY DEF Init, InSwarm, Out
<1>5. Up \subseteq {1, 2} \cap Droplets /\ (2 \in Up => drop[2].serial = 2)
  BY <1>3 DEF Up, Unborn
<1>6. 1 \in Droplets => drop[1].serial = 1
  BY <1>3 DEF First
<1>7. KindInv /\ OwnInv /\ MineInv
  BY <1>1, <1>4, <1>5, <1>6 DEF KindInv, OwnInv, MineInv, Idle, Early, Bare, NoDroplet
<1>8. OneEachInv
  BY <1>4, <1>5, <1>6 DEF OneEachInv
<1>9. ObjInv
  BY <1>1 DEF ObjInv, Idle, NoDroplet, Init
<1> QED
  BY <1>7, <1>8, <1>9 DEF HoldInv

\* A node that joins is an expansion's own, or suspect.
Arrivals ==
  \A d \in InSwarm' \ InSwarm :
    /\ d \in Up
    /\ \A c \in Creators :
         drop[d].serial = cr'[c].serial => d = cr'[c].own \/ cr'[c].serial \in suspect'

\* Nothing comes up or changes its name or size; what is suspect stays so.
Shrinks ==
  /\ \A d \in Droplets :
       Born(d) => /\ drop'[d].st # "unborn"
                  /\ drop'[d].serial = drop[d].serial /\ drop'[d].size = drop[d].size
                  /\ drop'[d].st = "up" => drop[d].st = "up"
  /\ \A d \in Droplets : ~Born(d) => drop'[d].st = "unborn"
  /\ NoneJoins \/ Arrivals
  /\ suspect \subseteq suspect' /\ mixed \subseteq mixed'
  /\ faults <= faults'

\* An expansion stays as it was, is at rest, or goes on with what it has.
Rests(c) ==
  /\ cr'[c].pc \in {"idle", "number"}
  /\ cr'[c].serial = 0 /\ cr'[c].own = NoDroplet /\ cr'[c].obj = NoDroplet
  /\ cr'[c].tries = 0
  /\ cr'[c].pc = "number" => cr'[c].kind \notin Bare

Advances(c) ==
  /\ cr[c].pc \notin Early /\ cr'[c].pc \notin Early \cup {"await"}
  /\ cr'[c].kind = cr[c].kind /\ cr'[c].tier = cr[c].tier
  /\ cr'[c].serial = cr[c].serial /\ cr'[c].own = cr[c].own
  /\ cr[c].kind = "join" => cr'[c].pc = "join"
  /\ cr[c].kind = "configure" => cr'[c].pc \notin {"join", "label"}
  /\ cr[c].own # NoDroplet =>
       cr'[c].ip = cr[c].own \/ cr[c].serial \in suspect'
  /\ \/ cr'[c].obj = cr[c].obj
     \/ /\ cr'[c].obj \in Droplets /\ Born(cr'[c].obj)
        /\ drop[cr'[c].obj].serial = cr[c].serial
  /\ cr'[c].tries <= faults'

Follows(c) == cr'[c] = cr[c] \/ Rests(c) \/ Advances(c)

LEMMA ShrinksUp ==
  ASSUME TypeOK, BornInv, Shrinks
  PROVE  /\ Up' \subseteq Up /\ InSwarm' \subseteq InSwarm \cup Up
         /\ InSwarm' \subseteq InSwarm \/ Arrivals
         /\ \A d \in Up \cup InSwarm :
              d \in Droplets /\ Born(d) /\ drop'[d].serial = drop[d].serial
              /\ drop[d].serial \in Serials
<1>1. InSwarm' \subseteq InSwarm \/ (Arrivals /\ InSwarm' \subseteq InSwarm \cup Up)
  <2>1. CASE NoneJoins
    BY <2>1 DEF NoneJoins, InSwarm
  <2>2. CASE Arrivals
    BY <2>2 DEF Arrivals
  <2> QED
    BY <2>1, <2>2 DEF Shrinks
<1>2. Up' \subseteq Up
  BY DEF Shrinks, Up, Born
<1>3. \A d \in Up \cup InSwarm : d \in Droplets /\ Born(d)
  BY DEF BornInv, Up, Born
<1> QED
  BY <1>1, <1>2, <1>3 DEF BornInv, Shrinks

LEMMA FollowsHold ==
  ASSUME TypeOK, TypeOK', BornInv, HoldInv, Shrinks, \A c \in Creators : Follows(c)
  PROVE  HoldInv'
<1>1. KindInv'
  BY DEF HoldInv, KindInv, Follows, Rests, Advances, Early
<1>2. OwnInv'
  <2> SUFFICES ASSUME NEW c \in Creators, cr'[c].own # NoDroplet
               PROVE  /\ cr'[c].own \in Droplets /\ drop'[cr'[c].own].st # "unborn"
                      /\ drop'[cr'[c].own].serial = cr'[c].serial
                      /\ drop'[cr'[c].own].size = cr'[c].tier \/ cr'[c].own \in mixed'
                      /\ \/ cr'[c].pc = "await" \/ cr'[c].ip = cr'[c].own
                         \/ cr'[c].serial \in suspect'
    BY DEF OwnInv, Born
  <2>1. /\ cr'[c].own = cr[c].own /\ cr'[c].serial = cr[c].serial /\ cr'[c].tier = cr[c].tier
        /\ cr'[c] = cr[c] \/ cr'[c].ip = cr[c].own \/ cr[c].serial \in suspect'
    BY DEF Follows, Rests, Advances
  <2>2. PICK d : d = cr[c].own
    OBVIOUS
  <2>3. d \in Droplets /\ Born(d) /\ drop[d].serial = cr[c].serial
        /\ (drop[d].size = cr[c].tier \/ d \in mixed)
    BY <2>1, <2>2 DEF HoldInv, OwnInv
  <2>4. Born(d)' /\ drop'[d].serial = cr[c].serial /\ (drop'[d].size = cr[c].tier \/ d \in mixed')
    BY <2>3 DEF Shrinks, Born
  <2>5. \/ cr'[c].pc = "await" \/ cr'[c].ip = cr'[c].own \/ cr'[c].serial \in suspect'
    BY <2>1 DEF HoldInv, OwnInv, Shrinks
  <2> QED
    BY <2>1, <2>2, <2>3, <2>4, <2>5 DEF Born
<1>3. MineInv'
  <2> SUFFICES ASSUME NEW c \in Creators, NEW d \in Up' \cup InSwarm',
                      drop'[d].serial = cr'[c].serial
               PROVE  \/ d = cr'[c].own \/ cr'[c].serial \in suspect'
                      \/ cr'[c].own = NoDroplet /\ d \notin InSwarm'
    BY DEF MineInv
  <2>1. /\ d \in Up \cup InSwarm /\ drop'[d].serial = drop[d].serial
        /\ drop[d].serial # 0
    BY ShrinksUp DEF Serials
  <2>2. cr'[c].serial = cr[c].serial /\ cr'[c].own = cr[c].own
    BY <2>1 DEF Follows, Rests, Advances
  <2>3. CASE d \in InSwarm' \ InSwarm
    BY <2>1, <2>3, ShrinksUp DEF Arrivals
  <2>4. CASE d \notin InSwarm' \ InSwarm
    BY <2>1, <2>2, <2>4 DEF HoldInv, MineInv, Shrinks
  <2> QED
    BY <2>3, <2>4
<1>4. OneEachInv'
  BY ShrinksUp DEF HoldInv, OneEachInv, Shrinks
<1>5. ObjInv'
  <2> SUFFICES ASSUME NEW c \in Creators
               PROVE  /\ cr'[c].tries <= faults'
                      /\ cr'[c].obj # NoDroplet =>
                           /\ cr'[c].obj \in Droplets /\ drop'[cr'[c].obj].st # "unborn"
                           /\ drop'[cr'[c].obj].serial = cr'[c].serial
    BY DEF ObjInv, Born
  <2>1. cr'[c].tries <= faults'
    <3>1. cr[c].tries <= faults /\ faults <= faults' /\ cr[c].tries \in Nat /\ faults \in Nat
          /\ faults' \in Nat
      BY CrFields, NodeProvisionAssumption DEF HoldInv, ObjInv, Shrinks, TypeOK
    <3> QED
      BY <3>1 DEF Follows, Rests, Advances
  <2>2. ASSUME cr'[c].obj # NoDroplet
        PROVE  /\ cr'[c].obj \in Droplets /\ drop'[cr'[c].obj].st # "unborn"
               /\ drop'[cr'[c].obj].serial = cr'[c].serial
    <3>1. cr'[c].serial = cr[c].serial
      BY <2>2 DEF Follows, Rests, Advances
    <3>2. /\ cr'[c].obj \in Droplets /\ Born(cr'[c].obj)
          /\ drop[cr'[c].obj].serial = cr[c].serial
      BY <2>2 DEF Follows, Rests, Advances, HoldInv, ObjInv
    <3>3. PICK d : d = cr'[c].obj
      OBVIOUS
    <3> QED
      BY <3>1, <3>2, <3>3 DEF Shrinks, Born
  <2> QED
    BY <2>1, <2>2
<1> QED
  BY <1>1, <1>2, <1>3, <1>4, <1>5 DEF HoldInv

-----------------------------------------------------------------------------
(* Its steps. *)

\* The others stay where they are, and one takes a serial that no node has.
LEMMA TakesHold ==
  ASSUME TypeOK, TypeOK', BornInv, HoldInv, UNCHANGED cluster, suspect \subseteq suspect',
         UNCHANGED <<mixed>>, faults <= faults',
         NEW c \in Creators, NEW s \in Serials,
         \A o \in Creators \ {c} : cr'[o] = cr[o],
         cr'[c].serial = s, cr'[c].own = NoDroplet, cr'[c].obj = NoDroplet,
         cr'[c].tries <= faults',
         \/ cr'[c].pc = "look" /\ cr'[c].kind \notin Bare
         \/ cr'[c].kind \in Bare /\ cr'[c].pc = cr'[c].kind,
         Nodes(s) = {} \/ s \in suspect'
  PROVE  HoldInv'
<1>1. KindInv'
  BY DEF HoldInv, KindInv, Early, Bare
<1>2. Up' = Up /\ InSwarm' = InSwarm /\ drop' = drop /\ \A d \in Droplets : Born(d)' = Born(d)
  BY DEF cluster, Up, InSwarm, Born
<1>3. OwnInv'
  BY <1>2 DEF HoldInv, OwnInv
<1>4. MineInv'
  <2> SUFFICES ASSUME NEW o \in Creators, NEW d \in Up \cup InSwarm,
                      drop[d].serial = cr'[o].serial
               PROVE  \/ d = cr'[o].own \/ cr'[o].serial \in suspect'
                      \/ cr'[o].own = NoDroplet /\ d \notin InSwarm
    BY <1>2 DEF MineInv
  <2>1. CASE o = c
    BY <2>1 DEF Nodes
  <2>2. CASE o # c
    BY <2>2 DEF HoldInv, MineInv
  <2> QED
    BY <2>1, <2>2
<1>5. OneEachInv'
  BY <1>2 DEF HoldInv, OneEachInv
<1>6. ObjInv'
  <2>1. \A o \in Creators \ {c} : cr'[o].tries <= faults'
    <3>1. \A o \in Creators : cr[o].tries <= faults /\ cr[o].tries \in Nat
      BY CrFields, NodeProvisionAssumption DEF HoldInv, ObjInv
    <3>2. faults \in Nat /\ faults' \in Nat
      BY NodeProvisionAssumption DEF TypeOK
    <3> QED
      BY <3>1, <3>2
  <2> QED
    BY <1>2, <2>1 DEF HoldInv, ObjInv
<1> QED
  BY <1>1, <1>3, <1>4, <1>5, <1>6 DEF HoldInv

LEMMA FaultsGrow ==
  ASSUME TypeOK, Fault \/ NoFault
  PROVE  faults <= faults'
BY NodeProvisionAssumption DEF TypeOK, Fault, NoFault

LEMMA StartHold ==
  ASSUME TypeOK, TypeOK', BornInv, HoldInv,
         NEW c \in Creators, NEW k \in Kinds, NEW t \in Tiers, Start(c, k, t)
  PROVE  HoldInv'
<1>1. cr' = [cr EXCEPT ![c] = [Idle EXCEPT !.pc = "number", !.kind = k, !.tier = t]]
      /\ k \in Numbered
  BY DEF Start
<1>2. \A o \in Creators : cr'[o] = cr[o] \/ Rests(o)
  BY <1>1 DEF TypeOK, Rests, Idle, NoDroplet, Numbered, Bare
<1>3. Shrinks
  BY NodeProvisionAssumption DEF Start, Shrinks, cluster, history, NoneJoins, Born, TypeOK
<1> QED
  BY <1>2, <1>3, FollowsHold DEF Follows

LEMMA StartNamedHold ==
  ASSUME TypeOK, TypeOK', BornInv, HoldInv,
         NEW c \in Creators, NEW k \in Kinds, NEW s \in Serials, StartNamed(c, k, s)
  PROVE  HoldInv'
<1>1. cr' = [cr EXCEPT ![c] = [Idle EXCEPT !.pc = k, !.kind = k, !.serial = s]]
      /\ k \in Bare
  BY DEF StartNamed, Bare
<1>2. /\ \A o \in Creators \ {c} : cr'[o] = cr[o]
      /\ cr'[c].serial = s /\ cr'[c].own = NoDroplet /\ cr'[c].obj = NoDroplet
      /\ cr'[c].tries = 0 /\ cr'[c].kind = k /\ cr'[c].pc = k
  BY <1>1 DEF TypeOK, Idle, NoDroplet
<1>3. /\ UNCHANGED cluster /\ UNCHANGED mixed /\ suspect \subseteq suspect'
      /\ Nodes(s) = {} \/ s \in suspect'
  BY DEF StartNamed, Suspect
<1>4. faults <= faults' /\ 0 <= faults'
  BY NodeProvisionAssumption DEF StartNamed, TypeOK
<1> QED
  BY <1>1, <1>2, <1>3, <1>4, TakesHold

LEMMA NumbersHold ==
  ASSUME TypeOK, TypeOK', BornInv, NameInv, HoldInv, UNCHANGED cluster,
         suspect \subseteq suspect', UNCHANGED <<mixed>>, faults <= faults',
         NEW c \in Creators, NEW s \in Serials, Numbers(c, s), At(c, "number"),
         Nodes(s) = {} \/ s \in suspect'
  PROVE  HoldInv'
<1>1. /\ \A o \in Creators \ {c} : cr'[o] = cr[o]
      /\ cr'[c].serial = s /\ cr'[c].pc = "look" /\ cr'[c].own = cr[c].own
      /\ cr'[c].obj = cr[c].obj /\ cr'[c].tries = cr[c].tries /\ cr'[c].kind = cr[c].kind
  BY CrFields DEF Numbers, TypeOK, CrRec
<1>2. cr[c].own = NoDroplet /\ cr[c].kind \notin Bare
  BY DEF HoldInv, KindInv, At, Early
<1>3. cr[c].obj = NoDroplet
  <2>1. cr[c].serial = 0
    BY DEF NameInv, SerialInv, At
  <2> QED
    BY <2>1 DEF HoldInv, ObjInv, BornInv, Serials
<1>4. cr'[c].tries <= faults'
  <2>1. cr[c].tries <= faults /\ cr[c].tries \in Nat /\ faults \in Nat /\ faults' \in Nat
    BY CrFields, NodeProvisionAssumption DEF HoldInv, ObjInv, TypeOK
  <2> QED
    BY <1>1, <2>1
<1> QED
  BY <1>1, <1>2, <1>3, <1>4, TakesHold

\* A set of bounded naturals has a greatest element.
LEMMA Greatest ==
  ASSUME NEW N \in Nat, NEW S \in SUBSET (0 .. N), S # {}
  PROVE  \E x \in S : \A y \in S : x >= y
<1> DEFINE R == OpToRel(<, Nat)
<1>1. IsWellFoundedOn(R, Nat)
  BY NatLessThanWellFounded
<1>2. R = {ss \in Nat \X Nat : ss[1] < ss[2]}
  BY DEF OpToRel
<1> HIDE DEF R
<1> DEFINE T == {N - y : y \in S}
<1>3. T \subseteq Nat /\ T # {}
  <2>1. \A y \in S : N - y \in Nat
    OBVIOUS
  <2>2. PICK y \in S : TRUE
    OBVIOUS
  <2>3. N - y \in T
    OBVIOUS
  <2> QED
    BY <2>1, <2>3
<1> HIDE DEF T
<1>4. PICK t \in T : \A u \in T : <<u, t>> \notin R
  BY <1>1, <1>3, WFMin
<1> USE DEF T
<1>5. ASSUME NEW u \in T PROVE ~(u < t)
  <2>1. <<u, t>> \in Nat \X Nat /\ <<u, t>>[1] = u /\ <<u, t>>[2] = t
    BY <1>3
  <2> QED
    BY <1>2, <1>4, <2>1
<1>6. PICK x \in S : t = N - x
  OBVIOUS
<1>7. ASSUME NEW y \in S PROVE x >= y
  <2>1. N - y \in T
    OBVIOUS
  <2>2. ~(N - y < N - x)
    BY <2>1, <1>5, <1>6
  <2>3. x \in 0 .. N /\ y \in 0 .. N
    OBVIOUS
  <2>4. \A a, b \in 0 .. N : ~(N - b < N - a) => a >= b
    OBVIOUS
  <2> HIDE DEF T
  <2> QED
    BY <2>2, <2>3, <2>4
<1> QED
  BY <1>7

\* A serial above those in the Swarm is no node's.
LEMMA AboveAll ==
  ASSUME TypeOK, NEW s \in Serials, s = Max({0} \cup {drop[d].serial : d \in InSwarm}) + 1
  PROVE  Nodes(s) = {}
<1>1. /\ Max({0} \cup {drop[d].serial : d \in InSwarm}) \in 0 .. MaxSerial
      /\ \A n \in {0} \cup {drop[d].serial : d \in InSwarm} :
           n <= Max({0} \cup {drop[d].serial : d \in InSwarm})
  <2> DEFINE S == {0} \cup {drop[d].serial : d \in InSwarm}
  <2>1. S \subseteq 0 .. MaxSerial /\ 0 \in S
    BY DropFields, NodeProvisionAssumption DEF InSwarm
  <2>2. \E x \in S : \A y \in S : x >= y
    BY <2>1, Greatest, NodeProvisionAssumption
  <2> QED
    BY <2>1, <2>2 DEF Max
<1>2. PICK m \in 0 .. MaxSerial : m = Max({0} \cup {drop[d].serial : d \in InSwarm})
  BY <1>1
<1>3. \A d \in InSwarm : drop[d].serial \in Nat /\ drop[d].serial <= m
  BY <1>1, <1>2, DropFields DEF InSwarm
<1>4. m \in Nat /\ s = m + 1
  BY <1>2
<1> QED
  BY <1>3, <1>4 DEF Nodes

LEMMA NumberHold ==
  ASSUME TypeOK, TypeOK', BornInv, NameInv, HoldInv, NEW c \in Creators, Number(c)
  PROVE  HoldInv'
<1>0. UNCHANGED cluster /\ UNCHANGED mixed /\ At(c, "number") /\ faults <= faults'
  BY FaultsGrow DEF Number
<1>1. CASE Numbers(c, 1) /\ Suspect(1)
  <2>1. 1 \in Serials /\ suspect \subseteq suspect' /\ 1 \in suspect'
    BY <1>1, NodeProvisionAssumption DEF Serials, Suspect
  <2> QED
    BY <1>0, <1>1, <2>1, NumbersHold
<1>2. ASSUME NEW s \in Serials, s = Max({0} \cup {drop[d].serial : d \in InSwarm}) + 1,
             Numbers(c, s), suspect \subseteq suspect'
      PROVE  HoldInv'
  <2>1. Nodes(s) = {}
    BY <1>2, AboveAll
  <2> QED
    BY <1>0, <1>2, <2>1, NumbersHold
<1> QED
  BY <1>1, <1>2 DEF Number, Suspect

LEMMA GivenHold ==
  ASSUME TypeOK, TypeOK', BornInv, NameInv, HoldInv, NEW c \in Creators, NEW s \in Serials,
         Given(c, s)
  PROVE  HoldInv'
<1>1. /\ UNCHANGED cluster /\ UNCHANGED <<mixed>> /\ suspect \subseteq suspect'
      /\ At(c, "number") /\ Numbers(c, s)
      /\ Nodes(s) = {} \/ s \in suspect'
  BY DEF Given, Suspect
<1>2. faults <= faults'
  BY NodeProvisionAssumption DEF Given, TypeOK
<1> QED
  BY <1>1, <1>2, NumbersHold

\* A droplet reused is the only one of its name.
LEMMA LookHold ==
  ASSUME TypeOK, TypeOK', BornInv, NameInv, HoldInv, NEW c \in Creators, Look(c)
  PROVE  HoldInv'
<1>0. /\ UNCHANGED cluster /\ faults <= faults' /\ cr[c].pc = "look"
      /\ mixed \subseteq mixed' /\ suspect \subseteq suspect'
  BY FaultsGrow DEF Look, At, Suspect
<1>1. /\ Up' = Up /\ InSwarm' = InSwarm /\ drop' = drop
      /\ \A d \in Droplets : Born(d)' = Born(d)
  BY <1>0 DEF cluster, Up, InSwarm, Born
<1>2. cr[c].own = NoDroplet /\ cr[c].kind \notin Bare
  BY <1>0 DEF HoldInv, KindInv, Early
<1>3. OneEachInv'
  BY <1>0, <1>1 DEF HoldInv, OneEachInv
<1>4. ASSUME \A o \in Creators : /\ cr'[o].obj = cr[o].obj /\ cr'[o].tries = cr[o].tries
                                 /\ cr'[o].serial = cr[o].serial
      PROVE  ObjInv'
  <2>1. \A o \in Creators : cr[o].tries <= faults /\ cr[o].tries \in Nat
    BY CrFields, NodeProvisionAssumption DEF HoldInv, ObjInv
  <2>2. faults \in Nat /\ faults' \in Nat
    BY NodeProvisionAssumption DEF TypeOK
  <2>3. \A o \in Creators : cr'[o].tries <= faults'
    BY <1>0, <1>4, <2>1, <2>2
  <2> QED
    BY <1>1, <1>4, <2>3 DEF HoldInv, ObjInv
<1>5. ASSUME NEW d \in Named(cr[c].serial),
             cr' = [cr EXCEPT ![c].pc = "await", ![c].own = d],
             mixed' = IF drop[d].size # cr[c].tier THEN mixed \cup {d} ELSE mixed
      PROVE  HoldInv'
  <2>1. /\ \A o \in Creators \ {c} : cr'[o] = cr[o]
        /\ cr'[c].pc = "await" /\ cr'[c].own = d /\ cr'[c].serial = cr[c].serial
        /\ cr'[c].kind = cr[c].kind /\ cr'[c].tier = cr[c].tier
        /\ cr'[c].obj = cr[c].obj /\ cr'[c].tries = cr[c].tries
    BY <1>5, CrFields DEF TypeOK, CrRec
  <2>2. d \in Up /\ d \in Droplets /\ Born(d) /\ drop[d].serial = cr[c].serial /\ d # NoDroplet
    BY <1>5 DEF Named, Up, Born, Droplets, NoDroplet
  <2>3. KindInv'
    BY <1>2, <2>1, <2>2 DEF HoldInv, KindInv, Early, Bare
  <2>4. OwnInv'
    <3>1. drop[d].size = cr[c].tier \/ d \in mixed'
      BY <1>5
    <3>2. \A o \in Creators \ {c} : cr[o].own # NoDroplet => cr[o].own \in Droplets
      BY DEF HoldInv, OwnInv
    <3> QED
      BY <1>0, <1>1, <2>1, <2>2, <3>1, <3>2 DEF HoldInv, OwnInv
  <2>5. MineInv'
    <3> SUFFICES ASSUME NEW o \in Creators, NEW e \in Up \cup InSwarm,
                        drop[e].serial = cr'[o].serial
                 PROVE  \/ e = cr'[o].own \/ cr'[o].serial \in suspect'
                        \/ cr'[o].own = NoDroplet /\ e \notin InSwarm
      BY <1>1 DEF MineInv
    <3>1. CASE o = c
      <4>1. e # d => drop[d].serial \in suspect
        BY <3>1, <2>1, <2>2 DEF HoldInv, OneEachInv
      <4> QED
        BY <1>0, <3>1, <4>1, <2>1, <2>2
    <3>2. CASE o # c
      BY <1>0, <2>1, <3>2 DEF HoldInv, MineInv
    <3> QED
      BY <3>1, <3>2
  <2>6. ObjInv'
    BY <1>4, <2>1
  <2> QED
    BY <1>3, <2>3, <2>4, <2>5, <2>6 DEF HoldInv
<1>6. CASE Go(c, "create")
  <2>1. /\ \A o \in Creators \ {c} : cr'[o] = cr[o]
        /\ cr'[c].pc = "create" /\ cr'[c].own = cr[c].own /\ cr'[c].serial = cr[c].serial
        /\ cr'[c].kind = cr[c].kind /\ cr'[c].tier = cr[c].tier
        /\ cr'[c].obj = cr[c].obj /\ cr'[c].tries = cr[c].tries
    BY <1>6, CrFields DEF Go, TypeOK, CrRec
  <2>2. KindInv' /\ OwnInv'
    BY <1>0, <1>1, <1>2, <2>1 DEF HoldInv, KindInv, OwnInv, Early
  <2>3. MineInv'
    BY <1>0, <1>1, <2>1 DEF HoldInv, MineInv
  <2>4. ObjInv'
    BY <1>4, <2>1
  <2> QED
    BY <1>3, <2>2, <2>3, <2>4 DEF HoldInv
<1> QED
  BY <1>5, <1>6 DEF Look

\* The expansion of c is at an end.
LEMMA FinishRests ==
  ASSUME TypeOK, NEW c \in Creators, Finish(c)
  PROVE  /\ \A o \in Creators : Follows(o)
         /\ cr'[c] = Idle /\ \A o \in Creators \ {c} : cr'[o] = cr[o]
BY DEF TypeOK, Finish, Follows, Rests, Idle, NoDroplet

LEMMA RaiseHold ==
  ASSUME TypeOK, TypeOK', BornInv, HoldInv, NEW c \in Creators, Raise(c)
  PROVE  HoldInv'
<1>1. Finish(c)
  BY DEF Raise, Drop
<1>2. Shrinks
  BY NodeProvisionAssumption DEF Raise, Shrinks, NoneJoins, Born, TypeOK, NoFault
<1> QED
  BY <1>1, <1>2, FinishRests, FollowsHold

LEMMA CreateHold ==
  ASSUME TypeOK, TypeOK', BornInv, NameInv, HoldInv, NEW c \in Creators, Create(c)
  PROVE  HoldInv'
<1>1. CASE Raise(c)
  BY <1>1, RaiseHold
<1>2. ASSUME NEW d \in Droplets, NEW fit \in BOOLEAN, NewDroplet(c, d, fit), At(c, "create"),
             cr' = [cr EXCEPT ![c].pc = "await", ![c].own = d] \/ Finish(c),
             UNCHANGED <<node, suspect, faults>>, mixed \subseteq mixed'
      PROVE  HoldInv'
  <2> DEFINE s == cr[c].serial
  <2>1. /\ \A e \in Droplets \ {d} : drop'[e] = drop[e]
        /\ drop'[d].serial = s /\ drop'[d].size = cr[c].tier /\ drop'[d].st = "up"
        /\ drop[d].st = "unborn" /\ d # NoDroplet
    BY <1>2 DEF NewDroplet, TypeOK, Droplets, NoDroplet
  <2>2. InSwarm' = InSwarm /\ Up' = Up \cup {d} /\ d \notin Up \cup InSwarm
    BY <1>2, <2>1 DEF InSwarm, Up, BornInv, Born
  <2>3. s # 0 /\ cr[c].own = NoDroplet /\ cr[c].kind \notin Bare
    BY <1>2 DEF NameInv, SerialInv, HoldInv, KindInv, At, Early
  <2>4. \A e \in Up \cup InSwarm : e \in Droplets \ {d} /\ drop'[e] = drop[e]
    BY <2>1, <2>2 DEF Up, InSwarm
  <2>5. \A e \in Up \cup InSwarm : drop[e].serial = s => s \in suspect
    <3>1. Named(s) = {} \/ s \in suspect
      BY <1>2 DEF NameInv, FreshInv
    <3>2. \A e \in InSwarm : drop[e].serial = s => s \in suspect
      BY <2>3 DEF HoldInv, MineInv, InSwarm, Droplets, NoDroplet
    <3> QED
      BY <3>1, <3>2 DEF Named
  <2>6. \A o \in Creators \ {c} : cr'[o] = cr[o] /\ (cr[o].serial = s => s \in suspect)
    BY <1>2, <2>3 DEF TypeOK, Finish, NameInv, DistinctInv
  <2>7. /\ cr'[c].kind = cr[c].kind /\ cr'[c].tier = cr[c].tier /\ cr'[c].serial = s
        /\ cr'[c].pc = "await" /\ cr'[c].own = d
        /\ cr'[c].obj = cr[c].obj /\ cr'[c].tries = cr[c].tries
        \/ cr'[c] = Idle
    BY <1>2, CrFields, FinishRests DEF TypeOK, CrRec
  <2>8. KindInv'
    BY <2>1, <2>3, <2>6, <2>7 DEF HoldInv, KindInv, Idle, Early, Bare, NoDroplet
  <2>9. OwnInv'
    <3>1. ASSUME NEW o \in Creators \ {c}, cr[o].own # NoDroplet
          PROVE  cr[o].own # d
      BY <2>1, <3>1 DEF HoldInv, OwnInv, Born
    <3>2. \A o \in Creators \ {c} : cr[o].own # NoDroplet =>
            /\ cr[o].own \in Droplets /\ drop'[cr[o].own] = drop[cr[o].own]
      BY <2>1, <3>1 DEF HoldInv, OwnInv
    <3>3. ASSUME NEW o \in Creators \ {c}, cr'[o].own # NoDroplet
          PROVE  /\ cr'[o].own \in Droplets /\ drop'[cr'[o].own].st # "unborn"
                 /\ drop'[cr'[o].own].serial = cr'[o].serial
                 /\ drop'[cr'[o].own].size = cr'[o].tier \/ cr'[o].own \in mixed'
                 /\ \/ cr'[o].pc = "await" \/ cr'[o].ip = cr'[o].own
                    \/ cr'[o].serial \in suspect'
      BY <1>2, <2>6, <3>2, <3>3 DEF HoldInv, OwnInv, Born
    <3>4. ASSUME cr'[c].own # NoDroplet
          PROVE  /\ cr'[c].own = d /\ cr'[c].serial = s /\ cr'[c].tier = cr[c].tier
                 /\ cr'[c].pc = "await"
      BY <2>7, <3>4 DEF Idle
    <3> QED
      BY <2>1, <3>3, <3>4 DEF OwnInv, Born
  <2>10. MineInv'
    <3> SUFFICES ASSUME NEW o \in Creators, NEW e \in Up \cup {d} \cup InSwarm,
                        drop'[e].serial = cr'[o].serial
                 PROVE  \/ e = cr'[o].own \/ cr'[o].serial \in suspect'
                        \/ cr'[o].own = NoDroplet /\ e \notin InSwarm
      BY <2>2 DEF MineInv
    <3>1. CASE o = c /\ cr'[c] = Idle
      <4>1. drop'[e].serial # 0
        BY <2>1, <2>3, <2>4 DEF BornInv, Serials, Up, InSwarm, Born
      <4> QED
        BY <3>1, <4>1 DEF Idle
    <3>2. CASE o = c /\ cr'[c].serial = s /\ cr'[c].own = d
      BY <1>2, <2>4, <2>5, <3>2
    <3>3. CASE o # c /\ e = d
      BY <1>2, <2>1, <2>6, <3>3
    <3>4. CASE o # c /\ e # d
      BY <1>2, <2>4, <2>6, <3>4 DEF HoldInv, MineInv
    <3> QED
      BY <2>7, <3>1, <3>2, <3>3, <3>4
  <2>11. OneEachInv'
    <3>1. \A e \in Up \cup InSwarm : drop'[e].serial = s => s \in suspect
      BY <2>4, <2>5
    <3>2. \A e, f \in Up \cup InSwarm :
            e # f /\ drop'[e].serial = drop'[f].serial => drop'[e].serial \in suspect
      BY <2>4 DEF HoldInv, OneEachInv
    <3> QED
      BY <1>2, <2>1, <2>2, <3>1, <3>2 DEF OneEachInv
  <2>12. ObjInv'
    <3>1. \A o \in Creators : cr'[o].obj # NoDroplet =>
            cr'[o].obj = cr[o].obj /\ cr'[o].serial = cr[o].serial
      BY <2>6, <2>7 DEF Idle
    <3>2. \A o \in Creators : cr[o].obj # NoDroplet =>
            /\ cr[o].obj \in Droplets /\ cr[o].obj # d /\ Born(cr[o].obj)
            /\ drop[cr[o].obj].serial = cr[o].serial
      BY <2>1 DEF HoldInv, ObjInv, Born
    <3>3. \A o \in Creators : cr'[o].tries <= faults'
      <4>1. faults \in Nat
        BY NodeProvisionAssumption DEF TypeOK
      <4> QED
        BY <1>2, <2>6, <2>7, <4>1 DEF HoldInv, ObjInv, Idle
    <3> QED
      BY <2>1, <3>1, <3>2, <3>3 DEF ObjInv, Born
  <2> QED
    BY <2>8, <2>9, <2>10, <2>11, <2>12 DEF HoldInv
<1> QED
  BY <1>1, <1>2 DEF Create, NoFault, Mixes

LEMMA TriesHold ==
  ASSUME TypeOK, TypeOK', HoldInv, faults <= faults'
  PROVE  \A c \in Creators : cr[c].tries <= faults'
<1>1. \A c \in Creators : cr[c].tries <= faults /\ cr[c].tries \in Nat
  BY CrFields, NodeProvisionAssumption DEF HoldInv, ObjInv
<1>2. faults \in Nat /\ faults' \in Nat
  BY NodeProvisionAssumption DEF TypeOK
<1> QED
  BY <1>1, <1>2

LEMMA GoFollows ==
  ASSUME TypeOK, TypeOK', HoldInv, faults <= faults', suspect \subseteq suspect',
         NEW c \in Creators, NEW pc, Go(c, pc),
         cr[c].pc \notin Early \cup {"await"}, pc \notin Early \cup {"await"},
         cr[c].kind # "join",
         cr[c].kind = "configure" => pc \notin {"join", "label"}
  PROVE  \A o \in Creators : Follows(o)
<1>1. /\ \A o \in Creators \ {c} : cr'[o] = cr[o]
      /\ cr'[c].pc = pc /\ cr'[c].own = cr[c].own /\ cr'[c].serial = cr[c].serial
      /\ cr'[c].kind = cr[c].kind /\ cr'[c].tier = cr[c].tier /\ cr'[c].ip = cr[c].ip
      /\ cr'[c].obj = cr[c].obj /\ cr'[c].tries = cr[c].tries
  BY CrFields DEF Go, TypeOK, CrRec
<1>2. cr[c].own # NoDroplet => cr[c].ip = cr[c].own \/ cr[c].serial \in suspect'
  BY DEF HoldInv, OwnInv
<1>3. Advances(c)
  BY <1>1, <1>2, TriesHold DEF Advances
<1> QED
  BY <1>1, <1>3 DEF Follows

LEMMA AwaitHold ==
  ASSUME TypeOK, TypeOK', BornInv, HoldInv, NEW c \in Creators, Await(c)
  PROVE  HoldInv'
<1>1. CASE Raise(c)
  BY <1>1, RaiseHold
<1>2. CASE /\ cr' = [cr EXCEPT ![c].pc = AfterAwait(c), ![c].ip = cr[c].own]
           /\ UNCHANGED <<cluster, history>> /\ NoFault
  <2>1. cr[c].pc = "await" /\ cr[c].kind \notin Bare
    BY DEF Await, At, HoldInv, KindInv, Bare, Early
  <2>2. /\ \A o \in Creators \ {c} : cr'[o] = cr[o]
        /\ cr'[c].pc \in {"member", "configure"} /\ cr'[c].own = cr[c].own
        /\ cr'[c].serial = cr[c].serial
        /\ cr'[c].kind = cr[c].kind /\ cr'[c].tier = cr[c].tier /\ cr'[c].ip = cr[c].own
        /\ cr'[c].obj = cr[c].obj /\ cr'[c].tries = cr[c].tries
    BY <1>2, CrFields DEF TypeOK, CrRec, AfterAwait
  <2>3. faults <= faults'
    BY <1>2, FaultsGrow
  <2>4. Advances(c)
    BY <2>1, <2>2, <2>3, TriesHold DEF Advances, Early, Bare
  <2>5. Shrinks
    BY <1>2, <2>3 DEF Shrinks, cluster, history, NoneJoins, Born
  <2> QED
    BY <2>2, <2>4, <2>5, FollowsHold DEF Follows
<1> QED
  BY <1>1, <1>2 DEF Await

\* What is found by name is the expansion's own.
LEMMA FoundOwn ==
  ASSUME HoldInv, NEW c \in Creators, NEW d \in Up \cup InSwarm,
         drop[d].serial = cr[c].serial,
         cr[c].own # NoDroplet \/ d \in InSwarm
  PROVE  d = cr[c].own \/ cr[c].serial \in suspect
BY DEF HoldInv, MineInv

LEMMA ConfigureHold ==
  ASSUME TypeOK, TypeOK', BornInv, HoldInv, NEW c \in Creators, Configure(c)
  PROVE  HoldInv'
<1>1. CASE Raise(c)
  BY <1>1, RaiseHold
<1>2. ASSUME NEW d \in Reached(cr[c].serial),
             cr' = [cr EXCEPT ![c].pc = AfterConfigure(c),
                              ![c].ip = IF cr[c].kind = "auto" THEN @ ELSE d],
             UNCHANGED <<cluster, history>>, NoFault
      PROVE  HoldInv'
  <2>1. cr[c].pc = "configure" /\ cr[c].kind # "join"
    BY DEF Configure, At, HoldInv, KindInv, Early
  <2>2. /\ \A o \in Creators \ {c} : cr'[o] = cr[o]
        /\ cr'[c].pc = AfterConfigure(c) /\ cr'[c].own = cr[c].own
        /\ cr'[c].serial = cr[c].serial
        /\ cr'[c].kind = cr[c].kind /\ cr'[c].tier = cr[c].tier
        /\ cr'[c].ip = cr[c].ip \/ cr'[c].ip = d
        /\ cr'[c].obj = cr[c].obj /\ cr'[c].tries = cr[c].tries
    BY <1>2, CrFields DEF TypeOK, CrRec
  <2>3. faults <= faults' /\ suspect' = suspect
    BY <1>2, FaultsGrow DEF history
  <2>4. cr[c].own # NoDroplet => cr'[c].ip = cr[c].own \/ cr[c].serial \in suspect
    <3>1. d \in Up /\ drop[d].serial = cr[c].serial
      BY DEF Reached, Named
    <3> QED
      BY <2>1, <2>2, <3>1, FoundOwn DEF HoldInv, OwnInv
  <2>5. Advances(c)
    BY <2>1, <2>2, <2>3, <2>4, TriesHold DEF Advances, Early, AfterConfigure
  <2>6. Shrinks
    BY <1>2, <2>3 DEF Shrinks, cluster, history, NoneJoins, Born
  <2> QED
    BY <2>2, <2>5, <2>6, FollowsHold DEF Follows
<1> QED
  BY <1>1, <1>2 DEF Configure

\* A join: where the expansion goes on, and that the node is its own.
LEMMA JoinHold ==
  ASSUME TypeOK, TypeOK', BornInv, NameInv, HoldInv, NEW c \in Creators, Join(c)
  PROVE  HoldInv'
<1>0. cr[c].pc = "join" /\ cr[c].kind # "configure"
  BY DEF Join, At, HoldInv, KindInv, Early
<1>1. CASE Raise(c)
  BY <1>1, RaiseHold
<1>2. ASSUME NEW d \in Reached(cr[c].serial), UNCHANGED <<drop, mixed, suspect>>,
             Fault \/ NoFault,
             \/ Past(c) \/ Drop(c)
             \/ IF cr[c].kind = "join" THEN Finish(c) ELSE Go(c, "label"),
             UNCHANGED node \/ node' = [node EXCEPT ![d] = [st |-> "active", label |-> "none"]]
      PROVE  HoldInv'
  <2>1. faults <= faults'
    BY <1>2, FaultsGrow
  <2>2. Finish(c) \/ (cr[c].kind # "join" /\ (Go(c, "label") \/ Go(c, AfterJoin(c))))
    BY <1>2 DEF Past, Drop
  <2>3. \A o \in Creators : Follows(o)
    <3>1. CASE Finish(c)
      BY <3>1, FinishRests
    <3>2. ASSUME NEW pc \in {"label", "drain", "member"}, Go(c, pc), cr[c].kind # "join"
          PROVE  \A o \in Creators : Follows(o)
      BY <1>0, <1>2, <2>1, <3>2, GoFollows DEF Early
    <3> QED
      BY <2>2, <3>1, <3>2 DEF AfterJoin
  <2>4. /\ \A o \in Creators \ {c} : cr'[o] = cr[o]
        /\ cr'[c] = Idle \/ (cr[c].kind # "join" /\ cr'[c].serial = cr[c].serial /\ cr'[c].own = cr[c].own)
    BY <2>2, FinishRests, CrFields DEF Go, TypeOK, CrRec
  <2>5. d \in Up /\ drop[d].serial = cr[c].serial /\ cr[c].serial # 0
    BY <1>0 DEF Reached, Named, NameInv, SerialInv
  <2>6. InSwarm' \subseteq InSwarm \cup {d}
    BY <1>2 DEF InSwarm, TypeOK
  <2>7. \A o \in Creators : drop[d].serial = cr'[o].serial =>
          d = cr'[o].own \/ cr'[o].serial \in suspect'
    <3>1. ASSUME NEW o \in Creators \ {c}, cr[o].serial = cr[c].serial
          PROVE  cr[o].serial \in suspect
      BY <2>5, <3>1 DEF NameInv, DistinctInv
    <3>2. CASE cr'[c] = Idle
      BY <1>2, <2>4, <2>5, <3>1, <3>2 DEF Idle
    <3>3. CASE cr[c].kind # "join" /\ cr'[c].serial = cr[c].serial /\ cr'[c].own = cr[c].own
      <4>1. cr[c].own # NoDroplet
        BY <1>0, <3>3 DEF HoldInv, KindInv, Early, Bare
      <4> QED
        BY <1>2, <2>4, <2>5, <3>1, <3>3, <4>1, FoundOwn
    <3> QED
      BY <2>4, <3>2, <3>3
  <2>8. Arrivals
    BY <2>5, <2>6, <2>7 DEF Arrivals
  <2>9. Shrinks
    BY <1>2, <2>1, <2>8 DEF Shrinks, Born
  <2> QED
    BY <2>3, <2>9, FollowsHold
<1> QED
  BY <1>1, <1>2 DEF Join

\* The steps that only mark nodes.
LEMMA MarksShrink ==
  ASSUME TypeOK, NEW c \in Creators,
         Label(c) \/ Member(c) \/ Drain(c) \/ Verify(c) \/ Redrain(c) \/ Activate(c) \/ Dies(c)
  PROVE  Shrinks
<1>1. UNCHANGED <<drop, mixed>> /\ suspect \subseteq suspect'
  BY DEF Label, Member, Drain, Verify, Redrain, Activate, Dies, Raise, cluster, history, Suspect
<1>2. NoneJoins
  <2>1. CASE UNCHANGED node
    BY <2>1 DEF NoneJoins
  <2>2. ASSUME NEW d \in InSwarm,
               \/ \E x : node' = [node EXCEPT ![d].label = x]
               \/ \E st \in {"active", "drain"} : node' = [node EXCEPT ![d].st = st]
        PROVE  NoneJoins
    BY <2>2, NodeChange
  <2> QED
    BY <2>1, <2>2
       DEF Label, Member, Drain, Verify, Redrain, Activate, Dies, Raise, cluster, Nodes, Target
<1>3. Fault \/ NoFault
  BY DEF Label, Member, Drain, Verify, Redrain, Activate, Dies, Raise
<1> QED
  BY <1>1, <1>2, <1>3, FaultsGrow DEF Shrinks, Born

LEMMA GoesHold ==
  ASSUME TypeOK, TypeOK', BornInv, HoldInv, NEW c \in Creators,
         Label(c) \/ Member(c) \/ Verify(c) \/ Redrain(c) \/ Dies(c)
  PROVE  HoldInv'
<1>1. Shrinks
  BY MarksShrink
<1>2. ASSUME NEW pc \in {"member", "drain", "verify", "redrain", "activate"}, Go(c, pc),
             cr[c].pc \in {"label", "member", "verify"}
      PROVE  \A o \in Creators : Follows(o)
  <2>1. cr[c].kind # "join"
    BY <1>2 DEF HoldInv, KindInv, Early
  <2> QED
    BY <1>1, <1>2, <2>1, GoFollows DEF Shrinks, Early
<1>3. CASE Finish(c)
  BY <1>1, <1>3, FinishRests, FollowsHold
<1>4. CASE Label(c) \/ Member(c) \/ Verify(c)
  <2>1. \/ Finish(c)
        \/ /\ cr[c].pc \in {"label", "member", "verify"}
           /\ \E pc \in {"member", "drain", "verify", "redrain", "activate"} : Go(c, pc)
    BY <1>4 DEF Label, Member, Verify, Raise, Drop, AfterJoin, At
  <2> QED
    BY <1>1, <1>2, <1>3, <2>1, FollowsHold
<1> QED
  BY <1>3, <1>4 DEF Redrain, Dies, Drop

\* A node is found by the expansion's name.
LEMMA FoundAdvances ==
  ASSUME TypeOK, TypeOK', BornInv, HoldInv, NEW c \in Creators, NEW d \in InSwarm,
         drop[d].serial = cr[c].serial, faults <= faults', suspect \subseteq suspect',
         cr[c].pc \in {"drain", "activate"},
         cr'[c].pc \in {"verify", "activate"}, cr'[c].own = cr[c].own,
         cr'[c].serial = cr[c].serial, cr'[c].kind = cr[c].kind, cr'[c].tier = cr[c].tier,
         cr'[c].ip = cr[c].ip, cr'[c].obj = d, cr'[c].tries <= faults'
  PROVE  Advances(c)
<1>1. cr[c].kind # "join"
  BY DEF HoldInv, KindInv, Early
<1>2. cr[c].own # NoDroplet => cr[c].ip = cr[c].own \/ cr[c].serial \in suspect'
  BY DEF HoldInv, OwnInv
<1>3. d \in Droplets /\ Born(d)
  BY DEF BornInv, InSwarm
<1> QED
  BY <1>1, <1>2, <1>3 DEF Advances, Early

LEMMA DrainHold ==
  ASSUME TypeOK, TypeOK', BornInv, HoldInv, NEW c \in Creators, Drain(c)
  PROVE  HoldInv'
<1>1. Shrinks /\ cr[c].pc = "drain"
  BY MarksShrink DEF Drain, At
<1>2. CASE Go(c, "verify")
  <2>1. cr[c].kind # "join"
    BY <1>1 DEF HoldInv, KindInv, Early
  <2> QED
    BY <1>1, <1>2, <2>1, GoFollows, FollowsHold DEF Shrinks, Early
<1>3. ASSUME NEW d \in Nodes(cr[c].serial),
             cr' = [cr EXCEPT ![c].pc = "verify", ![c].obj = d, ![c].was = node[d].st]
      PROVE  HoldInv'
  <2>1. /\ \A o \in Creators \ {c} : cr'[o] = cr[o]
        /\ cr'[c].pc = "verify" /\ cr'[c].own = cr[c].own /\ cr'[c].serial = cr[c].serial
        /\ cr'[c].kind = cr[c].kind /\ cr'[c].tier = cr[c].tier /\ cr'[c].ip = cr[c].ip
        /\ cr'[c].obj = d /\ cr'[c].tries = cr[c].tries
    BY <1>3, CrFields DEF TypeOK, CrRec
  <2>2. d \in InSwarm /\ drop[d].serial = cr[c].serial
    BY DEF Nodes
  <2>3. faults <= faults' /\ suspect \subseteq suspect'
    BY <1>1 DEF Shrinks
  <2>4. cr'[c].tries <= faults'
    BY <2>1, <2>3, TriesHold
  <2>5. Advances(c)
    BY <1>1, <2>1, <2>2, <2>3, <2>4, FoundAdvances
  <2> QED
    BY <1>1, <2>1, <2>5, FollowsHold DEF Follows
<1> QED
  BY <1>2, <1>3 DEF Drain

LEMMA TargetNamed ==
  ASSUME HoldInv, NEW c \in Creators, NEW d \in Target(c) \cap InSwarm
  PROVE  drop[d].serial = cr[c].serial
BY DEF Target, Nodes, HoldInv, ObjInv

LEMMA ActivateHold ==
  ASSUME TypeOK, TypeOK', BornInv, HoldInv, NEW c \in Creators, Activate(c)
  PROVE  HoldInv'
<1>1. Shrinks /\ cr[c].pc = "activate"
  BY MarksShrink DEF Activate, At
<1>2. CASE Finish(c)
  BY <1>1, <1>2, FinishRests, FollowsHold
<1>3. ASSUME NEW d \in Target(c) \cap InSwarm, Fault,
             cr' = [cr EXCEPT ![c].tries = @ + 1, ![c].obj = d, ![c].was = node[d].st]
      PROVE  HoldInv'
  <2>1. /\ \A o \in Creators \ {c} : cr'[o] = cr[o]
        /\ cr'[c].pc = "activate" /\ cr'[c].own = cr[c].own /\ cr'[c].serial = cr[c].serial
        /\ cr'[c].kind = cr[c].kind /\ cr'[c].tier = cr[c].tier /\ cr'[c].ip = cr[c].ip
        /\ cr'[c].obj = d /\ cr'[c].tries = cr[c].tries + 1
    BY <1>1, <1>3, CrFields DEF TypeOK, CrRec
  <2>2. d \in InSwarm /\ drop[d].serial = cr[c].serial
    BY TargetNamed
  <2>3. faults <= faults' /\ suspect \subseteq suspect'
    BY <1>1 DEF Shrinks
  <2>4. cr'[c].tries <= faults'
    <3>1. cr[c].tries \in Nat /\ cr[c].tries <= faults /\ faults \in Nat /\ faults' = faults + 1
      BY <1>3, CrFields, NodeProvisionAssumption DEF HoldInv, ObjInv, TypeOK, Fault
    <3> QED
      BY <2>1, <3>1
  <2>5. Advances(c)
    BY <1>1, <2>1, <2>2, <2>3, <2>4, FoundAdvances
  <2> QED
    BY <1>1, <2>1, <2>5, FollowsHold DEF Follows
<1> QED
  BY <1>2, <1>3 DEF Activate

\* What the other commands do to the cluster.
LEMMA OthersShrink ==
  ASSUME TypeOK, RmInv, PurgeInv,
         \/ Removal \/ PurgeNodes \/ Purge \/ Backfill \/ \E d \in Droplets : Removing(d)
  PROVE  Shrinks /\ UNCHANGED cr
<1>1. UNCHANGED <<cr, mixed>> /\ suspect \subseteq suspect'
  BY DEF Removal, Leave, Destroy, PurgeNodes, Purge, PurgeDroplets, PurgeDroplet, PurgeNode,
     PurgeEnds, Removing, Backfill, BackfillDroplets,
     BackfillNodes, BackfillLabel, BackfillEnds, history
<1>2. faults <= faults'
  <2>1. UNCHANGED faults \/ Fault \/ NoFault
    BY DEF Removal, Leave, Destroy, PurgeNodes, Purge, PurgeDroplets, PurgeDroplet, PurgeNode,
       PurgeEnds, Removing, Backfill, BackfillDroplets,
       BackfillNodes, BackfillLabel, BackfillEnds
  <2> QED
    BY <2>1, FaultsGrow, NodeProvisionAssumption DEF TypeOK
<1>3. NoneJoins
  <2>1. \/ UNCHANGED node
        \/ \E d \in InSwarm : \E x : node' = [node EXCEPT ![d].label = x]
        \/ \E d \in Droplets : node' = [node EXCEPT ![d] = Out]
    BY DEF Removal, Leave, Destroy, PurgeNodes, Purge, PurgeDroplets, PurgeDroplet, PurgeNode,
       PurgeEnds, Removing, Backfill, BackfillDroplets,
       BackfillNodes, BackfillLabel, BackfillEnds, cluster, Nodes, InSwarm
  <2>2. CASE UNCHANGED node
    BY <2>2 DEF NoneJoins
  <2>3. CASE \E d \in InSwarm : \E x : node' = [node EXCEPT ![d].label = x]
    BY <2>3, NodeChange
  <2>4. CASE \E d \in Droplets : node' = [node EXCEPT ![d] = Out]
    BY <2>4 DEF NoneJoins, Out, TypeOK
  <2> QED
    BY <2>1, <2>2, <2>3, <2>4
<1>4. UNCHANGED drop \/ \E e \in Droplets : Born(e) /\ drop' = [drop EXCEPT ![e].st = "gone"]
  BY DEF Removal, Leave, Destroy, PurgeNodes, Purge, PurgeDroplets, PurgeDroplet, PurgeNode,
     PurgeEnds, Removing, Backfill, BackfillDroplets,
     BackfillNodes, BackfillLabel, BackfillEnds, cluster, RmInv, PurgeInv, PlannedInv
<1>5. \A d \in Droplets : \/ drop'[d] = drop[d]
                         \/ /\ Born(d) /\ drop'[d].st = "gone"
                            /\ drop'[d].serial = drop[d].serial /\ drop'[d].size = drop[d].size
  BY <1>4, DropFields DEF TypeOK, DropRec
<1> QED
  BY <1>1, <1>2, <1>3, <1>5 DEF Shrinks, Born

LEMMA NextHold ==
  TypeOK /\ NameInv /\ RmInv /\ PurgeInv /\ HoldInv /\ [Next]_vars => HoldInv'
<1> SUFFICES ASSUME TypeOK, NameInv, RmInv, PurgeInv, HoldInv, [Next]_vars PROVE HoldInv'
  OBVIOUS
<1>0. TypeOK' /\ BornInv
  BY NextType DEF PurgeInv
<1>1. CASE UNCHANGED vars
  <2>1. UNCHANGED <<drop, node, cr, mixed, suspect, faults>>
    BY <1>1 DEF vars, history
  <2>2. Shrinks
    BY <2>1, NodeProvisionAssumption DEF Shrinks, NoneJoins, Born, TypeOK
  <2> QED
    BY <1>0, <2>1, <2>2, FollowsHold DEF Follows
<1>2. CASE \/ Removal \/ PurgeNodes \/ Purge
           \/ Backfill \/ \E d \in Droplets : Removing(d)
  BY <1>0, <1>2, OthersShrink, FollowsHold DEF Follows
<1>3. CASE Next
  BY <1>0, <1>2, <1>3, StartHold, StartNamedHold, NumberHold, GivenHold, LookHold, CreateHold,
     AwaitHold, ConfigureHold, JoinHold, GoesHold, DrainHold, ActivateHold DEF Next, Expand
<1> QED
  BY <1>1, <1>3

-----------------------------------------------------------------------------
(* What no step changes, and what a step of an expansion may change of it. *)

LEMMA Fixed ==
  ASSUME TypeOK, [Next]_vars
  PROVE  /\ \A d \in Droplets : Born(d) => drop'[d].st # "unborn" /\ drop'[d].serial = drop[d].serial
         /\ \A d \in Droplets : Born(d) => drop'[d].size = drop[d].size
         /\ \A d \in Droplets : Born(d) /\ drop'[d].st = "up" => drop[d].st = "up"
         /\ mixed \subseteq mixed' /\ suspect \subseteq suspect' /\ verified \subseteq verified'
         /\ known \subseteq known'
<1>1. CASE UNCHANGED vars
  BY <1>1 DEF vars, history, Born
<1>2. CASE Next
  <2>1. ASSUME NEW c \in Creators,
               \/ \E k \in Kinds, t \in Tiers : Start(c, k, t)
               \/ \E k \in Kinds, s \in Serials : StartNamed(c, k, s)
               \/ \E s \in Serials : Given(c, s)
               \/ Expand(c) \/ Dies(c)
        PROVE  /\ mixed \subseteq mixed' /\ suspect \subseteq suspect' /\ verified \subseteq verified'
               /\ known \subseteq known'
               /\ UNCHANGED drop \/ \E e \in Droplets, fit \in BOOLEAN : NewDroplet(c, e, fit)
    BY <2>1 DEF Start, StartNamed, Given, Expand, Number, Look, Create, Await, Configure, Join,
       Label, Member, Drain, Verify, Redrain, Activate, Dies, Raise, Drop, cluster, history, Suspect,
       Mixes
  <2>2. CASE \/ Removal \/ PurgeNodes \/ Purge
             \/ Backfill \/ \E d \in Droplets : Removing(d)
    <3>1. /\ mixed \subseteq mixed' /\ suspect \subseteq suspect' /\ verified \subseteq verified'
          /\ known \subseteq known'
      BY <2>2 DEF Removal, Leave, Destroy, PurgeNodes, Purge, PurgeDroplets, PurgeDroplet,
         PurgeNode, PurgeEnds, Removing, Backfill, BackfillDroplets,
         BackfillNodes, BackfillLabel, BackfillEnds, history
    <3>2. UNCHANGED drop \/ \E e : drop' = [drop EXCEPT ![e].st = "gone"]
      BY <2>2 DEF Removal, Leave, Destroy, PurgeNodes, Purge, PurgeDroplets, PurgeDroplet,
         PurgeNode, PurgeEnds, Removing, Backfill, BackfillDroplets,
         BackfillNodes, BackfillLabel, BackfillEnds, cluster
    <3> QED
      BY <3>1, <3>2, DropFields DEF TypeOK, DropRec, Born
  <2>3. ASSUME NEW c \in Creators, NEW e \in Droplets, NEW fit \in BOOLEAN, NewDroplet(c, e, fit)
        PROVE  \A d \in Droplets : Born(d) => drop'[d] = drop[d]
    BY <2>3 DEF NewDroplet, Born, TypeOK
  <2> QED
    BY <1>2, <2>1, <2>2, <2>3 DEF Next, Born
<1> QED
  BY <1>1, <1>2

Numbering(c) ==
  \/ \E k \in Kinds, t \in Tiers : Start(c, k, t)
  \/ \E k \in Kinds, s \in Serials : StartNamed(c, k, s)
  \/ \E s \in Serials : Given(c, s)
  \/ Number(c)

Working(c) ==
  \/ Look(c) \/ Create(c) \/ Await(c) \/ Configure(c) \/ Join(c)
  \/ Label(c) \/ Member(c) \/ Drain(c) \/ Verify(c) \/ Redrain(c) \/ Activate(c) \/ Dies(c)

Late == {"label", "drain", "verify", "redrain", "activate"}

\* An expansion moves and no other: it ends, or keeps its serial, and its droplet once it
\* has one.
Moved(c) ==
  /\ \A o \in Creators \ {c} : cr'[o] = cr[o]
  /\ \/ cr'[c] = Idle
     \/ /\ cr'[c].serial = cr[c].serial
        /\ cr'[c].own = cr[c].own \/ cr[c].pc \in {"look", "create"}
        /\ cr'[c].pc \in Late => cr[c].pc \in Late \cup {"join", "member"}
        /\ cr'[c].pc = "activate" =>
             cr[c].pc \in {"verify", "activate"} /\ cr'[c].ip = cr[c].ip
        /\ cr'[c].pc # "idle"

LEMMA WorkingMoves ==
  ASSUME TypeOK, NEW c \in Creators, Working(c)
  PROVE  Moved(c)
<1>0. /\ Drain(c) => cr[c].pc = "drain"
      /\ Activate(c) => cr[c].pc = "activate"
  BY DEF Drain, Activate, At
<1>1. CASE Finish(c)
  BY <1>1, FinishRests DEF Moved
<1>2. ASSUME NEW pc, Go(c, pc)
      PROVE  /\ \A o \in Creators \ {c} : cr'[o] = cr[o]
             /\ cr'[c].serial = cr[c].serial /\ cr'[c].own = cr[c].own /\ cr'[c].pc = pc
             /\ cr'[c].ip = cr[c].ip
  BY <1>2, CrFields DEF Go, TypeOK, CrRec
<1>3. CASE Go(c, "create") /\ Look(c)
  BY <1>2, <1>3 DEF Moved, Look, At, Late
<1>4. CASE Past(c) /\ Join(c)
  BY <1>1, <1>2, <1>4 DEF Moved, Past, Join, At, Late, AfterJoin
<1>5. CASE Go(c, "label") /\ Join(c)
  BY <1>2, <1>5 DEF Moved, Join, At, Late
<1>6. CASE Label(c) \/ (Member(c) /\ Go(c, "drain"))
  BY <1>2, <1>6 DEF Moved, Label, Member, At, Late, AfterJoin
<1>7. CASE Drain(c) /\ Go(c, "verify")
  BY <1>0, <1>2, <1>7 DEF Moved, Late
<1>8. CASE Verify(c)
  BY <1>2, <1>8 DEF Moved, Verify, At, Late
<1>9. ASSUME NEW d \in Droplets, cr' = [cr EXCEPT ![c].pc = "await", ![c].own = d],
             Look(c) \/ Create(c)
      PROVE  /\ \A o \in Creators \ {c} : cr'[o] = cr[o]
             /\ cr'[c].serial = cr[c].serial /\ cr'[c].pc = "await"
             /\ cr[c].pc \in {"look", "create"}
  BY <1>9, CrFields DEF TypeOK, CrRec, Look, Create, At
<1>10. CASE Await(c) /\ cr' = [cr EXCEPT ![c].pc = AfterAwait(c), ![c].ip = cr[c].own]
  BY <1>10, CrFields DEF TypeOK, Moved, CrRec, AfterAwait, Late
<1>11. CASE Configure(c) /\ \E x : cr' = [cr EXCEPT ![c].pc = AfterConfigure(c), ![c].ip = x]
  BY <1>11, CrFields DEF TypeOK, Moved, CrRec, AfterConfigure, Late
<1>12. CASE Drain(c) /\ \E x, y : cr' = [cr EXCEPT ![c].pc = "verify", ![c].obj = x, ![c].was = y]
  BY <1>0, <1>12, CrFields DEF Moved, TypeOK, CrRec, Late
<1>13. CASE Activate(c) /\ \E x, y : cr' = [cr EXCEPT ![c].tries = @ + 1, ![c].obj = x, ![c].was = y]
  BY <1>0, <1>13, CrFields DEF Moved, TypeOK, CrRec, Late
<1>14. CASE Look(c)
  BY <1>14, <1>3, <1>9 DEF Moved, Look, Late, Named, Up
<1>15. CASE Create(c)
  BY <1>15, <1>1, <1>9 DEF Moved, Create, Late, Raise, Drop
<1>16. CASE Await(c)
  BY <1>16, <1>1, <1>10 DEF Await, Raise, Drop
<1>17. CASE Configure(c)
  <2>1. CASE Raise(c)
    BY <2>1, <1>1 DEF Raise, Drop
  <2>2. ASSUME NEW d, cr' = [cr EXCEPT ![c].pc = AfterConfigure(c),
                                   ![c].ip = IF cr[c].kind = "auto" THEN @ ELSE d]
        PROVE  \E x : cr' = [cr EXCEPT ![c].pc = AfterConfigure(c), ![c].ip = x]
    <3>1. cr' = [cr EXCEPT ![c].pc = AfterConfigure(c),
                          ![c].ip = IF cr[c].kind = "auto" THEN cr[c].ip ELSE d]
      BY <2>2, CrFields DEF TypeOK, CrRec
    <3> QED
      BY <3>1
  <2> QED
    BY <1>17, <1>11, <2>1, <2>2 DEF Configure
<1>18. CASE Join(c)
  BY <1>18, <1>1, <1>4, <1>5 DEF Join, Raise, Drop
<1>19. CASE Drain(c)
  BY <1>19, <1>7, <1>12 DEF Drain
<1>20. CASE Activate(c)
  BY <1>20, <1>1, <1>13 DEF Activate
<1>21. CASE Member(c) \/ Redrain(c) \/ Dies(c)
  BY <1>21, <1>1, <1>6 DEF Member, Redrain, Dies, Raise, Drop
<1> QED
  BY <1>6, <1>8, <1>14, <1>15, <1>16, <1>17, <1>18, <1>19, <1>20, <1>21 DEF Working

\* The steps that are no expansion's.
Other ==
  \/ Removal \/ PurgeNodes \/ Purge \/ Backfill \/ \E d \in Droplets : Removing(d)

LEMMA NextParts ==
  ASSUME [Next]_vars
  PROVE  UNCHANGED vars \/ Other \/ \E c \in Creators : Numbering(c) \/ Working(c)
BY DEF Next, Expand, Other, Numbering, Working

LEMMA OtherKeeps == ASSUME Other PROVE UNCHANGED cr
BY DEF Other, Removal, Leave, Destroy, PurgeNodes, Purge, PurgeDroplets, PurgeDroplet, PurgeNode,
   PurgeEnds, Removing, Backfill, BackfillDroplets,
   BackfillNodes, BackfillLabel, BackfillEnds

LEMMA NumberingMoves ==
  ASSUME TypeOK, NEW c \in Creators, Numbering(c)
  PROVE  /\ \A o \in Creators \ {c} : cr'[o] = cr[o]
         /\ cr'[c].pc \in {"number", "look", "configure", "join"}
         /\ cr[c].pc \in {"idle", "number"}
         /\ UNCHANGED <<cluster, served, verified, known, rm, pg, mixed>>
         /\ \/ cr'[c].serial = 0
            \/ cr'[c].serial \in suspect'
            \/ Nodes(cr'[c].serial) = {} /\ cr'[c].serial \in Serials
<1>1. ASSUME NEW k \in Kinds, NEW t \in Tiers, Start(c, k, t)
      PROVE  /\ \A o \in Creators \ {c} : cr'[o] = cr[o]
             /\ cr'[c].pc = "number" /\ cr'[c].serial = 0 /\ cr[c].pc = "idle"
  BY <1>1 DEF Start, TypeOK, Idle, At
<1>2. ASSUME NEW k \in Kinds, NEW s \in Serials, StartNamed(c, k, s)
      PROVE  /\ \A o \in Creators \ {c} : cr'[o] = cr[o]
             /\ cr'[c].pc \in {"configure", "join"} /\ cr'[c].serial = s /\ cr[c].pc = "idle"
             /\ Nodes(s) = {} \/ s \in suspect'
  BY <1>2 DEF StartNamed, TypeOK, Idle, At, Suspect
<1>3. ASSUME NEW s \in Serials, Numbers(c, s), At(c, "number")
      PROVE  /\ \A o \in Creators \ {c} : cr'[o] = cr[o]
             /\ cr'[c].pc = "look" /\ cr'[c].serial = s /\ cr[c].pc = "number"
  BY <1>3, CrFields DEF Numbers, TypeOK, CrRec, At
<1>4. ASSUME NEW s \in Serials, Given(c, s)
      PROVE  Numbers(c, s) /\ At(c, "number") /\ (Nodes(s) = {} \/ s \in suspect')
  BY <1>4 DEF Given, Suspect
<1>5. ASSUME Number(c)
      PROVE  At(c, "number") /\ \E s \in Serials : Numbers(c, s) /\ (Nodes(s) = {} \/ s \in suspect')
  <2>1. CASE Numbers(c, 1) /\ Suspect(1)
    BY <1>5, <2>1, NodeProvisionAssumption DEF Number, Suspect, Serials
  <2>2. ASSUME NEW s \in Serials, s = Max({0} \cup {drop[d].serial : d \in InSwarm}) + 1
        PROVE  Nodes(s) = {}
    BY <2>2, AboveAll
  <2> QED
    BY <1>5, <2>1, <2>2 DEF Number
<1>6. UNCHANGED <<cluster, served, verified, known, rm, pg, mixed>>
  BY DEF Numbering, Start, StartNamed, Given, Number, history, Begun, Alone
<1> QED
  BY <1>1, <1>2, <1>3, <1>4, <1>5, <1>6 DEF Numbering

-----------------------------------------------------------------------------
(* Verification. *)

VerInv == \A c \in Creators : At(c, "activate") => cr[c].ip \in verified

LEMMA NextVer == TypeOK /\ VerInv /\ [Next]_vars => VerInv'
<1> SUFFICES ASSUME TypeOK, VerInv, [Next]_vars PROVE VerInv'
  OBVIOUS
<1>0. verified \subseteq verified'
  BY Fixed
<1>1. CASE UNCHANGED cr
  BY <1>0, <1>1 DEF VerInv, At
<1>2. ASSUME NEW c \in Creators, Numbering(c)
      PROVE  VerInv'
  BY <1>0, <1>2, NumberingMoves DEF VerInv, At
<1>3. ASSUME NEW c \in Creators, Working(c)
      PROVE  VerInv'
  <2>1. /\ \A o \in Creators \ {c} : cr'[o] = cr[o]
        /\ cr'[c].pc = "activate" => cr[c].pc \in {"verify", "activate"} /\ cr'[c].ip = cr[c].ip
    BY <1>3, WorkingMoves DEF Moved, Idle
  <2>2. cr'[c].pc = "activate" /\ cr[c].pc = "verify" => cr[c].ip \in verified'
    <3> SUFFICES ASSUME cr'[c].pc = "activate", cr[c].pc = "verify"
                 PROVE  cr[c].ip \in verified'
      OBVIOUS
    <3>1. Verify(c) \/ Dies(c)
      BY <1>3 DEF Working, Look, Create, Await, Configure, Join, Label, Member, Drain, Redrain,
         Activate, At
    <3>2. ~Finish(c)
      BY FinishRests DEF Idle
    <3>3. ~Go(c, "redrain")
      BY CrFields DEF Go, TypeOK, CrRec
    <3> QED
      BY <3>1, <3>2, <3>3 DEF Verify, Dies, Drop
  <2> QED
    BY <1>0, <2>1, <2>2 DEF VerInv, At
<1>4. CASE Other
  BY <1>1, <1>4, OtherKeeps
<1> QED
  BY <1>1, <1>2, <1>3, <1>4, NextParts DEF vars

\* _verify_node_provisioning is a hard gate: whatever is done to droplets and nodes of
\* the same names meanwhile, an expansion makes active no node whose droplet has
\* not passed, unless the name is suspect.
THEOREM VerifiedFirst == Spec => ActivatedIsVerified
<1> DEFINE Inv == TypeOK /\ NameInv /\ RmInv /\ PurgeInv /\ HoldInv /\ VerInv
<1>1. Init => Inv
  BY InitTypes, InitNames, InitPurge, InitHold DEF Init, RmInv, NoRm, VerInv, Idle, At
<1>2. Inv /\ [Next]_vars => Inv'
  BY NextType, NextNames, NextRm, NextPurge, NextHold, NextVer
<1>3. Inv /\ [Next]_vars =>
        [\A d \in Droplets : node[d].st = "drain" /\ node'[d].st = "active"
                           => d \in verified \/ drop[d].serial \in suspect]_vars
  <2> SUFFICES ASSUME Inv, [Next]_vars, NEW d \in Droplets,
                      node[d].st = "drain", node'[d].st = "active"
               PROVE  d \in verified \/ drop[d].serial \in suspect
    OBVIOUS
  <2>1. PICK c \in Creators : Activate(c) /\ d \in Target(c) \cap InSwarm
    <3>1. CASE UNCHANGED node
      BY <3>1
    <3>2. ASSUME NEW c \in Creators, Working(c), ~Activate(c)
          PROVE  FALSE
      <4>1. \/ UNCHANGED node
            \/ \E e, x : node' = [node EXCEPT ![e].label = x]
            \/ \E e : node' = [node EXCEPT ![e].st = "drain"]
            \/ \E e \in Droplets : node[e].st = "out" /\ node' = [node EXCEPT ![e] = [st |-> "active", label |-> "none"]]
        BY <3>2 DEF Working, Look, Create, Await, Configure, Join, Label, Member, Drain, Verify,
           Redrain, Dies, Raise, cluster, Reached, Named, Up
      <4> QED
        BY <4>1, DropFields DEF TypeOK, NodeRec
    <3>3. CASE Other
      <4>1. \/ UNCHANGED node
            \/ \E e, x : node' = [node EXCEPT ![e].label = x]
            \/ \E e : node' = [node EXCEPT ![e] = Out]
        BY <3>3 DEF Other, Removal, Leave, Destroy, PurgeNodes, Purge, PurgeDroplets, PurgeDroplet,
           PurgeNode, PurgeEnds, Removing, Backfill, BackfillDroplets,
           BackfillNodes, BackfillLabel, BackfillEnds, cluster
      <4> QED
        BY <4>1, DropFields DEF TypeOK, NodeRec, Out
    <3>4. ASSUME NEW c \in Creators, Activate(c)
          PROVE  d \in Target(c) \cap InSwarm
      BY <3>4, DropFields DEF Activate, TypeOK, NodeRec
    <3>5. ASSUME NEW c \in Creators, Numbering(c)
          PROVE  UNCHANGED node
      BY <3>5, NumberingMoves DEF cluster
    <3>6. UNCHANGED vars => UNCHANGED node
      BY DEF vars
    <3> QED
      BY <3>1, <3>2, <3>3, <3>4, <3>5, <3>6, NextParts
  <2>2. drop[d].serial = cr[c].serial /\ cr[c].pc = "activate"
    BY <2>1, TargetNamed DEF Activate, At
  <2>3. cr[c].ip \in verified
    BY <2>2 DEF VerInv, At
  <2>4. d = cr[c].own \/ cr[c].serial \in suspect
    BY <2>1, <2>2, FoundOwn
  <2>5. d # NoDroplet
    BY DEF Droplets, NoDroplet
  <2> QED
    BY <2>2, <2>3, <2>4, <2>5 DEF HoldInv, OwnInv
<1> QED
  BY <1>1, <1>2, <1>3, PTL DEF Spec, ActivatedIsVerified

-----------------------------------------------------------------------------
(* Nodes in service. *)

\* What is in service is in the Swarm, and no expansion that has its name will touch it.
ServedInv ==
  /\ served \subseteq InSwarm
  /\ \A d \in served, c \in Creators : cr[c].serial = drop[d].serial => cr[c].serial \in suspect

LEMMA InitServed == Init => ServedInv
<1> SUFFICES ASSUME Init PROVE ServedInv
  OBVIOUS
<1>1. served \subseteq InSwarm
  BY NodeProvisionAssumption DEF Init, InSwarm, Droplets
<1>2. drop[1].serial = 1
  BY NodeProvisionAssumption DEF Init, First, Droplets
<1>3. \A c \in Creators : cr[c].serial = 0
  BY DEF Init, Idle
<1> QED
  BY <1>1, <1>2, <1>3 DEF ServedInv, Init

\* Where no serial is chosen, it is enough that served and InSwarm shrink alike.
LEMMA KeepServed ==
  ASSUME TypeOK, BornInv, ServedInv, [Next]_vars,
         \A c \in Creators : cr'[c].serial \in {0, cr[c].serial},
         served' \subseteq served \cap InSwarm'
  PROVE  ServedInv'
<1>1. \A d \in served : d \in Droplets /\ Born(d) /\ drop[d].serial # 0
  BY DEF ServedInv, BornInv, InSwarm, Serials
<1>2. suspect \subseteq suspect' /\ \A d \in served : drop'[d].serial = drop[d].serial
  BY <1>1, Fixed
<1>3. served' \subseteq served
  OBVIOUS
<1>4. ASSUME NEW d \in served', NEW c \in Creators, cr'[c].serial = drop'[d].serial
      PROVE  cr'[c].serial \in suspect'
  <2>1. d \in served /\ drop'[d].serial = drop[d].serial /\ drop[d].serial # 0
    BY <1>1, <1>2, <1>3
  <2>2. cr'[c].serial = cr[c].serial
    BY <1>4, <2>1
  <2> QED
    BY <1>2, <1>4, <2>1, <2>2 DEF ServedInv
<1>5. served' \subseteq InSwarm'
  OBVIOUS
<1> QED
  BY <1>4, <1>5 DEF ServedInv

LEMMA NextServed ==
  TypeOK /\ NameInv /\ PurgeInv /\ HoldInv /\ ServedInv /\ [Next]_vars => ServedInv'
<1> SUFFICES ASSUME TypeOK, NameInv, PurgeInv, HoldInv, ServedInv, [Next]_vars PROVE ServedInv'
  OBVIOUS
<1>0. BornInv
  BY DEF PurgeInv
<1>1. CASE UNCHANGED vars
  BY <1>0, <1>1, KeepServed DEF vars, history, InSwarm, ServedInv
<1>2. ASSUME NEW c \in Creators, Numbering(c)
      PROVE  ServedInv'
  <2>1. /\ \A o \in Creators \ {c} : cr'[o] = cr[o]
        /\ UNCHANGED <<drop, node, served>> /\ InSwarm' = InSwarm
        /\ \/ cr'[c].serial = 0
           \/ cr'[c].serial \in suspect'
           \/ Nodes(cr'[c].serial) = {}
    BY <1>2, NumberingMoves DEF cluster, InSwarm
  <2>2. \A d \in served : d \in InSwarm /\ drop[d].serial # 0
    BY <1>0 DEF ServedInv, BornInv, InSwarm, Serials
  <2>3. suspect \subseteq suspect'
    BY Fixed
  <2> QED
    BY <2>1, <2>2, <2>3 DEF ServedInv, Nodes
<1>3. ASSUME NEW c \in Creators, Working(c)
      PROVE  ServedInv'
  <2>1. /\ \A o \in Creators \ {c} : cr'[o] = cr[o]
        /\ cr'[c] = Idle \/ cr'[c].serial = cr[c].serial
    BY <1>3, WorkingMoves DEF Moved
  <2>2. \A o \in Creators : cr'[o].serial \in {0, cr[o].serial}
    BY <2>1 DEF Idle
  <2>3. InSwarm \subseteq InSwarm'
    <3>1. \/ UNCHANGED node
          \/ \E e, x : node' = [node EXCEPT ![e].label = x]
          \/ \E e : node' = [node EXCEPT ![e].st = "active"]
          \/ \E e : node' = [node EXCEPT ![e].st = "drain"]
          \/ \E e : node' = [node EXCEPT ![e] = [st |-> "active", label |-> "none"]]
      BY <1>3 DEF Working, Look, Create, Await, Configure, Join, Label, Member, Drain, Verify,
         Redrain, Activate, Dies, Raise, cluster
    <3> QED
      BY <3>1, DropFields DEF TypeOK, NodeRec, InSwarm
  <2>4. CASE UNCHANGED served
    BY <1>0, <2>2, <2>3, <2>4, KeepServed DEF ServedInv
  <2>5. ASSUME NEW d \in Target(c) \cap InSwarm, served' = served \cup {d}, Finish(c)
        PROVE  ServedInv'
    <3>1. drop[d].serial = cr[c].serial /\ d \in Droplets /\ Born(d)
      BY <1>0, TargetNamed DEF BornInv
    <3>2. cr[c].serial # 0 /\ drop'[d].serial = drop[d].serial /\ suspect \subseteq suspect'
      <4>1. drop[d].serial \in Serials
        BY <1>0, <3>1 DEF BornInv
      <4> QED
        BY <3>1, <4>1, Fixed DEF Serials
    <3>3. \A o \in Creators : cr'[o].serial = drop[d].serial => cr'[o].serial \in suspect'
      <4>1. cr'[c].serial = 0
        BY <2>5, FinishRests DEF Idle
      <4> QED
        BY <2>1, <3>1, <3>2, <4>1 DEF NameInv, DistinctInv
    <3>4. \A e \in served : drop'[e].serial = drop[e].serial /\ drop[e].serial # 0
      <4>1. \A e \in served : e \in Droplets /\ Born(e) /\ drop[e].serial \in Serials
        BY <1>0 DEF ServedInv, BornInv, InSwarm
      <4> QED
        BY <4>1, Fixed DEF Serials
    <3> QED
      BY <2>2, <2>3, <2>5, <3>2, <3>3, <3>4 DEF ServedInv
  <2> QED
    BY <1>3, <2>4, <2>5
       DEF Working, Look, Create, Await, Configure, Join, Label, Member, Drain, Verify, Redrain,
           Activate, Dies, Raise, history
<1>4. CASE Other
  <2>1. UNCHANGED cr
    BY <1>4, OtherKeeps
  <2>2. served' \subseteq served \cap InSwarm'
    <3>1. CASE UNCHANGED <<node, served>>
      BY <3>1 DEF ServedInv, InSwarm
    <3>2. CASE \E e : node' = [node EXCEPT ![e] = Out] /\ served' = served \ {e}
      BY <3>2 DEF ServedInv, InSwarm, TypeOK
    <3>3. CASE UNCHANGED served /\ \E e, x : node' = [node EXCEPT ![e].label = x]
      BY <3>3, DropFields DEF ServedInv, InSwarm, TypeOK, NodeRec
    <3> QED
      BY <1>4, <3>1, <3>2, <3>3
         DEF Other, Removal, Leave, Destroy, PurgeNodes, Purge, PurgeDroplets, PurgeDroplet,
             PurgeNode, PurgeEnds, Removing, Backfill, BackfillDroplets,
             BackfillNodes, BackfillLabel, BackfillEnds, cluster, history
  <2> QED
    BY <1>0, <2>1, <2>2, KeepServed
<1> QED
  BY <1>1, <1>2, <1>3, <1>4, NextParts

\* Everything the theorems below rest on, without the history of labels and leftovers.
BaseInv == TypeOK /\ NameInv /\ RmInv /\ PurgeInv /\ HoldInv

LEMMA BaseInvariant ==
  /\ Init => BaseInv
  /\ BaseInv /\ [Next]_vars => BaseInv'
<1>1. Init => BaseInv
  BY InitTypes, InitNames, InitPurge, InitHold DEF Init, RmInv, NoRm, BaseInv
<1>2. BaseInv /\ [Next]_vars => BaseInv'
  BY NextType, NextNames, NextRm, NextPurge, NextHold DEF BaseInv
<1> QED
  BY <1>1, <1>2

\* A node in service is drained by no expansion but one with a suspect serial:
\* whatever is in service was found, or would be, by the choice of the serial.
THEOREM ServingSpared == Spec => ServingUndisturbed
<1>1. Init => BaseInv /\ ServedInv
  BY BaseInvariant, InitServed DEF BaseInv
<1>2. (BaseInv /\ ServedInv) /\ [Next]_vars => (BaseInv /\ ServedInv)'
  BY BaseInvariant, NextServed DEF BaseInv
<1>3. BaseInv /\ ServedInv /\ [Next]_vars =>
        [\A d \in served : node[d].st = "active" /\ node'[d].st = "drain"
                             => drop[d].serial \in suspect]_vars
  <2> SUFFICES ASSUME BaseInv, ServedInv, [Next]_vars, NEW d \in served,
                      node[d].st = "active", node'[d].st = "drain"
               PROVE  drop[d].serial \in suspect
    OBVIOUS
  <2>0. TypeOK /\ d \in Droplets
    BY DEF BaseInv, TypeOK
  <2>1. PICK c \in Creators : d \in Nodes(cr[c].serial)
    <3>1. CASE UNCHANGED node
      BY <3>1
    <3>2. ASSUME NEW c \in Creators, Working(c), d \notin Nodes(cr[c].serial)
          PROVE  FALSE
      <4>1. \/ UNCHANGED node
            \/ \E e, x : node' = [node EXCEPT ![e].label = x]
            \/ \E e \in Nodes(cr[c].serial) : node' = [node EXCEPT ![e].st = "drain"]
            \/ \E e : node' = [node EXCEPT ![e].st = "active"]
            \/ \E e : node' = [node EXCEPT ![e] = [st |-> "active", label |-> "none"]]
        BY <3>2 DEF Working, Look, Create, Await, Configure, Join, Label, Member, Drain, Verify,
           Redrain, Activate, Dies, Raise, cluster
      <4> QED
        BY <2>0, <3>2, <4>1, DropFields DEF TypeOK, NodeRec
    <3>3. CASE Other
      <4>1. \/ UNCHANGED node
            \/ \E e, x : node' = [node EXCEPT ![e].label = x]
            \/ \E e : node' = [node EXCEPT ![e] = Out]
        BY <3>3 DEF Other, Removal, Leave, Destroy, PurgeNodes, Purge, PurgeDroplets, PurgeDroplet,
           PurgeNode, PurgeEnds, Removing, Backfill, BackfillDroplets,
           BackfillNodes, BackfillLabel, BackfillEnds, cluster
      <4> QED
        BY <2>0, <4>1, DropFields, SMTT(20) DEF TypeOK, NodeRec, Out
    <3>4. ASSUME NEW c \in Creators, Numbering(c)
          PROVE  UNCHANGED node
      BY <2>0, <3>4, NumberingMoves DEF cluster
    <3>5. UNCHANGED vars => UNCHANGED node
      BY DEF vars
    <3> QED
      BY <3>1, <3>2, <3>3, <3>4, <3>5, NextParts
  <2>2. cr[c].serial = drop[d].serial
    BY <2>1 DEF Nodes
  <2> QED
    BY <2>2 DEF ServedInv
<1> QED
  BY <1>1, <1>2, <1>3, PTL DEF Spec, ServingUndisturbed

-----------------------------------------------------------------------------
(* Labels. *)

\* A step leaves a node's label, or takes it away, or writes the tier of an expansion that
\* found the node by name, or the size a backfill has listed for that name.
LEMMA LabelMoves ==
  ASSUME TypeOK, [Next]_vars, NEW d \in InSwarm', node'[d].label # "none"
  PROVE  \/ d \in InSwarm /\ node'[d].label = node[d].label
         \/ \E c \in Creators : d \in Nodes(cr[c].serial) /\ node'[d].label = cr[c].tier
         \/ \E e \in bf.of : d \in Nodes(drop[e].serial) /\ node'[d].label = drop[e].size
<1>0. d \in Droplets
  BY DEF InSwarm
<1>1. CASE UNCHANGED node
  BY <1>1 DEF InSwarm
<1>2. ASSUME NEW e, node' = [node EXCEPT ![e].st = "active"] \/ node' = [node EXCEPT ![e].st = "drain"],
             e \in InSwarm
      PROVE  d \in InSwarm /\ node'[d].label = node[d].label
  BY <1>0, <1>2, DropFields DEF TypeOK, NodeRec, InSwarm
<1>3. ASSUME NEW e, \/ node' = [node EXCEPT ![e] = Out]
                    \/ node' = [node EXCEPT ![e] = [st |-> "active", label |-> "none"]]
      PROVE  d \in InSwarm /\ node'[d].label = node[d].label
  BY <1>0, <1>3, DropFields DEF TypeOK, NodeRec, InSwarm, Out
<1>4. ASSUME NEW e \in InSwarm, NEW x, node' = [node EXCEPT ![e].label = x]
      PROVE  /\ d \in InSwarm
             /\ node'[d].label = node[d].label \/ (d = e /\ node'[d].label = x)
  <2>1. /\ node'[d].st = node[d].st
        /\ d # e => node'[d].label = node[d].label
        /\ d = e => node'[d].label = x
    BY <1>0, <1>4, DropFields DEF TypeOK, NodeRec, InSwarm
  <2>2. d \in InSwarm
    BY <1>0, <2>1 DEF InSwarm
  <2> QED
    BY <2>1, <2>2
<1>5. ASSUME NEW c \in Creators, Working(c)
      PROVE  \/ UNCHANGED node
             \/ \E e \in Nodes(cr[c].serial) : node' = [node EXCEPT ![e].label = cr[c].tier]
             \/ \E e \in InSwarm : \/ node' = [node EXCEPT ![e].st = "drain"]
                                   \/ node' = [node EXCEPT ![e].st = "active"]
             \/ \E e : node' = [node EXCEPT ![e] = [st |-> "active", label |-> "none"]]
  BY <1>5 DEF Working, Look, Create, Await, Configure, Join, Label, Member, Drain, Verify,
     Redrain, Activate, Dies, Raise, cluster, Nodes
<1>6. CASE \E c \in Creators : Working(c)
  <2>1. PICK c \in Creators : Working(c)
    BY <1>6
  <2>2. ASSUME NEW e \in Nodes(cr[c].serial), node' = [node EXCEPT ![e].label = cr[c].tier]
        PROVE  \/ d \in InSwarm /\ node'[d].label = node[d].label
               \/ d \in Nodes(cr[c].serial) /\ node'[d].label = cr[c].tier
    BY <2>2, <1>4 DEF Nodes
  <2> QED
    BY <1>1, <1>2, <1>3, <1>5, <2>1, <2>2
<1>7. CASE Other
  <2>1. CASE Backfill
    <3>1. ASSUME NEW e \in bf.of, NEW b \in Nodes(drop[e].serial),
                 node' = [node EXCEPT ![b].label = drop[e].size]
          PROVE  \/ d \in InSwarm /\ node'[d].label = node[d].label
                 \/ d \in Nodes(drop[e].serial) /\ node'[d].label = drop[e].size
      BY <3>1, <1>4 DEF Nodes
    <3> QED
      BY <1>1, <2>1, <3>1, BackfillOnly
  <2>2. CASE ~Backfill
    <3>1. UNCHANGED node \/ \E e : node' = [node EXCEPT ![e] = Out]
      BY <1>7, <2>2 DEF Other, Removal, Leave, Destroy, PurgeNodes, Purge, PurgeDroplets,
         PurgeDroplet, PurgeNode, PurgeEnds, Removing, cluster
    <3> QED
      BY <1>1, <1>3, <3>1
  <2> QED
    BY <2>1, <2>2
<1>8. ASSUME NEW c \in Creators, Numbering(c)
      PROVE  UNCHANGED node
  BY <1>8, NumberingMoves DEF cluster
<1> QED
  BY <1>1, <1>6, <1>7, <1>8, NextParts DEF vars

\* What a backfill has listed under a name is what is up or in the Swarm under it, unless
\* that was made since, or the name is suspect.
ListInv ==
  \A e \in bf.of :
    /\ e \in Droplets /\ Born(e)
    /\ \A d \in Up \cup InSwarm :
         drop[d].serial = drop[e].serial => d = e \/ d \in mixed \/ drop[d].serial \in suspect

LEMMA InitList == Init => ListInv
<1> SUFFICES ASSUME Init, NEW e \in bf.of PROVE
      /\ e \in Droplets /\ Born(e)
      /\ \A d \in Up \cup InSwarm : drop[d].serial = drop[e].serial => d = e
  BY DEF ListInv
<1>1. bf.of = {1, 2} /\ drop[2].st = "up"
  BY DEF Init, NoBf
<1>2. PICK second \in {Unborn} \cup [st : {"up"}, serial : {2}, size : Tiers, fit : BOOLEAN] :
        drop = [d \in Droplets |-> CASE d = 1 -> First
                                     [] d = 2 -> second
                                     [] OTHER -> Unborn]
  BY DEF Init
<1>3. 1 \in Droplets /\ 2 \in Droplets
  BY NodeProvisionAssumption DEF Droplets
<1>4. drop[1] = First /\ drop[2] = second /\ \A d \in Droplets \ {1, 2} : drop[d] = Unborn
  BY <1>2, <1>3
<1>5. second.serial = 2
  BY <1>1, <1>4 DEF Unborn
<1>6. Up \cup InSwarm \subseteq {1, 2}
  BY <1>4 DEF Up, InSwarm, Unborn, Init, Out
<1> QED
  BY <1>1, <1>3, <1>4, <1>5, <1>6 DEF Born, First

\* A droplet that comes up under a name on a backfill's list is mixed.
LEMMA Made ==
  ASSUME TypeOK, [Next]_vars, NEW d \in Up', d \notin Up, ~Born(d)
  PROVE  \A e \in bf.of : drop[e].serial = drop'[d].serial => d \in mixed'
<1>0. d \in Droplets /\ drop'[d].st = "up" /\ drop[d].st = "unborn"
  BY DEF Up, Born
<1>1. drop' # drop
  BY <1>0
<1>2. ASSUME NEW c \in Creators, Create(c), NEW e \in bf.of, drop[e].serial = drop'[d].serial
      PROVE  d \in mixed'
  <2>1. PICK b \in Droplets :
               Mixes(b, cr[c].serial) /\ \E fit \in BOOLEAN : NewDroplet(c, b, fit)
    BY <1>1, <1>2 DEF Create, Raise
  <2>2. d = b /\ drop'[d].serial = cr[c].serial
    BY <1>0, <2>1 DEF NewDroplet, TypeOK
  <2> QED
    BY <1>2, <2>1, <2>2 DEF Mixes
<1>3. ASSUME NEW c \in Creators, Working(c), ~Create(c)
      PROVE  UNCHANGED drop
  BY <1>3 DEF Working, Look, Await, Configure, Join, Label, Member, Drain, Verify,
     Redrain, Activate, Dies, Raise, cluster
<1>4. CASE Other
  <2>1. UNCHANGED drop \/ \E e : drop' = [drop EXCEPT ![e].st = "gone"]
    BY <1>4, BackfillOnly DEF Other, Removal, Leave, Destroy, PurgeNodes, Purge, PurgeDroplets,
       PurgeDroplet, PurgeNode, PurgeEnds, Removing, cluster
  <2> QED
    BY <1>0, <2>1, DropFields DEF TypeOK, DropRec
<1>5. ASSUME NEW c \in Creators, Numbering(c)
      PROVE  UNCHANGED drop
  BY <1>5, NumberingMoves DEF cluster
<1> QED
  BY <1>1, <1>2, <1>3, <1>4, <1>5, NextParts DEF vars

\* A backfill's list is made anew or gets shorter.
LEMMA ListMoves ==
  ASSUME TypeOK, [Next]_vars
  PROVE  bf'.of \subseteq bf.of \/ BackfillDroplets
<1>1. ASSUME NEW c \in Creators, Numbering(c) \/ Working(c)
      PROVE  UNCHANGED bf
  BY <1>1 DEF Numbering, Start, StartNamed, Given, Number, Begun, Alone, Working, Look, Create,
     Await, Configure, Join, Label, Member, Drain, Verify, Redrain, Activate, Dies
<1>2. CASE Other
  <2>1. \A S : Labels(S).of = S
    BY DEF Labels, NoBf
  <2>2. \/ UNCHANGED bf \/ BackfillDroplets \/ bf' = NoBf
        \/ \E S \in SUBSET bf.of : bf' = Labels(S)
    BY <1>2 DEF Other, Removal, Leave, Destroy, PurgeNodes, Purge, PurgeDroplets, PurgeDroplet,
       PurgeNode, PurgeEnds, Removing, Backfill, BackfillNodes, BackfillLabel, BackfillEnds
  <2>3. NoBf.of = {}
    BY DEF NoBf
  <2> QED
    BY <2>1, <2>2, <2>3
<1> QED
  BY <1>1, <1>2, NextParts DEF vars

\* A node that joins is on a machine that is up.
LEMMA JoinsUp ==
  ASSUME TypeOK, [Next]_vars, NEW d \in InSwarm', d \notin InSwarm
  PROVE  d \in Up
<1>0. d \in Droplets /\ node[d].st = "out" /\ node'[d].st # "out"
  BY DEF InSwarm
<1>1. ASSUME NEW c \in Creators, Working(c)
      PROVE  \/ UNCHANGED node
             \/ \E e \in InSwarm : \E x : node' = [node EXCEPT ![e].label = x]
             \/ \E e \in InSwarm : \/ node' = [node EXCEPT ![e].st = "drain"]
                                   \/ node' = [node EXCEPT ![e].st = "active"]
             \/ \E e \in Up : node' = [node EXCEPT ![e] = [st |-> "active", label |-> "none"]]
  BY <1>1 DEF Working, Look, Create, Await, Configure, Join, Label, Member, Drain, Verify,
     Redrain, Activate, Dies, Raise, cluster, Nodes, Reached, Named
<1>2. CASE \E c \in Creators : Working(c)
  BY <1>0, <1>1, <1>2, DropFields DEF TypeOK, NodeRec, InSwarm
<1>3. CASE Other
  <2>1. \/ UNCHANGED node
        \/ \E e \in InSwarm : \E x : node' = [node EXCEPT ![e].label = x]
        \/ \E e : node' = [node EXCEPT ![e] = Out]
    BY <1>3, BackfillOnly DEF Other, Removal, Leave, Destroy, PurgeNodes, Purge, PurgeDroplets,
       PurgeDroplet, PurgeNode, PurgeEnds, Removing, cluster, Nodes
  <2> QED
    BY <1>0, <2>1, DropFields DEF TypeOK, NodeRec, InSwarm, Out
<1>4. ASSUME NEW c \in Creators, Numbering(c)
      PROVE  UNCHANGED node
  BY <1>4, NumberingMoves DEF cluster
<1> QED
  BY <1>0, <1>2, <1>3, <1>4, NextParts DEF vars

LEMMA NextList == BaseInv /\ ListInv /\ [Next]_vars => ListInv'
<1> SUFFICES ASSUME BaseInv, ListInv, [Next]_vars PROVE ListInv'
  OBVIOUS
<1>0. TypeOK /\ BornInv /\ OneEachInv
  BY DEF BaseInv, PurgeInv, HoldInv
<1>1. CASE BackfillDroplets
  <2>1. bf'.of \subseteq Up /\ UNCHANGED <<drop, node, suspect>>
    BY <1>1 DEF BackfillDroplets, cluster, history
  <2> QED
    BY <1>0, <2>1 DEF ListInv, OneEachInv, Up, InSwarm, Born
<1>2. CASE bf'.of \subseteq bf.of
  <2> SUFFICES ASSUME NEW e \in bf.of
               PROVE  /\ e \in Droplets /\ drop'[e].st # "unborn"
                      /\ \A d \in Up' \cup InSwarm' : drop'[d].serial = drop'[e].serial =>
                           d = e \/ d \in mixed' \/ drop'[d].serial \in suspect'
    BY <1>2 DEF ListInv, Born
  <2>1. e \in Droplets /\ Born(e) /\ drop'[e].serial = drop[e].serial
    BY <1>0, Fixed DEF ListInv
  <2>2. drop'[e].st # "unborn"
    BY <1>0, <2>1, Fixed
  <2> SUFFICES ASSUME NEW d \in Up' \cup InSwarm', drop'[d].serial = drop[e].serial
               PROVE  d = e \/ d \in mixed' \/ drop'[d].serial \in suspect'
    BY <2>1, <2>2
  <2>3. CASE d \in Up \cup InSwarm
    <3>1. d \in Droplets /\ Born(d)
      BY <1>0, <2>3 DEF BornInv, Up, Born
    <3>2. drop'[d].serial = drop[d].serial
      BY <1>0, <3>1, Fixed
    <3> QED
      BY <1>0, <2>3, <3>2, Fixed DEF ListInv
  <2>4. CASE d \notin Up \cup InSwarm
    <3>1. d \in Up'
      BY <1>0, <2>4, JoinsUp
    <3>2. ~Born(d)
      BY <1>0, <2>4, <3>1, Fixed DEF Up
    <3> QED
      BY <1>0, <2>4, <3>1, <3>2, Made
  <2> QED
    BY <2>3, <2>4
<1> QED
  BY <1>0, <1>1, <1>2, ListMoves

\* The labels from which the autoscaler counts seats are those of the droplet's size, on
\* whichever machine an expansion or label-backfill finds by name.
THEOREM LabelsTold == Spec => []LabelsHonest
<1>1. Init => BaseInv /\ ListInv /\ LabelsHonest
  <2>1. ASSUME Init
        PROVE  /\ 1 \in Droplets /\ drop[1].size = "small"
               /\ \A d \in InSwarm : d = 1 /\ node[d].label = "small"
    BY <2>1, NodeProvisionAssumption DEF Init, Droplets, InSwarm, First, Out
  <2> QED
    BY <2>1, BaseInvariant, InitList DEF LabelsHonest
<1>2. (BaseInv /\ ListInv /\ LabelsHonest) /\ [Next]_vars
        => (BaseInv /\ ListInv /\ LabelsHonest)'
  <2> SUFFICES ASSUME BaseInv, ListInv, LabelsHonest, [Next]_vars PROVE LabelsHonest'
    BY BaseInvariant, NextList
  <2>0. TypeOK /\ HoldInv /\ BornInv
    BY DEF BaseInv, PurgeInv
  <2> SUFFICES ASSUME NEW d \in InSwarm', node'[d].label # "none", node'[d].label # drop'[d].size
               PROVE  d \in mixed' \/ drop'[d].serial \in suspect'
    BY DEF LabelsHonest
  <2>1. ASSUME d \in InSwarm, node[d].label = node'[d].label \/ d \in mixed \/ drop[d].serial \in suspect
        PROVE  d \in mixed' \/ drop'[d].serial \in suspect'
    <3>1. d \in Droplets /\ Born(d)
      BY <2>0, <2>1 DEF BornInv
    <3>2. drop'[d].serial = drop[d].serial /\ drop'[d].size = drop[d].size
      BY <2>0, <3>1, Fixed
    <3>3. d \in mixed \/ drop[d].serial \in suspect
      BY <2>1, <3>2 DEF LabelsHonest
    <3> QED
      BY <2>0, <3>2, <3>3, Fixed
  <2>2. ASSUME NEW c \in Creators, d \in Nodes(cr[c].serial), node'[d].label = cr[c].tier
        PROVE  d \in InSwarm /\ (d \in mixed \/ drop[d].serial \in suspect)
    <3>1. d \in InSwarm /\ drop[d].serial = cr[c].serial
      BY <2>2 DEF Nodes
    <3>2. d = cr[c].own \/ cr[c].serial \in suspect
      BY <2>0, <3>1, FoundOwn
    <3>3. d \in Droplets /\ Born(d) /\ d # NoDroplet
      BY <2>0, <3>1 DEF BornInv, Droplets, NoDroplet
    <3>4. drop'[d].size = drop[d].size
      BY <2>0, <3>3, Fixed
    <3> QED
      BY <2>0, <2>2, <3>1, <3>2, <3>3, <3>4 DEF HoldInv, OwnInv
  <2>3. ASSUME NEW e \in bf.of, d \in Nodes(drop[e].serial), node'[d].label = drop[e].size
        PROVE  d \in InSwarm /\ (d \in mixed \/ drop[d].serial \in suspect)
    <3>1. d \in InSwarm /\ d \in Droplets /\ Born(d) /\ drop[d].serial = drop[e].serial
      BY <2>0, <2>3 DEF BornInv, Nodes
    <3>2. drop'[d].size = drop[d].size
      BY <2>0, <3>1, Fixed
    <3> QED
      BY <2>3, <3>1, <3>2 DEF ListInv
  <2> QED
    BY <2>0, <2>1, <2>2, <2>3, LabelMoves
<1> QED
  BY <1>1, <1>2, PTL DEF Spec

-----------------------------------------------------------------------------
(* Leftovers. *)

\* A purge takes no node whose machine is up, unless its name is suspect.
RemoveInv ==
  pg.pc = "act" => \A d \in pg.remove : d \notin Up \/ drop[d].serial \in suspect

LEMMA NextRemove == TypeOK /\ PurgeInv /\ RemoveInv /\ [Next]_vars => RemoveInv'
<1> SUFFICES ASSUME TypeOK, PurgeInv, RemoveInv, [Next]_vars PROVE RemoveInv'
  OBVIOUS
<1>0. BornInv /\ ListedInv /\ PlannedInv
  BY DEF PurgeInv
<1>1. CASE pg'.pc = "act" => pg.pc = "act" /\ pg'.remove \subseteq pg.remove
  <2> SUFFICES ASSUME NEW d \in pg.remove, pg.pc = "act", d \in Up'
               PROVE  drop'[d].serial \in suspect'
    BY <1>1 DEF RemoveInv
  <2>1. d \in Droplets /\ Born(d)
    BY <1>0 DEF PlannedInv
  <2>2. d \in Up /\ drop'[d].serial = drop[d].serial
    BY <2>1, Fixed DEF Up
  <2> QED
    BY <2>2, Fixed DEF RemoveInv
<1>2. CASE PurgeDroplets
  <2>1. ASSUME NEW S \in SUBSET Up, OnePerName(S, Up), PurgePlan(S), UNCHANGED drop
        PROVE  RemoveInv'
    <3>1. pg'.remove = {d \in pg.nodes : ~NameIn(d, S)}
      BY <2>1 DEF PurgePlan, TypeOK, PgRec
    <3>2. \A d \in Up : NameIn(d, S)
      BY <2>1 DEF OnePerName, NameIn
    <3> QED
      BY <2>1, <3>1, <3>2 DEF RemoveInv, Up
  <2>2. ASSUME PurgePlan({}), suspect' = suspect \cup Serials, UNCHANGED drop
        PROVE  RemoveInv'
    <3>1. pg'.remove \subseteq pg.nodes
      BY <2>2 DEF PurgePlan, TypeOK, PgRec
    <3>2. \A d \in pg.nodes : drop[d].serial \in Serials
      BY <1>0, <1>2 DEF PurgeDroplets, ListedInv, BornInv
    <3> QED
      BY <2>2, <3>1, <3>2 DEF RemoveInv
  <2> QED
    BY <1>2, <2>1, <2>2 DEF PurgeDroplets, cluster
<1>3. ASSUME NEW c \in Creators, Working(c)
      PROVE  UNCHANGED pg \/ \E d : pg' = [pg EXCEPT !.late = @ \cup {d}]
  BY <1>3 DEF Working, Look, Create, Await, Configure, Join, Label, Member, Drain, Verify,
     Redrain, Activate, Dies, Raise, Alone
<1>4. ASSUME NEW d, pg' = [pg EXCEPT !.late = @ \cup {d}]
      PROVE  pg'.pc = pg.pc /\ pg'.remove = pg.remove
  BY <1>4 DEF TypeOK, PgRec
<1>5. CASE Other /\ ~PurgeDroplets
  <2>1. \/ UNCHANGED pg
        \/ pg' = NoPg
        \/ \E S : pg' = [NoPg EXCEPT !.pc = "droplets", !.nodes = S]
        \/ pg' = [NoPg EXCEPT !.pc = "droplets"]
        \/ \E d : pg.pc = "act" /\ pg' = [pg EXCEPT !.destroy = @ \ {d}]
        \/ \E d : pg.pc = "act" /\ pg' = [pg EXCEPT !.remove = @ \ {d}]
    BY <1>5 DEF Other, Removal, Leave, Destroy, PurgeNodes, Purge, PurgeDroplet,
       PurgeNode, PurgeEnds, Removing, Backfill, BackfillDroplets,
       BackfillNodes, BackfillLabel, BackfillEnds
  <2> QED
    <3>1. ASSUME NEW d, pg' = [pg EXCEPT !.destroy = @ \ {d}] \/ pg' = [pg EXCEPT !.remove = @ \ {d}]
          PROVE  pg'.pc = pg.pc /\ pg'.remove \subseteq pg.remove
      BY <3>1 DEF TypeOK, PgRec
    <3>2. ASSUME NEW S, \/ pg' = [NoPg EXCEPT !.pc = "droplets", !.nodes = S]
                        \/ pg' = [NoPg EXCEPT !.pc = "droplets"]
                        \/ pg' = NoPg
          PROVE  pg'.pc # "act"
      <4>1. NoPg.pc = "idle" /\ DOMAIN NoPg = {"pc", "nodes", "destroy", "remove", "late"}
        BY DEF NoPg
      <4>2. [NoPg EXCEPT !.pc = "droplets", !.nodes = S].pc = "droplets"
        BY <4>1
      <4>3. [NoPg EXCEPT !.pc = "droplets"].pc = "droplets"
        BY <4>1
      <4> QED
        BY <3>2, <4>1, <4>2, <4>3
    <3> QED
      BY <1>1, <2>1, <3>1, <3>2
<1>6. ASSUME NEW c \in Creators, Numbering(c)
      PROVE  UNCHANGED pg
  BY <1>6, NumberingMoves
<1> QED
  BY <1>1, <1>2, <1>3, <1>4, <1>5, <1>6, NextParts DEF vars

\* Once it has joined, the droplet of an expansion is in the Swarm, unless it was taken out.
JoinedInv ==
  \A c \in Creators :
    cr[c].own # NoDroplet /\ cr[c].own \in Up \ InSwarm /\ cr[c].pc \in Late
      => cr[c].own \in known \/ rm.d = cr[c].own \/ cr[c].serial \in suspect

\* A node goes only by a removal, by which its droplet becomes known or is the one being
\* removed, or by a purge.
LEMMA Leaves ==
  ASSUME TypeOK, PurgeInv, RemoveInv, [Next]_vars, NEW d \in InSwarm, d \notin InSwarm', d \in Up
  PROVE  d \in known' \/ rm'.d = d \/ drop[d].serial \in suspect
<1>0. d \in Droplets /\ d \in DOMAIN node
  BY DEF InSwarm, TypeOK
<1>1. CASE UNCHANGED node
  BY <1>1 DEF InSwarm
<1>2. ASSUME NEW c \in Creators, Working(c)
      PROVE  FALSE
  <2>1. \/ UNCHANGED node
        \/ \E e, x : node' = [node EXCEPT ![e].label = x]
        \/ \E e : node' = [node EXCEPT ![e].st = "active"]
        \/ \E e : node' = [node EXCEPT ![e].st = "drain"]
        \/ \E e : node' = [node EXCEPT ![e] = [st |-> "active", label |-> "none"]]
    BY <1>2 DEF Working, Look, Create, Await, Configure, Join, Label, Member, Drain, Verify,
       Redrain, Activate, Dies, Raise, cluster
  <2> QED
    BY <2>1, DropFields DEF TypeOK, NodeRec, InSwarm
<1>3. CASE Other
  <2>1. \/ UNCHANGED node
        \/ \E e, x : node' = [node EXCEPT ![e].label = x]
        \/ \E e : node' = [node EXCEPT ![e] = Out] /\ (PurgeNode(e) \/ (Leave /\ known' = known \cup ({e} \ {rm.d})))
    BY <1>3 DEF Other, Removal, Leave, Destroy, PurgeNodes, Purge, PurgeDroplets, PurgeDroplet,
       PurgeNode, PurgeEnds, Removing, Backfill, BackfillDroplets,
       BackfillNodes, BackfillLabel, BackfillEnds, cluster
  <2>2. ASSUME NEW e, NEW x, node' = [node EXCEPT ![e].label = x]
        PROVE  FALSE
    BY <2>2, DropFields DEF TypeOK, NodeRec, InSwarm
  <2>3. ASSUME NEW e, node' = [node EXCEPT ![e] = Out]
        PROVE  d = e
    BY <1>0, <2>3, <1>1 DEF InSwarm
  <2>4. PurgeNode(d) => drop[d].serial \in suspect
    BY DEF PurgeNode, RemoveInv
  <2>5. Leave => rm'.d = rm.d
    BY DEF Leave, TypeOK, RmRec, NoRm
  <2> QED
    BY <1>1, <2>1, <2>2, <2>3, <2>4, <2>5
<1>4. ASSUME NEW c \in Creators, Numbering(c)
      PROVE  UNCHANGED node
  BY <1>4, NumberingMoves DEF cluster
<1> QED
  BY <1>1, <1>2, <1>3, <1>4, NextParts DEF vars

\* Who is being removed stays so until it is gone, or known.
LEMMA RemovedStays ==
  ASSUME TypeOK, RmInv, [Next]_vars, NEW d \in Up', rm.d = d, d # NoDroplet
  PROVE  rm'.d = d \/ d \in known'
<1>1. CASE UNCHANGED rm
  BY <1>1
<1>2. CASE Leave
  BY <1>2 DEF Leave, TypeOK, RmRec, NoRm
<1>3. CASE Destroy
  <2>1. d \in Droplets /\ drop'[d].st = "up"
    BY DEF Up
  <2>2. drop' # [drop EXCEPT ![rm.d].st = "gone"]
    BY <2>1, DropFields DEF TypeOK, DropRec
  <2> QED
    BY <1>3, <2>2 DEF Destroy
<1>4. ASSUME NEW e, Removing(e)
      PROVE  FALSE
  BY <1>4 DEF Removing, TypeOK, RmRec, NoRm
<1>5. ASSUME NEW c \in Creators, Working(c)
      PROVE  UNCHANGED rm
  BY <1>5 DEF Working, Look, Create, Await, Configure, Join, Label, Member, Drain, Verify,
     Redrain, Activate, Dies, Raise, Alone
<1>6. CASE Other
  BY <1>1, <1>2, <1>3, <1>4, <1>6 DEF Other, Removal, PurgeNodes, Purge, PurgeDroplets,
     PurgeDroplet, PurgeNode, PurgeEnds, Backfill, BackfillDroplets, BackfillNodes,
     BackfillLabel, BackfillEnds
<1>7. ASSUME NEW c \in Creators, Numbering(c)
      PROVE  UNCHANGED rm
  BY <1>7, NumberingMoves
<1> QED
  BY <1>1, <1>5, <1>6, <1>7, NextParts DEF vars

\* How an expansion that has a droplet ends, and what it has done once it is late.
LEMMA EndMoves ==
  ASSUME TypeOK, HoldInv, NEW c \in Creators, Working(c), cr[c].own # NoDroplet
  PROVE  /\ cr'[c] # Idle => cr'[c].own = cr[c].own /\ cr'[c].pc # "idle"
         /\ cr'[c] = Idle => cr[c].own \in known' \/ cr[c].pc \in Late
         /\ cr'[c] # Idle /\ cr'[c].pc \in Late
              => \/ cr[c].pc \in Late
                 \/ Join(c) /\ cr'[c] # Idle
                 \/ Member(c) /\ Nodes(cr[c].serial) # {}
<1>0. cr[c].pc \notin {"look", "create"} /\ cr[c].kind # "join"
  BY DEF HoldInv, KindInv, Early, Bare
<1>1. cr'[c] # Idle => cr'[c].own = cr[c].own /\ cr'[c].pc # "idle"
  BY <1>0, WorkingMoves DEF Moved
<1>2. ASSUME NEW pc, Go(c, pc)
      PROVE  cr'[c].own = cr[c].own
  BY <1>2, CrFields DEF Go, TypeOK, CrRec
<1>3. cr'[c] = Idle => cr[c].own \in known' \/ cr[c].pc \in Late
  <2> SUFFICES ASSUME cr'[c].own = NoDroplet, cr[c].pc \notin Late
               PROVE  cr[c].own \in known'
    BY DEF Idle
  <2>1. CASE Drop(c)
    BY <2>1 DEF Drop
  <2>2. ASSUME NEW x, NEW y, cr' = [cr EXCEPT ![c].pc = x, ![c].ip = y]
        PROVE  FALSE
    BY <2>2, CrFields DEF TypeOK, CrRec
  <2>3. CASE Configure(c) \/ Await(c)
    BY <2>1, <2>2, <2>3 DEF Configure, Await, Raise
  <2>4. CASE Join(c)
    BY <1>0, <1>2, <2>1, <2>4 DEF Join, Past, Raise
  <2>5. CASE Member(c)
    BY <1>2, <2>1, <2>5 DEF Member, Raise
  <2>6. CASE Dies(c) \/ Redrain(c)
    BY <2>1, <2>6 DEF Dies, Redrain
  <2> QED
    BY <1>0, <2>3, <2>4, <2>5, <2>6 DEF Working, Look, Create, Label, Drain, Verify, Activate, At, Late
<1>4. cr'[c] # Idle /\ cr'[c].pc \in Late
        => \/ cr[c].pc \in Late
           \/ Join(c) /\ cr'[c] # Idle
           \/ Member(c) /\ Nodes(cr[c].serial) # {}
  <2>1. cr'[c] # Idle /\ cr'[c].pc \in Late => cr[c].pc \in Late \cup {"join", "member"}
    BY WorkingMoves DEF Moved
  <2>2. cr[c].pc = "join" => Join(c) \/ Finish(c)
    BY DEF Working, Look, Create, Await, Configure, Label, Member, Drain, Verify, Redrain, Activate,
       Dies, Drop, At
  <2>3. cr[c].pc = "member" => Member(c) \/ Finish(c)
    BY DEF Working, Look, Create, Await, Configure, Label, Join, Drain, Verify, Redrain, Activate,
       Dies, Drop, At
  <2>4. Finish(c) => cr'[c] = Idle
    BY FinishRests
  <2>5. Member(c) /\ Nodes(cr[c].serial) = {} => Finish(c)
    BY DEF Member, Raise, Drop
  <2> QED
    BY <2>1, <2>2, <2>3, <2>4, <2>5
<1> QED
  BY <1>1, <1>3, <1>4

\* A join reaches the expansion's own droplet, or one of a suspect name.
LEMMA JoinsOwn ==
  ASSUME TypeOK, HoldInv, NEW c \in Creators, Join(c), cr[c].own # NoDroplet, cr'[c] # Idle
  PROVE  cr[c].own \in InSwarm' \/ cr[c].serial \in suspect
<1>1. ~Raise(c)
  BY FinishRests DEF Raise, Drop
<1>2. PICK d \in Reached(cr[c].serial) :
        \/ node[d].st # "out" /\ UNCHANGED node
        \/ node' = [node EXCEPT ![d] = [st |-> "active", label |-> "none"]]
  BY <1>1 DEF Join
<1>3. d \in Up /\ drop[d].serial = cr[c].serial /\ d \in Droplets
  BY DEF Reached, Named, Up
<1>4. d = cr[c].own \/ cr[c].serial \in suspect
  BY <1>3, FoundOwn
<1>5. d \in InSwarm'
  BY <1>2, <1>3 DEF InSwarm, TypeOK
<1> QED
  BY <1>4, <1>5

LEMMA NextJoined == BaseInv /\ RemoveInv /\ JoinedInv /\ [Next]_vars => JoinedInv'
<1> SUFFICES ASSUME BaseInv, RemoveInv, JoinedInv, [Next]_vars, NEW c \in Creators,
                    cr'[c].own # NoDroplet, cr'[c].own \in Up' \ InSwarm', cr'[c].pc \in Late
             PROVE  cr'[c].own \in known' \/ rm'.d = cr'[c].own \/ cr'[c].serial \in suspect'
  BY DEF JoinedInv
<1>0. TypeOK /\ RmInv /\ PurgeInv /\ HoldInv /\ BornInv
  BY DEF BaseInv, PurgeInv
<1>1. ASSUME cr'[c].own = cr[c].own, cr'[c].serial = cr[c].serial,
             cr[c].pc \in Late \/ cr[c].own \in InSwarm
      PROVE  cr'[c].own \in known' \/ rm'.d = cr'[c].own \/ cr'[c].serial \in suspect'
  <2> DEFINE d == cr[c].own
  <2>1. d \in Droplets /\ Born(d) /\ drop[d].serial = cr[c].serial
    BY <1>0, <1>1 DEF HoldInv, OwnInv
  <2>2. d \in Up
    BY <1>0, <1>1, <2>1, Fixed DEF Up
  <2>3. CASE d \in InSwarm
    <3>1. d \in known' \/ rm'.d = d \/ drop[d].serial \in suspect
      BY <1>0, <1>1, <2>2, <2>3, Leaves
    <3> QED
      BY <1>0, <1>1, <2>1, <3>1, Fixed
  <2>4. CASE d \notin InSwarm
    <3>1. d \in known \/ rm.d = d \/ cr[c].serial \in suspect
      BY <1>1, <2>2, <2>4 DEF JoinedInv
    <3>2. rm.d = d => rm'.d = d \/ d \in known'
      BY <1>0, <1>1, RemovedStays
    <3> QED
      BY <1>0, <1>1, <3>1, <3>2, Fixed
  <2> QED
    BY <2>3, <2>4
<1>2. CASE cr'[c] = cr[c]
  BY <1>1, <1>2
<1>3. CASE Working(c)
  <2>1. cr'[c] # Idle
    BY DEF Idle
  <2>2. cr'[c].own = cr[c].own /\ cr'[c].serial = cr[c].serial
    <3>1. cr[c].pc \in Late \cup {"join", "member"}
      BY <1>0, <1>3, <2>1, WorkingMoves DEF Moved
    <3>2. cr[c].pc \notin {"look", "create"}
      BY <3>1 DEF Late
    <3> QED
      BY <1>0, <1>3, <2>1, <3>2, WorkingMoves DEF Moved
  <2>3. \/ cr[c].pc \in Late
        \/ Join(c) /\ cr'[c] # Idle
        \/ Member(c) /\ Nodes(cr[c].serial) # {}
    BY <1>0, <1>3, <2>1, <2>2, EndMoves
  <2>4. CASE Join(c)
    <3>1. cr[c].serial \in suspect
      BY <1>0, <2>1, <2>2, <2>4, JoinsOwn
    <3> QED
      BY <1>0, <2>2, <3>1, Fixed
  <2>5. CASE Nodes(cr[c].serial) # {}
    <3>1. PICK e \in InSwarm : drop[e].serial = cr[c].serial
      BY <2>5 DEF Nodes
    <3>2. e = cr[c].own \/ cr[c].serial \in suspect
      BY <1>0, <3>1, FoundOwn
    <3>3. suspect \subseteq suspect'
      BY <1>0, Fixed
    <3> QED
      BY <1>1, <2>2, <3>1, <3>2, <3>3
  <2> QED
    BY <1>1, <2>2, <2>3, <2>4, <2>5
<1>4. ASSUME NEW o \in Creators \ {c}, Working(o)
      PROVE  cr'[c] = cr[c]
  BY <1>0, <1>4, WorkingMoves DEF Moved
<1>5. ASSUME NEW o \in Creators, Numbering(o)
      PROVE  cr'[c] = cr[c]
  BY <1>0, <1>5, NumberingMoves DEF Late
<1> QED
  BY <1>2, <1>3, <1>4, <1>5, OtherKeeps, NextParts DEF vars

\* A droplet comes up in the hands of the expansion that made it, or is left behind.
LEMMA ComesUp ==
  ASSUME TypeOK, [Next]_vars, NEW d \in Up', d \notin Up, ~Born(d)
  PROVE  d \in known' \/ \E c \in Creators : cr'[c].pc # "idle" /\ cr'[c].own = d
<1>0. d \in Droplets /\ drop'[d].st = "up" /\ drop[d].st = "unborn"
  BY DEF Up, Born
<1>1. drop' # drop
  BY <1>0
<1>2. ASSUME NEW c \in Creators, Create(c)
      PROVE  d \in known' \/ (cr'[c].pc # "idle" /\ cr'[c].own = d)
  <2>1. PICK e \in Droplets :
               /\ \E fit \in BOOLEAN : NewDroplet(c, e, fit)
               /\ \/ cr' = [cr EXCEPT ![c].pc = "await", ![c].own = e]
                  \/ known' = known \cup {e}
    BY <1>1, <1>2 DEF Create, Raise
  <2>2. d = e
    BY <1>0, <2>1 DEF NewDroplet, TypeOK
  <2> QED
    BY <2>1, <2>2, CrFields DEF TypeOK, CrRec
<1>3. ASSUME NEW c \in Creators, Working(c), ~Create(c)
      PROVE  UNCHANGED drop
  BY <1>3 DEF Working, Look, Await, Configure, Join, Label, Member, Drain, Verify,
     Redrain, Activate, Dies, Raise, cluster
<1>4. CASE Other
  <2>1. UNCHANGED drop \/ \E e : drop' = [drop EXCEPT ![e].st = "gone"]
    BY <1>4 DEF Other, Removal, Leave, Destroy, PurgeNodes, Purge, PurgeDroplets, PurgeDroplet,
       PurgeNode, PurgeEnds, Removing, Backfill, BackfillDroplets,
       BackfillNodes, BackfillLabel, BackfillEnds, cluster
  <2> QED
    BY <1>0, <2>1, DropFields DEF TypeOK, DropRec
<1>5. ASSUME NEW c \in Creators, Numbering(c)
      PROVE  UNCHANGED drop
  BY <1>5, NumberingMoves DEF cluster
<1> QED
  BY <1>1, <1>2, <1>3, <1>4, <1>5, NextParts DEF vars

\* A droplet is outside the Swarm only in the hands of a command, or known to be left:
\* no expansion reports success and leaves one, whatever removals and purges of the
\* same names go on.
THEOREM NothingLeft == Spec => []NoSilentLeftover
<1> DEFINE Inv == BaseInv /\ RemoveInv /\ JoinedInv /\ NoSilentLeftover
<1>1. Init => Inv
  <2>1. Init => RemoveInv /\ JoinedInv
    BY DEF Init, RemoveInv, NoPg, JoinedInv, Idle
  <2>2. Init => NoSilentLeftover
    BY NodeProvisionAssumption DEF Init, NoSilentLeftover, Up, InSwarm, Droplets
  <2> QED
    BY <2>1, <2>2, BaseInvariant
<1>2. Inv /\ [Next]_vars => Inv'
  <2> SUFFICES ASSUME Inv, [Next]_vars PROVE NoSilentLeftover'
    BY BaseInvariant, NextRemove, NextJoined DEF BaseInv
  <2>0. /\ TypeOK /\ RmInv /\ PurgeInv /\ HoldInv /\ BornInv
        /\ RemoveInv /\ JoinedInv /\ NoSilentLeftover
    BY DEF BaseInv, PurgeInv
  <2> SUFFICES ASSUME NEW d \in Up' \ InSwarm'
               PROVE  \/ \E c \in Creators : cr'[c].pc # "idle" /\ cr'[c].own = d
                      \/ d \in known' \/ rm'.d = d
                      \/ drop'[d].serial \in suspect'
    BY DEF NoSilentLeftover, Busy
  <2>1. d \in Droplets /\ d # NoDroplet
    BY DEF Up, Droplets, NoDroplet
  <2>2. CASE ~Born(d)
    BY <2>0, <2>1, <2>2, ComesUp DEF Up, Born
  <2>3. CASE Born(d)
    <3>1. d \in Up /\ drop'[d].serial = drop[d].serial
      BY <2>0, <2>1, <2>3, Fixed DEF Up
    <3>2. suspect \subseteq suspect' /\ known \subseteq known'
      BY <2>0, Fixed
    <3>3. CASE d \in InSwarm
      BY <2>0, <3>1, <3>2, <3>3, Leaves
    <3>4. CASE d \in known \/ drop[d].serial \in suspect
      BY <3>1, <3>2, <3>4
    <3>5. CASE rm.d = d
      BY <2>0, <2>1, <3>5, RemovedStays
    <3>6. ASSUME d \notin InSwarm, NEW c \in Creators, cr[c].own = d
          PROVE  \/ cr'[c].pc # "idle" /\ cr'[c].own = d
                 \/ d \in known' \/ rm'.d = d
                 \/ drop'[d].serial \in suspect'
      <4>1. cr[c].serial = drop[d].serial
        BY <2>0, <2>1, <3>6 DEF HoldInv, OwnInv
      <4>2. cr[c].pc \notin Early
        BY <2>0, <2>1, <3>6 DEF HoldInv, KindInv
      <4>3. CASE cr'[c] = cr[c]
        BY <3>6, <4>2, <4>3 DEF Early
      <4>4. CASE Working(c)
        <5>1. CASE cr'[c] # Idle
          BY <2>0, <2>1, <3>6, <4>4, <5>1, EndMoves
        <5>2. CASE d \in known'
          BY <5>2
        <5>3. CASE cr[c].pc \in Late
          BY <2>0, <2>1, <3>1, <3>2, <3>5, <3>6, <4>1, <5>3, RemovedStays DEF JoinedInv
        <5> QED
          BY <2>0, <2>1, <3>6, <4>4, <5>1, <5>2, <5>3, EndMoves
      <4>5. ASSUME NEW o \in Creators \ {c}, Working(o)
            PROVE  cr'[c] = cr[c]
        BY <2>0, <4>5, WorkingMoves DEF Moved
      <4>6. ASSUME NEW o \in Creators, Numbering(o)
            PROVE  cr'[c] = cr[c]
        BY <2>0, <4>2, <4>6, NumberingMoves DEF Early
      <4> QED
        BY <4>3, <4>4, <4>5, <4>6, OtherKeeps, NextParts DEF vars
    <3>7. d \in InSwarm \/ d \in known \/ drop[d].serial \in suspect \/ rm.d = d
            \/ \E c \in Creators : cr[c].own = d
      BY <2>0, <3>1 DEF NoSilentLeftover, Busy
    <3> QED
      BY <3>3, <3>4, <3>5, <3>6, <3>7
  <2> QED
    BY <2>2, <2>3
<1> QED
  BY <1>1, <1>2, PTL DEF Spec

-----------------------------------------------------------------------------
(* Activation. *)

\* An expansion that drained a node and verified it ends with the node active, unless all
\* its tries failed, its process died, or the node's state could not be read.
THEOREM WarmedAreActive == Spec => WarmedServes
<1>1. Init => BaseInv
  BY BaseInvariant
<1>2. BaseInv /\ [Next]_vars => BaseInv'
  BY BaseInvariant
<1>3. BaseInv /\ [Next]_vars =>
        [\A c \in Creators, d \in Droplets :
           /\ At(c, "activate") /\ cr[c].obj = d /\ node[d].st = "drain"
           /\ cr'[c].pc = "idle"
           => node'[d].st # "drain" \/ faults' >= Tries \/ died' \/ drop[d].serial \in suspect']_vars
  <2> SUFFICES ASSUME BaseInv, [Next]_vars, NEW c \in Creators, NEW d \in Droplets,
                      At(c, "activate"), cr[c].obj = d, node[d].st = "drain", cr'[c].pc = "idle"
               PROVE  node'[d].st # "drain" \/ faults' >= Tries \/ died' \/ drop[d].serial \in suspect'
    OBVIOUS
  <2>0. TypeOK /\ HoldInv /\ d # NoDroplet /\ d \in InSwarm
    BY DEF BaseInv, Droplets, NoDroplet, InSwarm
  <2>1. Activate(c) \/ Dies(c)
    <3>1. cr'[c] # cr[c]
      BY DEF At
    <3>2. ASSUME NEW o \in Creators \ {c}, Working(o)
          PROVE  FALSE
      BY <2>0, <3>1, <3>2, WorkingMoves DEF Moved
    <3>3. ASSUME NEW o \in Creators, Numbering(o)
          PROVE  FALSE
      BY <2>0, <3>1, <3>3, NumberingMoves DEF At
    <3>4. CASE Working(c)
      BY <3>4 DEF Working, Look, Create, Await, Configure, Join, Label, Member, Drain, Verify,
         Redrain, At
    <3> QED
      BY <3>1, <3>2, <3>3, <3>4, OtherKeeps, NextParts DEF vars
  <2>2. Target(c) \cap InSwarm = {d}
    BY <2>0 DEF Target
  <2>3. CASE Dies(c)
    BY <2>3 DEF Dies
  <2>4. CASE node' = [node EXCEPT ![d].st = "active"]
    BY <2>4, DropFields, <2>0 DEF TypeOK, NodeRec
  <2>5. ASSUME Fault, cr[c].tries + 1 >= Tries
        PROVE  faults' >= Tries
    <3>1. cr[c].tries <= faults
      BY <2>0 DEF HoldInv, ObjInv
    <3>2. cr[c].tries \in Nat /\ faults \in Nat /\ Tries \in Nat
      BY <2>0, CrFields, NodeProvisionAssumption DEF TypeOK
    <3>3. faults' = faults + 1
      BY <2>5 DEF Fault
    <3> QED
      BY <2>5, <3>1, <3>2, <3>3
  <2>6. ASSUME NEW e, cr' = [cr EXCEPT ![c].tries = @ + 1, ![c].obj = e, ![c].was = node[e].st]
        PROVE  FALSE
    <3>1. cr'[c].pc = cr[c].pc
      BY <2>0, <2>6, CrFields DEF TypeOK, CrRec
    <3> QED
      BY <3>1 DEF At
  <2>7. CASE Suspect(cr[c].serial)
    <3>1. drop[d].serial = cr[c].serial
      BY <2>0 DEF HoldInv, ObjInv
    <3> QED
      BY <2>7, <3>1 DEF Suspect
  <2> QED
    BY <2>1, <2>2, <2>3, <2>4, <2>5, <2>6, <2>7 DEF Activate
<1> QED
  BY <1>1, <1>2, <1>3, PTL DEF Spec, WarmedServes
=============================================================================
