--------------------------- MODULE Autoscale_proofs ---------------------------
(***************************************************************************)
(* Proofs about Autoscale: types, the floor of the workers, the cooldown, and  *)
(* what a plan leaves.                                                       *)
(***************************************************************************)
EXTENDS Autoscale, FiniteSetTheorems, WellFoundedInduction, TLAPS

-----------------------------------------------------------------------------
(* Sets of serials, and the decisions of ScalePlan. *)

\* A set of naturals that is not empty has a least element.
LEMMA Least ==
  ASSUME NEW T \in SUBSET Nat, T # {}
  PROVE  \E x \in T : \A y \in T : x <= y
<1> DEFINE R == OpToRel(<, Nat)
<1>1. IsWellFoundedOn(R, Nat)
  BY NatLessThanWellFounded
<1>2. R = {ss \in Nat \X Nat : ss[1] < ss[2]}
  BY DEF OpToRel
<1> HIDE DEF R
<1>3. PICK x \in T : \A y \in T : <<y, x>> \notin R
  BY <1>1, WFMin
<1>4. ASSUME NEW y \in T
      PROVE  x <= y
  <2>1. <<y, x>> \in Nat \X Nat /\ <<y, x>>[1] = y /\ <<y, x>>[2] = x
    OBVIOUS
  <2>2. ~ (<<y, x>>[1] < <<y, x>>[2])
    BY <1>2, <1>3, <2>1
  <2> QED
    BY <2>1, <2>2
<1> QED
  BY <1>4

LEMMA SerialsFinite ==
  /\ Serials \subseteq Nat
  /\ \A S \in SUBSET Serials : IsFiniteSet(S) /\ Cardinality(S) \in Nat
<1>1. IsFiniteSet(Serials)
  BY FS_Interval, AutoscaleAssumption DEF Serials
<1>2. ASSUME NEW S \in SUBSET Serials
      PROVE  IsFiniteSet(S) /\ Cardinality(S) \in Nat
  BY <1>1, FS_Subset, FS_CardinalityType
<1> QED
  BY <1>2, AutoscaleAssumption DEF Serials

LEMMA TimesMonotone ==
  ASSUME NEW k \in Nat, NEW x \in Nat, NEW y \in Nat, x <= y
  PROVE  k * x \in Int /\ k * y \in Int /\ k * x <= k * y
OBVIOUS

LEMMA Times ==
  ASSUME NEW k \in Nat, NEW x \in Int, NEW y \in Int
  PROVE  /\ k * x \in Int
         /\ k * (x - y) = k * x - k * y
         /\ k * (x + y) = k * x + k * y
OBVIOUS

\* Capacity adds up.
LEMMA CapacityOf ==
  ASSUME NEW workers, IsFiniteSet(workers), NEW gone \in SUBSET workers, NEW large
  PROVE  /\ Capacity(workers, large) \in Int
         /\ Capacity(gone, large) \in Int
         /\ Capacity(workers \ gone, large) = Capacity(workers, large) - Capacity(gone, large)
<1> DEFINE in == workers \cap large
           out == workers \ large
<1>1. IsFiniteSet(in) /\ IsFiniteSet(out)
  BY FS_Subset
<1>2. /\ Cardinality(in) \in Nat /\ Cardinality(out) \in Nat
      /\ Cardinality(gone \cap large) \in Nat /\ Cardinality(gone \ large) \in Nat
  BY <1>1, FS_CardinalityType, FS_Subset
<1>3. /\ Cardinality((workers \ gone) \cap large) = Cardinality(in) - Cardinality(gone \cap large)
      /\ Cardinality((workers \ gone) \ large) = Cardinality(out) - Cardinality(gone \ large)
  <2>1. /\ (workers \ gone) \cap large = in \ gone /\ in \cap gone = gone \cap large
        /\ (workers \ gone) \ large = out \ gone /\ out \cap gone = gone \ large
    OBVIOUS
  <2> HIDE DEF in, out
  <2>2. Cardinality(in \ gone) = Cardinality(in) - Cardinality(in \cap gone)
    BY <1>1, FS_Difference
  <2>3. Cardinality(out \ gone) = Cardinality(out) - Cardinality(out \cap gone)
    BY <1>1, FS_Difference
  <2> QED
    BY <2>1, <2>2, <2>3
<1> HIDE DEF in, out
<1>4. Capacity(workers, large) = LargeCap * Cardinality(in) + SmallCap * Cardinality(out)
  BY DEF Capacity, in, out
<1>5. LargeCap \in Nat /\ SmallCap \in Nat
  BY ScalePlanAssumption
<1>6. /\ LargeCap * Cardinality(in) \in Int /\ SmallCap * Cardinality(out) \in Int
      /\ LargeCap * Cardinality(gone \cap large) \in Int
      /\ SmallCap * Cardinality(gone \ large) \in Int
      /\ LargeCap * (Cardinality(in) - Cardinality(gone \cap large))
           = LargeCap * Cardinality(in) - LargeCap * Cardinality(gone \cap large)
      /\ SmallCap * (Cardinality(out) - Cardinality(gone \ large))
           = SmallCap * Cardinality(out) - SmallCap * Cardinality(gone \ large)
  BY <1>2, <1>5, Times
<1> QED
  BY <1>3, <1>4, <1>6 DEF Capacity

\* The last node selected could go once all the others had.
LEMMA LastSelected ==
  ASSUME NEW gone \in SUBSET Serials, NEW candidates, NEW workers, NEW large, NEW load,
         IsSelection(gone, candidates, workers, large, load), gone # {}
  PROVE  \E n \in gone : Removable(n, gone \ {n}, workers, large, load)
<1>1. gone \in SUBSET Nat
  BY SerialsFinite
<1>2. PICK n \in gone : \A m \in gone : n <= m
  BY <1>1, Least
<1>3. {m \in gone : m > n} = gone \ {n}
  <2>1. \A m \in gone : m > n <=> m # n
    BY <1>1, <1>2
  <2> QED
    BY <2>1
<1>4. n \in candidates
  BY DEF IsSelection
<1> QED
  BY <1>3, <1>4 DEF IsSelection

\* What a selection leaves: the least number of workers, and room for the hosts
\* counted and the headroom.
LEMMA SelectionLeaves ==
  ASSUME NEW workers \in SUBSET Serials, NEW gone \in SUBSET workers, NEW candidates,
         NEW large, NEW load \in Nat,
         IsSelection(gone, candidates, workers, large, load), gone # {}
  PROVE  /\ MinWorkers <= Cardinality(workers \ gone)
         /\ Cardinality(gone) <= MaxRemove
         /\ load + Headroom < Capacity(workers \ gone, large)
<1>1. PICK n \in gone : Removable(n, gone \ {n}, workers, large, load)
  BY LastSelected
<1>2. /\ IsFiniteSet(workers) /\ Cardinality(workers) \in Nat
      /\ IsFiniteSet(gone) /\ Cardinality(gone) \in Nat
  BY SerialsFinite
<1>3. Cardinality(gone \ {n}) = Cardinality(gone) - 1
  BY <1>2, FS_RemoveElement
<1>4. Cardinality(workers \ gone) = Cardinality(workers) - Cardinality(gone)
  <2>1. workers \cap gone = gone
    OBVIOUS
  <2> QED
    BY <1>2, <2>1, FS_Difference
<1>5. /\ Capacity(workers \ gone, large) = Capacity(workers, large) - Capacity(gone, large)
      /\ Capacity(workers, large) \in Int /\ Capacity(gone, large) \in Int
  BY <1>2, CapacityOf
<1>6. /\ Capacity(gone \ {n}, large) = Capacity(gone, large) - Capacity({n}, large)
      /\ Capacity({n}, large) \in Int
  BY <1>2, CapacityOf
<1> QED
  BY <1>1, <1>2, <1>3, <1>4, <1>5, <1>6, ScalePlanAssumption DEF Removable

-----------------------------------------------------------------------------
(* What a plan adds. *)

AddRec == [large: 0 .. MaxAdd, small: 0 .. MaxAdd]

\* d is so many large nodes and a rest.
LEMMA Divided ==
  ASSUME NEW d \in Nat
  PROVE  \E full \in Nat, rest \in 0 .. LargeCap - 1 :
           /\ full = d \div LargeCap /\ rest = d % LargeCap
           /\ d = LargeCap * full + rest
<1> DEFINE full == d \div LargeCap
           rest == d % LargeCap
<1>1. LargeCap \in Nat /\ 0 < LargeCap
  BY ScalePlanAssumption
<1>2. full \in Int /\ 0 <= full
  BY <1>1
<1>3. rest \in 0 .. LargeCap - 1
  BY <1>1
<1>4. rest = d - LargeCap * full
  BY <1>1
<1> HIDE DEF full, rest
<1>5. d = LargeCap * full + rest
  BY <1>1, <1>2, <1>3, <1>4
<1>6. full \in Nat
  BY <1>2
<1>7. full = d \div LargeCap /\ rest = d % LargeCap
  BY Zenon DEF full, rest
<1> QED
  BY <1>3, <1>5, <1>6, <1>7, Zenon

\* What Packed adds covers the deficit, with no node to spare.
LEMMA PackedFits ==
  ASSUME NEW d \in Nat, 0 < d
  PROVE  /\ Packed(d) \in [large: Nat, small: 0 .. 1]
         /\ d <= Brings(Packed(d))
         /\ Brings(Fewer(Packed(d))) < d
<1>1. PICK full \in Nat, rest \in 0 .. LargeCap - 1 :
        /\ full = d \div LargeCap /\ rest = d % LargeCap
        /\ d = LargeCap * full + rest
  BY Divided, Zenon
<1>a. d = LargeCap * full + rest
  BY <1>1, Zenon
<1>2. /\ LargeCap * full \in Int
      /\ LargeCap * (full - 1) = LargeCap * full - LargeCap
      /\ LargeCap * (full + 1) = LargeCap * full + LargeCap
      /\ (full + 1) - 1 = full
  BY ScalePlanAssumption, Times
<1>3. LargeCap * 0 = 0 /\ SmallCap * 0 = 0 /\ SmallCap * 1 = SmallCap
  BY ScalePlanAssumption
<1>4. Packed(d) = IF rest = 0 THEN [large |-> full, small |-> 0]
                  ELSE IF rest <= SmallCap THEN [large |-> full, small |-> 1]
                  ELSE [large |-> full + 1, small |-> 0]
  BY <1>1, Zenon DEF Packed
<1>5. CASE rest = 0
  <2>1. Packed(d) = [large |-> full, small |-> 0] /\ 0 < full
    BY <1>a, <1>3, <1>4, <1>5
  <2>2. Fewer(Packed(d)) = [large |-> full - 1, small |-> 0]
    BY <2>1 DEF Fewer
  <2> QED
    BY <1>a, <1>2, <1>3, <1>5, <2>1, <2>2, ScalePlanAssumption DEF Brings
<1>6. CASE rest # 0 /\ rest <= SmallCap
  <2>1. Packed(d) = [large |-> full, small |-> 1]
    BY <1>4, <1>6
  <2>2. CASE 0 < full
    <3>1. Fewer(Packed(d)) = [large |-> full - 1, small |-> 1]
      BY <2>1, <2>2 DEF Fewer
    <3> QED
      BY <1>a, <1>2, <1>3, <1>6, <2>1, <3>1, ScalePlanAssumption DEF Brings
  <2>3. CASE full = 0
    <3>1. Fewer(Packed(d)) = [large |-> full, small |-> 0]
      BY <2>1, <2>3 DEF Fewer
    <3> QED
      BY <1>a, <1>2, <1>3, <1>6, <2>1, <2>3, <3>1, ScalePlanAssumption DEF Brings
  <2> QED
    BY <2>2, <2>3
<1>7. CASE rest # 0 /\ ~(rest <= SmallCap)
  <2>1. Packed(d) = [large |-> full + 1, small |-> 0]
    BY <1>4, <1>7
  <2>2. Fewer(Packed(d)) = [large |-> full, small |-> 0]
    BY <1>2, <2>1 DEF Fewer
  <2> QED
    BY <1>a, <1>2, <1>3, <1>7, <2>1, <2>2, ScalePlanAssumption DEF Brings
<1> QED
  BY <1>5, <1>6, <1>7

\* So does ScaleUp, unless it adds as much as a cycle may.
LEMMA ScaleUpOf ==
  ASSUME NEW d \in Int
  PROVE  /\ ScaleUp(d) \in AddRec /\ Size(ScaleUp(d)) <= MaxAdd
         /\ 0 < d => d <= Brings(ScaleUp(d)) \/ Size(ScaleUp(d)) = MaxAdd
         /\ 0 < Size(ScaleUp(d)) => Brings(Fewer(ScaleUp(d))) < d
<1>1. CASE d <= 0
  BY <1>1, ScalePlanAssumption DEF ScaleUp, NoAdd, AddRec, Size
<1>2. CASE 0 < d
  <2> DEFINE p == Packed(d)
             over == p.large + p.small - MaxAdd
             drop == IF p.small < over THEN p.small ELSE over
             l == Positive(p.large - (over - drop))
  <2>1. /\ d \in Nat /\ p \in [large: Nat, small: 0 .. 1]
        /\ d <= Brings(p) /\ Brings(Fewer(p)) < d
    BY <1>2, PackedFits
  <2>2. ScaleUp(d) = IF over <= 0 THEN p ELSE [large |-> l, small |-> p.small - drop]
    BY <1>2 DEF ScaleUp, Clamped
  <2> HIDE DEF p
  <2>3. CASE over <= 0
    BY <1>2, <2>1, <2>2, <2>3, ScalePlanAssumption DEF AddRec, Size
  <2>4. CASE 0 < over
    <3>1. /\ l \in 0 .. p.large /\ p.small - drop \in 0 .. p.small
          /\ l + (p.small - drop) = MaxAdd
          /\ l = p.large \/ p.small - drop = 0
      BY <2>1, <2>4, ScalePlanAssumption DEF Positive
    <3> DEFINE sm == p.small - drop
    <3>2. ScaleUp(d) = [large |-> l, small |-> sm]
      BY <2>1, <2>2, <2>4, ScalePlanAssumption
    <3>3. /\ l \in 0 .. p.large /\ sm \in 0 .. p.small /\ l + sm = MaxAdd
          /\ l = p.large \/ sm = 0
          /\ p.large \in Nat /\ p.small \in Nat
      BY <2>1, <3>1
    <3> DEFINE q == p.large
               r == p.small
    <3>4. p = [large |-> q, small |-> r]
      BY <2>1
    <3> HIDE DEF l, sm, over, drop, q, r
    <3>5. /\ l \in 0 .. q /\ sm \in 0 .. r /\ l + sm = MaxAdd
          /\ l = q \/ sm = 0
          /\ q \in Nat /\ r \in Nat
      BY <3>3 DEF q, r
    <3>a. /\ l \in Nat /\ sm \in Nat /\ l <= q /\ sm <= r
          /\ l \in 0 .. MaxAdd /\ sm \in 0 .. MaxAdd
      BY <3>5, ScalePlanAssumption
    <3>b. ScaleUp(d).large = l /\ ScaleUp(d).small = sm
      BY <3>2
    <3>6. ScaleUp(d) \in AddRec /\ Size(ScaleUp(d)) = MaxAdd
      <4>1. ScaleUp(d) \in AddRec
        BY <3>2, <3>a DEF AddRec
      <4>2. Size(ScaleUp(d)) = l + sm
        BY <3>b, Zenon DEF Size
      <4> QED
        BY <4>1, <4>2, <3>5
    <3>7. ASSUME 0 < l
          PROVE  Brings(Fewer(ScaleUp(d))) < d
      <4>1. /\ Fewer(ScaleUp(d)) = [large |-> l - 1, small |-> sm]
            /\ Fewer(p) = [large |-> q - 1, small |-> r]
        <5>1. 0 < q
          BY <3>7, <3>a, <3>5
        <5> QED
          BY <3>2, <3>4, <3>7, <5>1 DEF Fewer
      <4>2. /\ LargeCap * (l - 1) \in Int /\ LargeCap * (q - 1) \in Int
            /\ LargeCap * (l - 1) <= LargeCap * (q - 1)
        <5>1. l - 1 \in Nat /\ q - 1 \in Nat /\ l - 1 <= q - 1
          BY <3>5, <3>7, <3>a
        <5> QED
          BY <5>1, TimesMonotone, ScalePlanAssumption
      <4>3. /\ SmallCap * sm \in Int /\ SmallCap * r \in Int
            /\ SmallCap * sm <= SmallCap * r
        BY <3>5, <3>a, TimesMonotone, ScalePlanAssumption
      <4>4. Brings(Fewer(ScaleUp(d))) <= Brings(Fewer(p)) /\ Brings(Fewer(p)) \in Int
            /\ Brings(Fewer(ScaleUp(d))) \in Int
        BY <4>1, <4>2, <4>3 DEF Brings
      <4> QED
        BY <2>1, <4>4
    <3>8. ASSUME l = 0, 0 < sm
          PROVE  Brings(Fewer(ScaleUp(d))) < d
      <4>1. /\ Fewer(ScaleUp(d)) = [large |-> 0, small |-> sm - 1]
            /\ Fewer(p) = [large |-> 0, small |-> r - 1]
        BY <3>2, <3>4, <3>5, <3>8 DEF Fewer
      <4>2. /\ SmallCap * (sm - 1) \in Int /\ SmallCap * (r - 1) \in Int
            /\ SmallCap * (sm - 1) <= SmallCap * (r - 1)
        BY <3>5, <3>8, TimesMonotone, ScalePlanAssumption
      <4>3. LargeCap * 0 = 0
        BY ScalePlanAssumption
      <4> QED
        BY <2>1, <4>1, <4>2, <4>3 DEF Brings
    <3>9. 0 < Size(ScaleUp(d)) => 0 < l \/ (l = 0 /\ 0 < sm)
      <4>1. Size(ScaleUp(d)) = l + sm
        BY <3>b, Zenon DEF Size
      <4> QED
        BY <4>1, <3>a
    <3> QED
      BY <3>6, <3>7, <3>8, <3>9, ScalePlanAssumption
  <2> QED
    BY <2>1, <2>3, <2>4, ScalePlanAssumption
<1> QED
  BY <1>1, <1>2

-----------------------------------------------------------------------------
(* Types, and what a cycle has planned where. *)

\* Only the holder of the lock runs.
LockInv == \A c \in Cycles : cyc[c].pc # "idle" => lock = c

\* Nothing is planned before the plan; what is left to add, and to remove, is left
\* where it is done.
Planned(r) ==
  /\ r.pc \in {"idle", "gather"} => r.empty = Never /\ r.add = NoAdd
  /\ r.pc \notin {"check", "remove"} => r.todo = {}
  /\ r.pc = "add" => 0 < Size(r.add)
  /\ r.pc \in {"verify", "remove"} => r.node \in Serials
PlanInv == \A c \in Cycles : Planned(cyc[c])

TypeInv == TypeOK /\ LockInv /\ PlanInv

LEMMA Resets ==
  /\ Never \in [Serials -> Ages] /\ Uncounted \in [Hosts -> Serials \cup {Nowhere}]
  /\ NoAdd \in AddRec /\ Size(NoAdd) = 0
  /\ Idle \in CycRec
  /\ Idle.pc = "idle" /\ Idle.empty = Never /\ Idle.add = NoAdd /\ Idle.todo = {}
BY ScalePlanAssumption DEF Never, Ages, Uncounted, NoAdd, AddRec, Size, Idle, CycRec

LEMMA TypeInit == Init => TypeInv
<1> SUFFICES ASSUME Init PROVE TypeInv
  OBVIOUS
<1>1. PICK workers \in SUBSET (Serials \ Managers) :
        nodes = Managers \cup workers /\ big \in SUBSET workers
  BY DEF Init
<1>2. nodes \subseteq Serials /\ big \subseteq nodes /\ drained \subseteq nodes
  BY <1>1, AutoscaleAssumption DEF Init
<1>3. host \in [Hosts -> HostRec]
  BY DEF Init, HostRec
<1>4. \A c \in Cycles : cyc[c] = Idle
  BY DEF Init
<1>5. cyc \in [Cycles -> CycRec]
  BY Resets DEF Init
<1>6. TypeOK
  BY <1>2, <1>3, <1>5, Resets, AutoscaleAssumption DEF Init, TypeOK
<1>7. LockInv
  BY <1>4, Resets DEF LockInv
<1>8. PlanInv
  BY <1>4, Resets DEF PlanInv, Planned
<1> QED
  BY <1>6, <1>7, <1>8 DEF TypeInv

\* How nodes that join or leave, and events, keep their types.
LEMMA CostsType ==
  ASSUME TypeOK, NEW k \in Nat, Costs(k)
  PROVE  events' \in 0 .. MaxEvents /\ events <= events' /\ taken \in 0 .. events'
BY AutoscaleAssumption DEF TypeOK, Costs

LEMMA FaultType ==
  ASSUME TypeOK, Fault \/ NoFault
  PROVE  events' \in 0 .. MaxEvents /\ events <= events' /\ taken \in 0 .. events'
<1>1. CASE Fault
  BY <1>1, CostsType DEF Fault
<1>2. CASE NoFault
  BY <1>2, CostsType DEF NoFault
<1> QED
  BY <1>1, <1>2

LEMMA JoinsType ==
  ASSUME TypeOK, NEW n \in Serials, NEW large \in BOOLEAN, Joins(n, large)
  PROVE  /\ nodes' \subseteq Serials /\ big' \subseteq nodes' /\ reborn' \subseteq Serials
         /\ nodes \subseteq nodes' /\ n \in nodes'
BY DEF TypeOK, Joins

LEMMA LeavesType ==
  ASSUME TypeOK, NEW n, Leaves(n)
  PROVE  /\ nodes' \subseteq Serials /\ big' \subseteq nodes' /\ drained' \subseteq nodes'
         /\ host' \in [Hosts -> HostRec] /\ seen' \in [Serials -> Ages]
         /\ reborn' \subseteq Serials
<1>1. host' \in [Hosts -> HostRec]
  <2>1. ASSUME NEW h \in Hosts
        PROVE  [host[h] EXCEPT !.at = Nowhere] \in HostRec /\ host[h] \in HostRec
    BY DEF TypeOK, HostRec
  <2> QED
    BY <2>1 DEF Leaves, Evicts
<1>2. seen' \in [Serials -> Ages]
  BY DEF TypeOK, Leaves, Ages
<1> QED
  BY <1>1, <1>2 DEF TypeOK, Leaves

\* A step of the cycle that holds the lock, or that gives it up.
LEMMA CycStep ==
  ASSUME TypeInv, NEW c \in Cycles, NEW r \in CycRec, cyc' = [cyc EXCEPT ![c] = r],
         Planned(r),
         r.pc = "idle" \/ lock' = c,
         \A d \in Cycles \ {c} : cyc[d].pc = "idle" \/ lock' = d
  PROVE  cyc' \in [Cycles -> CycRec] /\ LockInv' /\ PlanInv'
<1>1. cyc \in [Cycles -> CycRec]
  BY DEF TypeInv, TypeOK
<1>2. cyc' \in [Cycles -> CycRec] /\ cyc'[c] = r /\ \A d \in Cycles \ {c} : cyc'[d] = cyc[d]
  BY <1>1
<1>3. \A d \in Cycles : Planned(cyc'[d])
  BY <1>2 DEF TypeInv, PlanInv
<1>4. PlanInv'
  BY <1>3, Zenon DEF PlanInv, Planned
<1>5. LockInv'
  BY <1>2 DEF LockInv
<1> QED
  BY <1>2, <1>4, <1>5

\* The others are idle while one runs.
LEMMA OthersIdle ==
  ASSUME TypeInv, NEW c \in Cycles, cyc[c].pc # "idle"
  PROVE  lock = c /\ \A d \in Cycles \ {c} : cyc[d].pc = "idle"
BY DEF TypeInv, LockInv

LEMMA NoneRun ==
  ASSUME TypeInv, lock = Free
  PROVE  \A d \in Cycles : cyc[d].pc = "idle"
BY AutoscaleAssumption DEF TypeInv, LockInv

\* The step of a cycle leaves the others as they are.
LEMMA CycOnly ==
  ASSUME TypeInv, NEW c \in Cycles, Begin(c) \/ Step(c) \/ Cut(c)
  PROVE  \A d \in Cycles \ {c} : cyc'[d] = cyc[d]
<1>1. cyc \in [Cycles -> CycRec]
  BY DEF TypeInv, TypeOK
<1>2. ASSUME NEW x, cyc' = [cyc EXCEPT ![c] = x]
      PROVE  \A d \in Cycles \ {c} : cyc'[d] = cyc[d]
  BY <1>1, <1>2
<1>3. CASE Begin(c) \/ Gather(c)
  BY <1>1, <1>3 DEF Begin, Gather
<1>4. CASE AddNode(c) \/ Verify(c)
  BY <1>1, <1>4 DEF AddNode, Verify
<1>5. CASE Recheck(c) \/ RemoveNode(c)
  BY <1>1, <1>5 DEF Recheck, RemoveNode
<1>6. CASE Save(c) \/ Cut(c)
  BY <1>2, <1>6 DEF Save, Cut, Unlock
<1> QED
  BY <1>3, <1>4, <1>5, <1>6 DEF Step

LEMMA BeginTypes ==
  ASSUME TypeInv, NEW c \in Cycles, Begin(c)
  PROVE  TypeInv'
<1>1. PICK unread \in SUBSET {h \in Hosts : host[h].at # Nowhere} :
        /\ Costs((IF unread = {} THEN 0 ELSE 1) + (IF c \in ByHand THEN 1 ELSE 0))
        /\ cyc' = [cyc EXCEPT ![c].pc = "gather",
                     ![c].on = [h \in Hosts |-> IF h \in unread THEN Nowhere ELSE host[h].at]]
  BY DEF Begin
<1>2. events' \in 0 .. MaxEvents /\ taken \in 0 .. events'
  <2>1. (IF unread = {} THEN 0 ELSE 1) + (IF c \in ByHand THEN 1 ELSE 0) \in Nat
    OBVIOUS
  <2> QED
    BY <1>1, <2>1, CostsType DEF TypeInv
<1> DEFINE on == [h \in Hosts |-> IF h \in unread THEN Nowhere ELSE host[h].at]
           r == [cyc[c] EXCEPT !.pc = "gather", !.on = on]
<1>3. on \in [Hosts -> Serials \cup {Nowhere}]
  <2>1. \A h \in Hosts : host[h].at \in Serials \cup {Nowhere}
    BY DEF TypeInv, TypeOK, HostRec
  <2> QED
    BY <2>1
<1>4. cyc' = [cyc EXCEPT ![c] = r]
  BY <1>1
<1>5. cyc[c] \in CycRec /\ cyc[c].pc = "idle" /\ Planned(cyc[c])
  BY DEF TypeInv, TypeOK, PlanInv, Begin
<1> HIDE DEF on
<1>6. /\ r \in CycRec /\ r.pc = "gather" /\ r.empty = cyc[c].empty /\ r.add = cyc[c].add
      /\ r.todo = cyc[c].todo
  BY <1>3, <1>5 DEF CycRec
<1>7. Planned(r)
  BY <1>5, <1>6 DEF Planned
<1>8. lock' = c /\ \A d \in Cycles : cyc[d].pc = "idle"
  BY NoneRun DEF Begin
<1> HIDE DEF r
<1>9. cyc' \in [Cycles -> CycRec] /\ LockInv' /\ PlanInv'
  BY <1>4, <1>6, <1>7, <1>8, CycStep
<1> QED
  BY <1>2, <1>8, <1>9 DEF TypeInv, TypeOK, Begin, Swarm, History

LEMMA AfterOf ==
  ASSUME NEW add \in AddRec, NEW todo
  PROVE  /\ After(add, todo) \in {"add", "check", "save"}
         /\ After(add, todo) = "add" => 0 < Size(add)
         /\ After(add, todo) # "check" => todo = {} \/ 0 < Size(add)
         /\ 0 < Size(add) => After(add, todo) = "add"
BY DEF After

LEMMA SinceTypes ==
  ASSUME TypeOK, NEW on, NEW aged
  PROVE  Since(on, aged) \in [Serials -> Ages] /\ Counted(on, aged) \in [Serials -> Ages]
BY DEF TypeOK, Since, Counted, Entry, Ages

\* What a gather has planned, whatever the options.
LEMMA GatherPlan ==
  ASSUME TypeInv, NEW c \in Cycles, Gather(c)
  PROVE  \E aged \in SUBSET Workers, forced \in BOOLEAN, add \in AddRec,
            todo \in SUBSET Workers, adds \in AddRec, removes \in SUBSET Workers :
           /\ c \in Cron => ~forced
           /\ IsPlan(cyc[c].on, Since(cyc[c].on, aged), forced, add, todo)
           /\ adds = add \/ adds = NoAdd
           /\ removes = todo \/ removes = {}
           /\ cyc' = [cyc EXCEPT ![c] =
                        [pc |-> After(adds, removes), on |-> Uncounted,
                         empty |-> Since(cyc[c].on, aged),
                         add |-> adds, todo |-> removes, node |-> Nowhere]]
           /\ seen' = Counted(cyc[c].on, aged)
<1>1. PICK aged \in SUBSET {n \in Workers : "young" \in {sidecar[n], seen[n]}},
           forced \in BOOLEAN, ups \in BOOLEAN, downs \in BOOLEAN,
           add \in [large : 0 .. MaxAdd, small : 0 .. MaxAdd], todo \in SUBSET Workers :
        LET empty == Since(cyc[c].on, aged)
            adds == IF ups THEN add ELSE NoAdd
            removes == IF downs THEN todo ELSE {}
        IN  /\ c \in Cron => ~forced /\ ups /\ downs
            /\ IsPlan(cyc[c].on, empty, forced, add, todo)
            /\ cyc' = [cyc EXCEPT ![c] =
                         [pc |-> After(adds, removes), on |-> Uncounted, empty |-> empty,
                          add |-> adds, todo |-> removes, node |-> Nowhere]]
            /\ seen' = Counted(cyc[c].on, aged)
  BY DEF Gather
<1> DEFINE adds == IF ups THEN add ELSE NoAdd
           removes == IF downs THEN todo ELSE {}
<1>2. /\ aged \in SUBSET Workers /\ add \in AddRec
      /\ adds \in AddRec /\ (adds = add \/ adds = NoAdd)
      /\ removes \in SUBSET Workers /\ (removes = todo \/ removes = {})
  BY Resets DEF AddRec
<1>3. /\ c \in Cron => ~forced
      /\ IsPlan(cyc[c].on, Since(cyc[c].on, aged), forced, add, todo)
      /\ cyc' = [cyc EXCEPT ![c] =
                   [pc |-> After(adds, removes), on |-> Uncounted,
                    empty |-> Since(cyc[c].on, aged),
                    add |-> adds, todo |-> removes, node |-> Nowhere]]
      /\ seen' = Counted(cyc[c].on, aged)
  BY <1>1
<1> HIDE DEF adds, removes
<1> QED
  BY <1>2, <1>3

LEMMA GatherTypes ==
  ASSUME TypeInv, NEW c \in Cycles, Gather(c)
  PROVE  TypeInv'
<1>1. PICK aged \in SUBSET Workers, forced \in BOOLEAN, add \in AddRec,
           todo \in SUBSET Workers, adds \in AddRec, removes \in SUBSET Workers :
        /\ c \in Cron => ~forced
        /\ IsPlan(cyc[c].on, Since(cyc[c].on, aged), forced, add, todo)
        /\ adds = add \/ adds = NoAdd
        /\ removes = todo \/ removes = {}
        /\ cyc' = [cyc EXCEPT ![c] =
                     [pc |-> After(adds, removes), on |-> Uncounted,
                      empty |-> Since(cyc[c].on, aged),
                      add |-> adds, todo |-> removes, node |-> Nowhere]]
        /\ seen' = Counted(cyc[c].on, aged)
  BY GatherPlan, Zenon
<1> DEFINE empty == Since(cyc[c].on, aged)
           pc == After(adds, removes)
           r == [pc |-> pc, on |-> Uncounted, empty |-> empty,
                 add |-> adds, todo |-> removes, node |-> Nowhere]
<1>2. empty \in [Serials -> Ages] /\ seen' \in [Serials -> Ages]
  BY <1>1, SinceTypes DEF TypeInv
<1>3. removes = {} \/ Size(adds) = 0
  <2>1. todo = {} \/ add = NoAdd
    BY <1>1 DEF IsPlan
  <2> QED
    BY <1>1, <2>1, Resets
<1>4. /\ pc \in {"add", "check", "save"} /\ (pc = "add" => 0 < Size(adds))
      /\ (pc # "check" => removes = {})
  BY <1>3, AfterOf
<1>5. removes \in SUBSET Serials
  BY DEF TypeInv, TypeOK, Workers
<1>6. cyc' = [cyc EXCEPT ![c] = r]
  BY <1>1
<1> HIDE DEF empty, pc
<1>7. r \in CycRec
  BY <1>2, <1>4, <1>5, Resets DEF CycRec, AddRec, Nowhere
<1>8. Planned(r)
  BY <1>4 DEF Planned
<1>9. cyc[c].pc # "idle" /\ lock' = lock
  BY DEF Gather
<1>10. lock = c /\ \A d \in Cycles \ {c} : cyc[d].pc = "idle"
  BY <1>9, OthersIdle
<1> HIDE DEF r
<1>11. cyc' \in [Cycles -> CycRec] /\ LockInv' /\ PlanInv'
  BY <1>6, <1>7, <1>8, <1>9, <1>10, CycStep
<1> QED
  BY <1>2, <1>11 DEF TypeInv, TypeOK, Gather, Swarm

LEMMA FewerOf ==
  ASSUME NEW add \in AddRec, 0 < Size(add)
  PROVE  Fewer(add) \in AddRec /\ Size(Fewer(add)) = Size(add) - 1
<1>1. add.large \in 0 .. MaxAdd /\ add.small \in 0 .. MaxAdd
  BY DEF AddRec
<1>2. CASE 0 < add.large
  <2>1. add.large - 1 \in 0 .. MaxAdd
    BY <1>1, <1>2, ScalePlanAssumption
  <2> QED
    BY <1>1, <1>2, <2>1 DEF Fewer, AddRec, Size
<1>3. CASE ~(0 < add.large)
  <2>1. add.small - 1 \in 0 .. MaxAdd
    BY <1>1, <1>3, ScalePlanAssumption DEF Size
  <2> QED
    BY <1>1, <1>3, <2>1 DEF Fewer, AddRec, Size
<1> QED
  BY <1>2, <1>3

LEMMA AddNodeTypes ==
  ASSUME TypeInv, NEW c \in Cycles, AddNode(c)
  PROVE  TypeInv'
<1>1. /\ cyc[c] \in CycRec /\ cyc[c].pc = "add" /\ Planned(cyc[c]) /\ lock' = lock
  BY DEF TypeInv, TypeOK, PlanInv, AddNode
<1>2. lock' = c /\ \A d \in Cycles \ {c} : cyc[d].pc = "idle"
  BY <1>1, OthersIdle
<1>3. /\ cyc[c].add \in AddRec /\ 0 < Size(cyc[c].add) /\ cyc[c].todo = {}
  BY <1>1 DEF CycRec, AddRec, Planned
<1>4. ASSUME NEW n \in Serials, NEW labelled \in BOOLEAN, NEW drains \in BOOLEAN,
             IF labelled /\ drains THEN NoFault ELSE Fault,
             Joins(n, 0 < cyc[c].add.large /\ labelled),
             drained' = IF drains THEN drained \cup {n} ELSE drained,
             cyc' = [cyc EXCEPT ![c].pc = "verify", ![c].node = n, ![c].add = Fewer(@)]
      PROVE  TypeInv'
  <2> DEFINE add == Fewer(cyc[c].add)
             r == [cyc[c] EXCEPT !.pc = "verify", !.node = n, !.add = add]
  <2>1. add \in AddRec
    BY <1>3, FewerOf
  <2>2. cyc' = [cyc EXCEPT ![c] = r]
    BY <1>4
  <2> HIDE DEF add
  <2>3. r \in CycRec /\ r.pc = "verify" /\ r.node = n /\ r.todo = cyc[c].todo
    BY <1>1, <2>1 DEF CycRec, AddRec
  <2>4. Planned(r)
    BY <1>3, <2>3 DEF Planned
  <2> HIDE DEF r
  <2>5. cyc' \in [Cycles -> CycRec] /\ LockInv' /\ PlanInv'
    BY <1>2, <2>2, <2>3, <2>4, CycStep
  <2>6. events' \in 0 .. MaxEvents /\ taken \in 0 .. events'
    BY <1>4, FaultType DEF TypeInv
  <2>7. /\ nodes' \subseteq Serials /\ big' \subseteq nodes' /\ reborn' \subseteq Serials
        /\ nodes \subseteq nodes' /\ n \in nodes'
    BY <1>4, JoinsType DEF TypeInv
  <2>8. drained' \subseteq nodes'
    BY <1>4, <2>7 DEF TypeInv, TypeOK
  <2> QED
    BY <2>5, <2>6, <2>7, <2>8 DEF TypeInv, TypeOK, AddNode
<1>5. ASSUME IF Full THEN NoFault ELSE Fault,
             cyc' = [cyc EXCEPT ![c].pc = "save", ![c].add = NoAdd],
             UNCHANGED <<Swarm, reborn>>
      PROVE  TypeInv'
  <2> DEFINE r == [cyc[c] EXCEPT !.pc = "save", !.add = NoAdd]
  <2>1. cyc' = [cyc EXCEPT ![c] = r]
    BY <1>5
  <2>2. r \in CycRec /\ r.pc = "save" /\ r.todo = cyc[c].todo
    BY <1>1, Resets DEF CycRec, AddRec
  <2>3. Planned(r)
    BY <1>3, <2>2 DEF Planned
  <2> HIDE DEF r
  <2>4. cyc' \in [Cycles -> CycRec] /\ LockInv' /\ PlanInv'
    BY <1>2, <2>1, <2>2, <2>3, CycStep
  <2>5. events' \in 0 .. MaxEvents /\ taken \in 0 .. events'
    BY <1>5, FaultType DEF TypeInv
  <2> QED
    BY <1>5, <2>4, <2>5 DEF TypeInv, TypeOK, AddNode, Swarm
<1> QED
  BY <1>4, <1>5 DEF AddNode

LEMMA VerifyTypes ==
  ASSUME TypeInv, NEW c \in Cycles, Verify(c)
  PROVE  TypeInv'
<1>1. /\ cyc[c] \in CycRec /\ cyc[c].pc = "verify" /\ Planned(cyc[c]) /\ lock' = lock
  BY DEF TypeInv, TypeOK, PlanInv, Verify
<1>2. lock' = c /\ \A d \in Cycles \ {c} : cyc[d].pc = "idle"
  BY <1>1, OthersIdle
<1>3. /\ cyc[c].add \in AddRec /\ cyc[c].todo = {}
  BY <1>1 DEF CycRec, AddRec, Planned
<1>4. /\ drained' \subseteq nodes'
      /\ events' \in 0 .. MaxEvents /\ taken \in 0 .. events'
  <2>1. drained' \subseteq nodes'
    BY DEF Verify, TypeInv, TypeOK
  <2>2. Fault \/ NoFault
    BY DEF Verify
  <2> QED
    BY <2>1, <2>2, FaultType DEF TypeInv
<1>5. ASSUME cyc' = [cyc EXCEPT ![c].pc = After(cyc[c].add, {}), ![c].node = Nowhere]
      PROVE  cyc' \in [Cycles -> CycRec] /\ LockInv' /\ PlanInv'
  <2> DEFINE pc == After(cyc[c].add, {})
             r == [cyc[c] EXCEPT !.pc = pc, !.node = Nowhere]
  <2>1. pc \in {"add", "save"} /\ (pc = "add" => 0 < Size(cyc[c].add))
    BY DEF After
  <2>2. cyc' = [cyc EXCEPT ![c] = r]
    BY <1>5
  <2> HIDE DEF pc
  <2>3. r \in CycRec /\ r.pc = pc /\ r.todo = {} /\ r.add = cyc[c].add
    BY <1>1, <1>3, <2>1 DEF CycRec
  <2>4. Planned(r)
    BY <2>1, <2>3 DEF Planned
  <2> HIDE DEF r
  <2> QED
    BY <1>2, <2>2, <2>3, <2>4, CycStep
<1>6. ASSUME cyc' = [cyc EXCEPT ![c].pc = "save", ![c].node = Nowhere, ![c].add = NoAdd]
      PROVE  cyc' \in [Cycles -> CycRec] /\ LockInv' /\ PlanInv'
  <2> DEFINE r == [cyc[c] EXCEPT !.pc = "save", !.node = Nowhere, !.add = NoAdd]
  <2>1. cyc' = [cyc EXCEPT ![c] = r]
    BY <1>6
  <2>2. r \in CycRec /\ r.pc = "save" /\ r.todo = {}
    BY <1>1, <1>3, Resets DEF CycRec, AddRec
  <2>3. Planned(r)
    BY <2>2 DEF Planned
  <2> HIDE DEF r
  <2> QED
    BY <1>2, <2>1, <2>2, <2>3, CycStep
<1>7. cyc' \in [Cycles -> CycRec] /\ LockInv' /\ PlanInv'
  BY <1>5, <1>6 DEF Verify
<1> QED
  BY <1>4, <1>7 DEF TypeInv, TypeOK, Verify, History

LEMMA RecheckTypes ==
  ASSUME TypeInv, NEW c \in Cycles, Recheck(c)
  PROVE  TypeInv'
<1>1. /\ cyc[c] \in CycRec /\ cyc[c].pc = "check" /\ Planned(cyc[c]) /\ lock' = lock
  BY DEF TypeInv, TypeOK, PlanInv, Recheck
<1>2. lock' = c /\ \A d \in Cycles \ {c} : cyc[d].pc = "idle"
  BY <1>1, OthersIdle
<1>3. PICK n \in cyc[c].todo :
        /\ Fault \/ NoFault
        /\ \/ cyc' = [cyc EXCEPT ![c].pc = "remove", ![c].todo = cyc[c].todo \ {n}, ![c].node = n]
           \/ cyc' = [cyc EXCEPT ![c].pc = After(NoAdd, cyc[c].todo \ {n}),
                                 ![c].todo = cyc[c].todo \ {n}]
  BY DEF Recheck
<1>4. n \in Serials /\ cyc[c].todo \ {n} \in SUBSET Serials
  BY <1>1 DEF CycRec
<1>5. events' \in 0 .. MaxEvents /\ taken \in 0 .. events'
  BY <1>3, FaultType DEF TypeInv
<1> DEFINE left == cyc[c].todo \ {n}
<1>6. ASSUME cyc' = [cyc EXCEPT ![c].pc = "remove", ![c].todo = cyc[c].todo \ {n}, ![c].node = n]
      PROVE  cyc' \in [Cycles -> CycRec] /\ LockInv' /\ PlanInv'
  <2> DEFINE r == [cyc[c] EXCEPT !.pc = "remove", !.todo = left, !.node = n]
  <2>1. cyc' = [cyc EXCEPT ![c] = r]
    BY <1>6
  <2> HIDE DEF left
  <2>2. r \in CycRec /\ r.pc = "remove" /\ r.node = n
    BY <1>1, <1>4 DEF CycRec, left
  <2>3. Planned(r)
    BY <1>4, <2>2 DEF Planned
  <2> HIDE DEF r
  <2> QED
    BY <1>2, <2>1, <2>2, <2>3, CycStep
<1>7. ASSUME cyc' = [cyc EXCEPT ![c].pc = After(NoAdd, cyc[c].todo \ {n}),
                                ![c].todo = cyc[c].todo \ {n}]
      PROVE  cyc' \in [Cycles -> CycRec] /\ LockInv' /\ PlanInv'
  <2> DEFINE pc == After(NoAdd, left)
             r == [cyc[c] EXCEPT !.pc = pc, !.todo = left]
  <2>1. pc \in {"check", "save"} /\ (pc # "check" => left = {})
    BY Resets DEF After
  <2>2. cyc' = [cyc EXCEPT ![c] = r]
    BY <1>7
  <2> HIDE DEF pc, left
  <2>3. r \in CycRec /\ r.pc = pc /\ r.todo = left
    BY <1>1, <1>4, <2>1 DEF CycRec, left
  <2>4. Planned(r)
    BY <2>1, <2>3 DEF Planned
  <2> HIDE DEF r
  <2> QED
    BY <1>2, <2>2, <2>3, <2>4, CycStep
<1>8. cyc' \in [Cycles -> CycRec] /\ LockInv' /\ PlanInv'
  BY <1>3, <1>6, <1>7
<1> QED
  BY <1>5, <1>8 DEF TypeInv, TypeOK, Recheck, Swarm, History

LEMMA RemoveNodeTypes ==
  ASSUME TypeInv, NEW c \in Cycles, RemoveNode(c)
  PROVE  TypeInv'
<1>1. /\ cyc[c] \in CycRec /\ cyc[c].pc = "remove" /\ lock' = lock
  BY DEF TypeInv, TypeOK, RemoveNode
<1>2. lock' = c /\ \A d \in Cycles \ {c} : cyc[d].pc = "idle"
  BY <1>1, OthersIdle
<1> DEFINE pc == After(NoAdd, cyc[c].todo)
           r == [cyc[c] EXCEPT !.pc = pc, !.node = Nowhere]
<1>3. pc \in {"check", "save"} /\ (pc # "check" => cyc[c].todo = {})
  BY Resets DEF After
<1>4. cyc' = [cyc EXCEPT ![c] = r]
  BY DEF RemoveNode
<1> HIDE DEF pc
<1>5. r \in CycRec /\ r.pc = pc /\ r.todo = cyc[c].todo
  BY <1>1, <1>3 DEF CycRec
<1>6. Planned(r)
  BY <1>3, <1>5 DEF Planned
<1> HIDE DEF r
<1>7. cyc' \in [Cycles -> CycRec] /\ LockInv' /\ PlanInv'
  BY <1>2, <1>4, <1>5, <1>6, CycStep
<1>8. events' \in 0 .. MaxEvents /\ taken \in 0 .. events'
  <2>1. Fault \/ NoFault
    BY DEF RemoveNode
  <2> QED
    BY <2>1, FaultType DEF TypeInv
<1>9. CASE Leaves(cyc[c].node)
  <2>1. /\ nodes' \subseteq Serials /\ big' \subseteq nodes' /\ drained' \subseteq nodes'
        /\ host' \in [Hosts -> HostRec] /\ seen' \in [Serials -> Ages]
        /\ reborn' \subseteq Serials
    BY <1>9, LeavesType DEF TypeInv
  <2> QED
    BY <1>7, <1>8, <2>1 DEF TypeInv, TypeOK, RemoveNode
<1>10. CASE UNCHANGED <<Swarm, host, seen, reborn>>
  BY <1>7, <1>8, <1>10 DEF TypeInv, TypeOK, RemoveNode, Swarm
<1>11. CASE /\ cyc[c].node \in nodes /\ drained' = drained \cup {cyc[c].node}
            /\ Evicts(cyc[c].node) /\ UNCHANGED <<nodes, big, seen, reborn>>
  <2>1. host' \in [Hosts -> HostRec]
    <3>1. ASSUME NEW h \in Hosts
          PROVE  [host[h] EXCEPT !.at = Nowhere] \in HostRec /\ host[h] \in HostRec
      BY DEF TypeInv, TypeOK, HostRec
    <3> QED
      BY <1>11, <3>1 DEF Evicts
  <2> QED
    BY <1>7, <1>8, <1>11, <2>1 DEF TypeInv, TypeOK, RemoveNode
<1> QED
  BY <1>9, <1>10, <1>11 DEF RemoveNode

LEMMA UnlockTypes ==
  ASSUME TypeInv, NEW c \in Cycles, cyc[c].pc # "idle", Unlock(c)
  PROVE  /\ cyc' \in [Cycles -> CycRec] /\ LockInv' /\ PlanInv'
         /\ lock' \in Cycles \cup {Free}
<1>1. cyc' = [cyc EXCEPT ![c] = Idle]
  BY DEF Unlock
<1>2. Planned(Idle)
  BY Resets DEF Planned
<1>3. \A d \in Cycles \ {c} : cyc[d].pc = "idle"
  BY OthersIdle
<1>4. cyc' \in [Cycles -> CycRec] /\ LockInv' /\ PlanInv'
  BY <1>1, <1>2, <1>3, Resets, CycStep
<1> QED
  BY <1>4 DEF Unlock

LEMMA LostTypes ==
  ASSUME TypeInv, NEW c \in Cycles, Lost(c), UNCHANGED nodes
  PROVE  /\ sidecar' \in [Serials -> Ages] /\ reborn' \subseteq Serials
         /\ events' \in 0 .. MaxEvents /\ taken \in 0 .. events'
<1>1. events' \in 0 .. MaxEvents /\ taken \in 0 .. events'
  BY FaultType DEF TypeInv, Lost
<1> QED
  BY <1>1 DEF Lost, TypeInv, TypeOK

LEMMA SaveTypes ==
  ASSUME TypeInv, NEW c \in Cycles, Save(c)
  PROVE  TypeInv'
<1>1. /\ cyc' \in [Cycles -> CycRec] /\ LockInv' /\ PlanInv'
      /\ lock' \in Cycles \cup {Free}
  BY UnlockTypes DEF Save
<1>2. /\ sidecar' \in [Serials -> Ages] /\ reborn' \subseteq Serials
      /\ events' \in 0 .. MaxEvents /\ taken \in 0 .. events'
  <2>1. CASE Lost(c)
    BY <2>1, LostTypes DEF Save, Unlock, Swarm
  <2>2. CASE /\ NoFault /\ sidecar' = cyc[c].empty
             /\ reborn' = {n \in reborn : cyc[c].empty[n] # "none"}
    BY <2>2, FaultType DEF TypeInv, TypeOK, CycRec
  <2> QED
    BY <2>1, <2>2 DEF Save
<1> QED
  BY <1>1, <1>2 DEF TypeInv, TypeOK, Save, Unlock, Swarm

LEMMA CutTypes ==
  ASSUME TypeInv, NEW c \in Cycles, Cut(c)
  PROVE  TypeInv'
<1>1. /\ cyc' \in [Cycles -> CycRec] /\ LockInv' /\ PlanInv'
      /\ lock' \in Cycles \cup {Free}
  BY UnlockTypes DEF Cut
<1>2. /\ sidecar' \in [Serials -> Ages] /\ reborn' \subseteq Serials
      /\ events' \in 0 .. MaxEvents /\ taken \in 0 .. events'
  BY LostTypes DEF Cut, Unlock, Swarm
<1> QED
  BY <1>1, <1>2 DEF TypeInv, TypeOK, Cut, Unlock, Swarm

LEMMA HandAddTypes == ASSUME TypeInv, HandAdd PROVE TypeInv'
<1>1. PICK n \in Serials, large \in BOOLEAN : Joins(n, large)
  BY DEF HandAdd
<1>2. /\ nodes' \subseteq Serials /\ big' \subseteq nodes' /\ reborn' \subseteq Serials
      /\ nodes \subseteq nodes'
  BY <1>1, JoinsType DEF TypeInv
<1>3. events' \in 0 .. MaxEvents /\ taken \in 0 .. events'
  BY CostsType DEF TypeInv, HandAdd, ByOperator
<1>4. TypeOK'
  BY <1>2, <1>3 DEF TypeInv, TypeOK, HandAdd
<1>5. LockInv' /\ PlanInv'
  BY DEF TypeInv, LockInv, PlanInv, HandAdd
<1> QED
  BY <1>4, <1>5 DEF TypeInv

LEMMA HandRemoveTypes == ASSUME TypeInv, HandRemove PROVE TypeInv'
<1>1. PICK n \in Workers : Leaves(n)
  BY DEF HandRemove
<1>2. /\ nodes' \subseteq Serials /\ big' \subseteq nodes' /\ drained' \subseteq nodes'
      /\ host' \in [Hosts -> HostRec] /\ seen' \in [Serials -> Ages]
      /\ reborn' \subseteq Serials
  BY <1>1, LeavesType DEF TypeInv
<1>3. events' \in 0 .. MaxEvents /\ taken' \in 0 .. events'
  BY AutoscaleAssumption DEF TypeInv, TypeOK, HandRemove, ByOperator, Costs
<1>4. TypeOK'
  BY <1>2, <1>3 DEF TypeInv, TypeOK, HandRemove
<1>5. LockInv' /\ PlanInv'
  BY DEF TypeInv, LockInv, PlanInv, HandRemove
<1> QED
  BY <1>4, <1>5 DEF TypeInv

LEMMA DemandsTypes == ASSUME TypeInv, Demands PROVE TypeInv'
<1>1. host' \in [Hosts -> HostRec] /\ prescale' \in Prescales
  <2>1. CASE UNCHANGED host /\ prescale' \in Prescales
    BY <2>1 DEF TypeInv, TypeOK
  <2>2. ASSUME NEW h \in Hosts, HostStep(h), UNCHANGED prescale
        PROVE  host' \in [Hosts -> HostRec]
    <3>1. /\ host[h].st \in {"off", "starting", "ready", "quiet"}
          /\ host[h].at \in Serials \cup {Nowhere}
      BY DEF TypeInv, TypeOK, HostRec
    <3>2. \A n \in Workers : n \in Serials
      BY DEF TypeInv, TypeOK, Workers
    <3>3. PICK st \in {"off", "starting", "ready", "quiet"}, at \in Serials \cup {Nowhere} :
            Becomes(h, st, at)
      BY <2>2, <3>1, <3>2 DEF HostStep
    <3>4. [st |-> st, at |-> at] \in HostRec
      BY DEF HostRec
    <3> QED
      BY <3>3, <3>4 DEF Becomes, TypeInv, TypeOK
  <2>3. UNCHANGED prescale => prescale' \in Prescales
    BY DEF TypeInv, TypeOK
  <2> QED
    BY <2>1, <2>2, <2>3 DEF Demands
<1>2. TypeOK'
  BY <1>1 DEF TypeInv, TypeOK, Demands, Swarm, History
<1>3. LockInv' /\ PlanInv'
  BY DEF TypeInv, LockInv, PlanInv, Demands
<1> QED
  BY <1>2, <1>3 DEF TypeInv

LEMMA TypeStep == TypeInv /\ [Next]_vars => TypeInv'
<1> SUFFICES ASSUME TypeInv, [Next]_vars PROVE TypeInv'
  OBVIOUS
<1>1. ASSUME NEW c \in Cycles, Begin(c) \/ Step(c) \/ Cut(c)
      PROVE  TypeInv'
  BY <1>1, BeginTypes, GatherTypes, AddNodeTypes, VerifyTypes, RecheckTypes,
     RemoveNodeTypes, SaveTypes, CutTypes DEF Step
<1>2. CASE UNCHANGED vars
  <2>1. TypeOK'
    BY <1>2 DEF vars, TypeInv, TypeOK
  <2>2. LockInv' /\ PlanInv'
    BY <1>2 DEF vars, TypeInv, LockInv, PlanInv
  <2> QED
    BY <2>1, <2>2 DEF TypeInv
<1> QED
  BY <1>1, <1>2, HandAddTypes, HandRemoveTypes, DemandsTypes DEF Next

\* Every variable of Autoscale keeps its type.
THEOREM Types == Spec => []TypeOK
<1>1. TypeInv => TypeOK
  BY DEF TypeInv
<1> QED
  BY <1>1, TypeInit, TypeStep, PTL DEF Spec

-----------------------------------------------------------------------------
(* The floor of the workers. *)

\* What a cycle has still to remove.
Pending(c) == cyc[c].todo \cup (IF cyc[c].pc = "remove" THEN {cyc[c].node} ELSE {})

FloorInv ==
  /\ FloorHeld
  /\ \A c \in Cycles : MinWorkers <= Cardinality(Workers \ Pending(c)) + taken

LEMMA WorkersFinite ==
  ASSUME TypeOK
  PROVE  /\ Workers \in SUBSET Serials
         /\ \A S \in SUBSET Workers : IsFiniteSet(S) /\ Cardinality(S) \in Nat
         /\ \A T \in SUBSET Workers : \A S \in SUBSET T : Cardinality(S) <= Cardinality(T)
<1>1. Workers \in SUBSET Serials
  BY DEF TypeOK, Workers
<1>2. \A S \in SUBSET Workers : IsFiniteSet(S) /\ Cardinality(S) \in Nat
  BY <1>1, SerialsFinite
<1>3. ASSUME NEW T \in SUBSET Workers, NEW S \in SUBSET T
      PROVE  Cardinality(S) <= Cardinality(T)
  BY <1>2, FS_Subset
<1> QED
  BY <1>1, <1>2, <1>3

\* More workers, and less to remove.
LEMMA FloorKept ==
  ASSUME TypeOK, TypeOK', FloorInv, Workers \subseteq Workers', UNCHANGED taken,
         \A c \in Cycles : Pending(c)' \subseteq Pending(c)
  PROVE  FloorInv'
<1>1. ASSUME NEW S \in SUBSET Workers', NEW T \in SUBSET S
      PROVE  /\ Cardinality(T) \in Nat /\ Cardinality(S) \in Nat
             /\ Cardinality(T) <= Cardinality(S)
  <2>1. Workers' \in SUBSET Serials
    BY DEF TypeOK, Workers
  <2>2. IsFiniteSet(S) /\ Cardinality(S) \in Nat /\ IsFiniteSet(T) /\ Cardinality(T) \in Nat
    BY <2>1, SerialsFinite
  <2> QED
    BY <2>2, FS_Subset
<1>2. taken \in Nat /\ taken' = taken
  BY AutoscaleAssumption DEF TypeOK
<1>3. FloorHeld'
  <2>1. Cardinality(Workers) <= Cardinality(Workers') /\ Cardinality(Workers) \in Nat
        /\ Cardinality(Workers') \in Nat
    BY <1>1
  <2> QED
    BY <1>2, <2>1, ScalePlanAssumption DEF FloorInv, FloorHeld
<1>4. ASSUME NEW c \in Cycles
      PROVE  MinWorkers <= Cardinality(Workers' \ Pending(c)') + taken'
  <2>1. Workers \ Pending(c) \in SUBSET (Workers' \ Pending(c)')
    OBVIOUS
  <2>2. /\ Cardinality(Workers \ Pending(c)) <= Cardinality(Workers' \ Pending(c)')
        /\ Cardinality(Workers \ Pending(c)) \in Nat
        /\ Cardinality(Workers' \ Pending(c)') \in Nat
    BY <1>1, <2>1
  <2> QED
    BY <1>2, <2>2, ScalePlanAssumption DEF FloorInv
<1> QED
  BY <1>3, <1>4 DEF FloorInv

LEMMA IdlePending ==
  ASSUME TypeInv, NEW c \in Cycles, cyc[c].pc \notin {"check", "remove"}
  PROVE  Pending(c) = {}
BY DEF TypeInv, PlanInv, Planned, Pending

LEMMA FloorInit == Init => FloorInv
<1> SUFFICES ASSUME Init PROVE FloorInv
  OBVIOUS
<1>1. TypeInv /\ taken = 0 /\ \A c \in Cycles : cyc[c] = Idle
  BY TypeInit DEF Init
<1>2. PICK workers \in SUBSET (Serials \ Managers) :
        MinWorkers <= Cardinality(workers) /\ nodes = Managers \cup workers
  BY DEF Init
<1>3. Workers = workers
  BY <1>2 DEF Workers
<1>4. Cardinality(workers) \in Nat
  BY SerialsFinite
<1>5. FloorHeld
  BY <1>1, <1>2, <1>3, <1>4, ScalePlanAssumption DEF FloorHeld
<1>6. ASSUME NEW c \in Cycles
      PROVE  Workers \ Pending(c) = Workers
  BY <1>1, Resets, IdlePending
<1> QED
  BY <1>5, <1>6 DEF FloorInv, FloorHeld

\* Every step that removes no node and plans no removal.
LEMMA FloorOthers ==
  ASSUME TypeInv, TypeInv', FloorInv, NEW c \in Cycles,
         nodes \subseteq nodes', UNCHANGED taken,
         \A d \in Cycles \ {c} : cyc'[d] = cyc[d],
         Pending(c)' \subseteq Pending(c)
  PROVE  FloorInv'
<1>1. \A d \in Cycles : Pending(d)' \subseteq Pending(d)
  BY DEF Pending
<1>2. Workers \subseteq Workers'
  BY DEF Workers
<1> QED
  BY <1>1, <1>2, FloorKept DEF TypeInv

LEMMA FloorGather ==
  ASSUME TypeInv, TypeInv', FloorInv, NEW c \in Cycles, Gather(c)
  PROVE  FloorInv'
<1>1. PICK aged \in SUBSET Workers, forced \in BOOLEAN, add \in AddRec,
           todo \in SUBSET Workers, adds \in AddRec, removes \in SUBSET Workers :
        /\ c \in Cron => ~forced
        /\ IsPlan(cyc[c].on, Since(cyc[c].on, aged), forced, add, todo)
        /\ adds = add \/ adds = NoAdd
        /\ removes = todo \/ removes = {}
        /\ cyc' = [cyc EXCEPT ![c] =
                     [pc |-> After(adds, removes), on |-> Uncounted,
                      empty |-> Since(cyc[c].on, aged),
                      add |-> adds, todo |-> removes, node |-> Nowhere]]
        /\ seen' = Counted(cyc[c].on, aged)
  BY GatherPlan, Zenon
<1>2. cyc \in [Cycles -> CycRec]
  BY DEF TypeInv, TypeOK
<1>3. /\ cyc'[c].todo = removes /\ cyc'[c].pc = After(adds, removes)
      /\ \A d \in Cycles \ {c} : cyc'[d] = cyc[d]
  BY <1>1, <1>2
<1>4. nodes' = nodes /\ taken' = taken
  BY DEF Gather, Swarm
<1>5. Pending(c)' = removes
  BY <1>3 DEF Pending, After
<1>6. CASE removes = {}
  BY <1>3, <1>4, <1>5, <1>6, FloorOthers
<1>7. CASE removes # {}
  <2>1. /\ todo = removes
        /\ IsSelection(todo, Candidates(cyc[c].on, Since(cyc[c].on, aged), forced), Workers,
                       big, Load(cyc[c].on))
    BY <1>1, <1>7 DEF IsPlan
  <2>2. Load(cyc[c].on) \in Nat
    BY FS_Subset, FS_CardinalityType, AutoscaleAssumption DEF Load
  <2>3. Workers \in SUBSET Serials
    BY DEF TypeInv, TypeOK, Workers
  <2>4. MinWorkers <= Cardinality(Workers \ removes)
    BY <1>7, <2>1, <2>2, <2>3, SelectionLeaves
  <2>5. Cardinality(Workers \ removes) \in Nat /\ taken \in Nat
    BY <2>3, SerialsFinite, AutoscaleAssumption DEF TypeInv, TypeOK
  <2>6. Workers' = Workers
    BY <1>4 DEF Workers
  <2>7. MinWorkers <= Cardinality(Workers' \ Pending(c)') + taken'
    BY <1>4, <1>5, <2>4, <2>5, <2>6, ScalePlanAssumption
  <2>8. ASSUME NEW d \in Cycles, d # c
        PROVE  Pending(d)' = Pending(d)
    BY <1>3, <2>8 DEF Pending
  <2>9. ASSUME NEW d \in Cycles
        PROVE  MinWorkers <= Cardinality(Workers' \ Pending(d)') + taken'
    <3>1. CASE d = c
      BY <2>7, <3>1
    <3>2. CASE d # c
      BY <1>4, <2>6, <2>8, <3>2 DEF FloorInv
    <3> QED
      BY <3>1, <3>2
  <2>10. FloorHeld'
    BY <1>4, <2>6 DEF FloorInv, FloorHeld
  <2> QED
    BY <2>9, <2>10 DEF FloorInv
<1> QED
  BY <1>6, <1>7

\* A cycle that removes a node meant to.
LEMMA FloorRemoveNode ==
  ASSUME TypeInv, TypeInv', FloorInv, NEW c \in Cycles, RemoveNode(c)
  PROVE  FloorInv'
<1>1. cyc \in [Cycles -> CycRec] /\ cyc[c].pc = "remove"
  BY DEF TypeInv, TypeOK, RemoveNode
<1>2. /\ cyc'[c].todo = cyc[c].todo /\ cyc'[c].pc = After(NoAdd, cyc[c].todo)
      /\ \A d \in Cycles \ {c} : cyc'[d] = cyc[d]
  BY <1>1 DEF RemoveNode, CycRec
<1>3. /\ Pending(c)' = cyc[c].todo
      /\ Pending(c) = cyc[c].todo \cup {cyc[c].node}
  BY <1>1, <1>2 DEF Pending, After
<1>4. taken' = taken
  BY DEF RemoveNode
<1>5. CASE UNCHANGED nodes
  BY <1>2, <1>3, <1>4, <1>5, FloorOthers
<1>6. CASE Leaves(cyc[c].node)
  <2>1. /\ Workers' = Workers \ {cyc[c].node}
        /\ Workers \ Pending(c) \in SUBSET Workers'
        /\ (Workers \ Pending(c)) \in SUBSET (Workers' \ Pending(c)')
    BY <1>3, <1>6 DEF Workers, Leaves
  <2>2. \A d \in Cycles \ {c} : Pending(d)' = {}
    <3>1. \A d \in Cycles \ {c} : cyc[d].pc = "idle" /\ Pending(d) = {}
      BY <1>1, OthersIdle, IdlePending
    <3> QED
      BY <1>2, <3>1 DEF Pending
  <2>3. MinWorkers <= Cardinality(Workers \ Pending(c)) + taken /\ taken \in Nat
    BY AutoscaleAssumption DEF FloorInv, TypeInv, TypeOK
  <2>4. /\ Workers' \in SUBSET Serials
        /\ \A T \in SUBSET Workers' : \A S \in SUBSET T :
             /\ Cardinality(S) \in Nat /\ Cardinality(T) \in Nat
             /\ Cardinality(S) <= Cardinality(T)
    <3>1. Workers' \in SUBSET Serials
      BY DEF TypeInv, TypeOK, Workers
    <3> QED
      BY <3>1, SerialsFinite, FS_Subset
  <2>5. MinWorkers <= Cardinality(Workers' \ Pending(c)') + taken'
    BY <1>4, <2>1, <2>3, <2>4, ScalePlanAssumption
  <2>6. MinWorkers <= Cardinality(Workers') + taken'
    BY <1>4, <2>1, <2>3, <2>4, ScalePlanAssumption
  <2>7. ASSUME NEW d \in Cycles
        PROVE  MinWorkers <= Cardinality(Workers' \ Pending(d)') + taken'
    <3>1. CASE d = c
      BY <2>5, <3>1
    <3>2. CASE d # c
      <4>1. Workers' \ Pending(d)' = Workers'
        BY <2>2, <3>2
      <4> QED
        BY <2>6, <4>1
    <3> QED
      BY <3>1, <3>2
  <2> QED
    BY <2>6, <2>7 DEF FloorInv, FloorHeld
<1> QED
  BY <1>5, <1>6 DEF RemoveNode, Swarm

\* A node removed by hand is one fewer, whatever a cycle means to remove.
LEMMA FloorHandRemove ==
  ASSUME TypeInv, FloorInv, HandRemove
  PROVE  FloorInv'
<1>1. PICK n \in Workers : Leaves(n)
  BY DEF HandRemove
<1>2. Workers' = Workers \ {n} /\ taken' = taken + 1 /\ cyc' = cyc
  BY <1>1 DEF Workers, Leaves, HandRemove
<1>3. ASSUME NEW S \in SUBSET Workers, MinWorkers <= Cardinality(S) + taken
      PROVE  MinWorkers <= Cardinality(S \ {n}) + taken'
  <2>1. IsFiniteSet(S) /\ Cardinality(S) \in Nat /\ taken \in Nat
    BY SerialsFinite, AutoscaleAssumption DEF TypeInv, TypeOK, Workers
  <2>2. CASE n \in S
    <3>1. Cardinality(S \ {n}) = Cardinality(S) - 1
      BY <2>1, <2>2, FS_RemoveElement
    <3> QED
      BY <1>2, <1>3, <2>1, <3>1, ScalePlanAssumption
  <2>3. CASE n \notin S
    <3>1. S \ {n} = S
      BY <2>3
    <3> QED
      BY <1>2, <1>3, <2>1, <3>1, ScalePlanAssumption
  <2> QED
    BY <2>2, <2>3
<1>4. FloorHeld'
  BY <1>2, <1>3 DEF FloorInv, FloorHeld
<1>5. ASSUME NEW c \in Cycles
      PROVE  MinWorkers <= Cardinality(Workers' \ Pending(c)') + taken'
  <2>1. Workers' \ Pending(c)' = (Workers \ Pending(c)) \ {n}
    BY <1>2 DEF Pending
  <2>2. MinWorkers <= Cardinality((Workers \ Pending(c)) \ {n}) + taken'
    BY <1>3 DEF FloorInv
  <2> QED
    BY <2>1, <2>2
<1> QED
  BY <1>4, <1>5 DEF FloorInv

LEMMA FloorHandAdd ==
  ASSUME TypeInv, TypeInv', FloorInv, HandAdd
  PROVE  FloorInv'
<1>1. Workers \subseteq Workers' /\ taken' = taken /\ cyc' = cyc
  BY DEF Workers, HandAdd, Joins
<1> QED
  BY <1>1, FloorKept DEF TypeInv, Pending

\* The steps of a cycle that leave what is pending, or drop some of it.
LEMMA FloorCycle ==
  ASSUME TypeInv, TypeInv', FloorInv, NEW c \in Cycles,
         Begin(c) \/ AddNode(c) \/ Verify(c) \/ Recheck(c) \/ Save(c) \/ Cut(c)
  PROVE  FloorInv'
<1>1. cyc \in [Cycles -> CycRec] /\ cyc[c] \in CycRec
  BY DEF TypeInv, TypeOK
<1>2. nodes \subseteq nodes' /\ taken' = taken
  BY DEF Begin, AddNode, Verify, Recheck, Save, Cut, Unlock, Swarm, History, Joins
<1>3. \A d \in Cycles \ {c} : cyc'[d] = cyc[d]
  BY <1>1 DEF Begin, AddNode, Verify, Recheck, Save, Cut, Unlock
<1>4. Pending(c)' \subseteq Pending(c)
  <2>1. CASE Begin(c)
    <3>1. PICK on : cyc' = [cyc EXCEPT ![c].pc = "gather", ![c].on = on]
      BY <2>1 DEF Begin
    <3>2. cyc'[c].todo = cyc[c].todo /\ cyc'[c].pc = "gather"
      BY <1>1, <3>1 DEF CycRec
    <3> QED
      BY <3>2 DEF Pending
  <2>2. CASE AddNode(c)
    <3>1. PICK n, add :
            \/ cyc' = [cyc EXCEPT ![c].pc = "verify", ![c].node = n, ![c].add = add]
            \/ cyc' = [cyc EXCEPT ![c].pc = "save", ![c].add = add]
      BY <2>2 DEF AddNode
    <3>2. cyc'[c].todo = cyc[c].todo /\ cyc'[c].pc # "remove"
      BY <1>1, <3>1 DEF CycRec
    <3> QED
      BY <3>2 DEF Pending
  <2>3. CASE Verify(c)
    <3>1. cyc'[c].todo = cyc[c].todo /\ cyc'[c].pc # "remove"
      BY <1>1, <2>3 DEF Verify, CycRec, After
    <3> QED
      BY <3>1 DEF Pending
  <2>4. CASE Recheck(c)
    <3>1. PICK n \in cyc[c].todo :
            \/ cyc' = [cyc EXCEPT ![c].pc = "remove", ![c].todo = cyc[c].todo \ {n}, ![c].node = n]
            \/ cyc' = [cyc EXCEPT ![c].pc = After(NoAdd, cyc[c].todo \ {n}),
                                  ![c].todo = cyc[c].todo \ {n}]
      BY <2>4 DEF Recheck
    <3>2. /\ cyc'[c].todo = cyc[c].todo \ {n}
          /\ cyc'[c].pc = "remove" => cyc'[c].node = n
      BY <1>1, <3>1 DEF CycRec, After
    <3> QED
      BY <3>2 DEF Pending
  <2>5. CASE Save(c) \/ Cut(c)
    <3>1. cyc'[c] = Idle
      BY <1>1, <2>5 DEF Save, Cut, Unlock
    <3> QED
      BY <3>1, Resets DEF Pending
  <2> QED
    BY <2>1, <2>2, <2>3, <2>4, <2>5
<1> QED
  BY <1>2, <1>3, <1>4, FloorOthers

LEMMA FloorStep == TypeInv /\ FloorInv /\ [Next]_vars => FloorInv'
<1> SUFFICES ASSUME TypeInv, FloorInv, [Next]_vars PROVE FloorInv'
  OBVIOUS
<1>1. TypeInv'
  BY TypeStep
<1>2. ASSUME NEW c \in Cycles, Begin(c) \/ Step(c) \/ Cut(c)
      PROVE  FloorInv'
  BY <1>1, <1>2, FloorCycle, FloorGather, FloorRemoveNode DEF Step
<1>3. CASE UNCHANGED <<nodes, cyc, taken>>
  <2>1. Workers' = Workers /\ \A c \in Cycles : Pending(c)' = Pending(c)
    BY <1>3 DEF Workers, Pending
  <2> QED
    BY <1>1, <1>3, <2>1, FloorKept DEF TypeInv
<1>4. Demands => UNCHANGED <<nodes, cyc, taken>>
  BY DEF Demands, Swarm, History
<1>5. UNCHANGED vars => UNCHANGED <<nodes, cyc, taken>>
  BY DEF vars
<1> QED
  BY <1>1, <1>2, <1>3, <1>4, <1>5, FloorHandAdd, FloorHandRemove DEF Next

\* Whatever is added or removed by hand while a cycle runs, and however a cycle
\* dies, the autoscaler leaves the least number of workers: what a cycle has still
\* to remove never takes the cluster below it.
THEOREM Floor == Spec => []FloorHeld
<1>1. TypeInv /\ FloorInv => FloorHeld
  BY DEF FloorInv
<1>2. Init => TypeInv /\ FloorInv
  BY TypeInit, FloorInit
<1>3. (TypeInv /\ FloorInv) /\ [Next]_vars => (TypeInv /\ FloorInv)'
  BY TypeStep, FloorStep
<1> QED
  BY <1>1, <1>2, <1>3, PTL DEF Spec

-----------------------------------------------------------------------------
(* What a plan leaves. *)

LEMMA IntDeficit ==
  ASSUME TypeOK, NEW workers \in SUBSET Workers
  PROVE  /\ Wanted \in Int /\ Capacity(workers, big) \in Int
         /\ Deficit(workers) = Wanted - Capacity(workers, big) /\ Deficit(workers) \in Int
<1>1. IsFiniteSet(workers)
  BY SerialsFinite DEF TypeOK, Workers
<1>2. Capacity(workers, big) \in Int
  BY <1>1, CapacityOf
<1>3. \A states : Cardinality(InState(states)) \in Nat
  <2>1. ASSUME NEW states
        PROVE  Cardinality(InState(states)) \in Nat
    <3>1. InState(states) \subseteq Hosts
      BY DEF InState
    <3> QED
      BY <3>1, FS_Subset, FS_CardinalityType, AutoscaleAssumption
  <2> QED
    BY <2>1
<1>4. prescale \in Nat
  BY AutoscaleAssumption DEF TypeOK
<1>5. Wanted \in Int
  BY <1>3, <1>4, ScalePlanAssumption DEF Wanted, Demand, Most
<1> HIDE DEF Wanted
<1> QED
  BY <1>2, <1>5 DEF Deficit

\* After its snapshot a cycle has a plan, or is gone.
LEMMA Replanned ==
  ASSUME TypeInv, [Next]_vars, NEW c \in Cycles, cyc[c].pc = "gather"
  PROVE  Gather(c) \/ (cyc'[c].add = NoAdd /\ cyc'[c].todo = {})
<1>1. cyc \in [Cycles -> CycRec]
  BY DEF TypeInv, TypeOK
<1>2. cyc[c].add = NoAdd /\ cyc[c].todo = {}
  BY DEF TypeInv, PlanInv, Planned
<1>3. lock = c /\ \A d \in Cycles \ {c} : cyc[d].pc = "idle"
  BY OthersIdle
<1>4. ASSUME NEW d \in Cycles, Begin(d) \/ Step(d) \/ Cut(d)
      PROVE  Gather(c) \/ cyc'[c] = Idle
  <2>1. c # Free
    BY AutoscaleAssumption
  <2>2. ~Begin(d)
    BY <1>3, <2>1 DEF Begin
  <2>3. d = c
    BY <1>3, <1>4, <2>2 DEF Step, Gather, AddNode, Verify, Recheck, RemoveNode, Save, Cut
  <2>4. Gather(c) \/ Cut(c)
    BY <1>4, <2>2, <2>3 DEF Step, AddNode, Verify, Recheck, RemoveNode, Save
  <2> QED
    BY <1>1, <2>4 DEF Cut, Unlock
<1>5. CASE UNCHANGED cyc
  BY <1>2, <1>5
<1>6. UNCHANGED vars \/ HandAdd \/ HandRemove \/ Demands => UNCHANGED cyc
  BY DEF vars, HandAdd, HandRemove, Demands
<1> QED
  BY <1>4, <1>5, <1>6, Resets DEF Next

LEMMA ScaleUpStep ==
  ASSUME TypeInv, [Next]_vars, NEW c \in Cycles, cyc[c].pc = "gather",
         0 < Size(cyc'[c].add)
  PROVE  /\ Deficit(Workers) <= Brings(cyc'[c].add) \/ Size(cyc'[c].add) = MaxAdd
         /\ Brings(Fewer(cyc'[c].add)) < Deficit(Workers)
<1>1. Gather(c)
  <2>1. ~(0 < 0)
    OBVIOUS
  <2> QED
    BY <2>1, Replanned, Resets
<1>2. PICK aged \in SUBSET Workers, forced \in BOOLEAN, add \in AddRec,
           todo \in SUBSET Workers, adds \in AddRec, removes \in SUBSET Workers :
        /\ c \in Cron => ~forced
        /\ IsPlan(cyc[c].on, Since(cyc[c].on, aged), forced, add, todo)
        /\ adds = add \/ adds = NoAdd
        /\ removes = todo \/ removes = {}
        /\ cyc' = [cyc EXCEPT ![c] =
                     [pc |-> After(adds, removes), on |-> Uncounted,
                      empty |-> Since(cyc[c].on, aged),
                      add |-> adds, todo |-> removes, node |-> Nowhere]]
        /\ seen' = Counted(cyc[c].on, aged)
  BY <1>1, GatherPlan, Zenon
<1>3. cyc'[c].add = adds
  BY <1>2 DEF TypeInv, TypeOK
<1>4. adds = add /\ add # NoAdd
  BY <1>2, <1>3, Resets
<1>5. 0 < Deficit(Workers) /\ add = ScaleUp(Deficit(Workers))
  BY <1>2, <1>4 DEF IsPlan
<1>6. Deficit(Workers) \in Int
  BY IntDeficit DEF TypeInv
<1> QED
  BY <1>3, <1>4, <1>5, <1>6, ScaleUpOf

\* For any tiers, headroom and cap, a plan adds what covers the deficit and no
\* node more, or as much as a cycle may.
THEOREM ScaleUpSound == Spec => ScaleUpFits
<1>1. TypeInv /\ [Next]_vars =>
        [\A c \in Cycles :
           LET add == cyc'[c].add
               deficit == Deficit(Workers)
           IN  cyc[c].pc = "gather" /\ 0 < Size(add) =>
                 /\ deficit <= Brings(add) \/ Size(add) = MaxAdd
                 /\ Brings(Fewer(add)) < deficit]_vars
  BY ScaleUpStep
<1> QED
  BY <1>1, TypeInit, TypeStep, PTL DEF Spec, ScaleUpFits

LEMMA RemovalStep ==
  ASSUME TypeInv, [Next]_vars, NEW c \in Cycles, cyc[c].pc = "gather", cyc'[c].todo # {},
         Wanted <= Load(cyc[c].on) + Headroom
  PROVE  Deficit(Workers \ cyc'[c].todo) <= 0
<1>1. Gather(c)
  BY Replanned
<1>2. PICK aged \in SUBSET Workers, forced \in BOOLEAN, add \in AddRec,
           todo \in SUBSET Workers, adds \in AddRec, removes \in SUBSET Workers :
        /\ c \in Cron => ~forced
        /\ IsPlan(cyc[c].on, Since(cyc[c].on, aged), forced, add, todo)
        /\ adds = add \/ adds = NoAdd
        /\ removes = todo \/ removes = {}
        /\ cyc' = [cyc EXCEPT ![c] =
                     [pc |-> After(adds, removes), on |-> Uncounted,
                      empty |-> Since(cyc[c].on, aged),
                      add |-> adds, todo |-> removes, node |-> Nowhere]]
        /\ seen' = Counted(cyc[c].on, aged)
  BY <1>1, GatherPlan, Zenon
<1>3. cyc'[c].todo = removes
  BY <1>2 DEF TypeInv, TypeOK
<1>4. /\ removes = todo /\ todo # {}
      /\ IsSelection(todo, Candidates(cyc[c].on, Since(cyc[c].on, aged), forced), Workers,
                     big, Load(cyc[c].on))
  BY <1>2, <1>3 DEF IsPlan
<1>5. Load(cyc[c].on) \in Nat
  BY FS_Subset, FS_CardinalityType, AutoscaleAssumption DEF Load
<1>6. Workers \in SUBSET Serials
  BY DEF TypeInv, TypeOK, Workers
<1>7. Load(cyc[c].on) + Headroom < Capacity(Workers \ todo, big)
  BY <1>4, <1>5, <1>6, SelectionLeaves
<1>8. Workers \ todo \in SUBSET Workers
  OBVIOUS
<1>9. /\ Wanted \in Int /\ Capacity(Workers \ todo, big) \in Int
      /\ Deficit(Workers \ todo) = Wanted - Capacity(Workers \ todo, big)
  BY <1>8, IntDeficit DEF TypeInv
<1> QED
  BY <1>3, <1>4, <1>5, <1>7, <1>9, ScalePlanAssumption

\* For any tiers and headroom, what a cycle removes is not missing in the next
\* while the hosts that run are what is called for.
THEOREM RemovalSound == Spec => NotUndone
<1>1. TypeInv /\ [Next]_vars =>
        [\A c \in Cycles :
           cyc[c].pc = "gather" /\ cyc'[c].todo # {} /\ Wanted <= Load(cyc[c].on) + Headroom
           => Deficit(Workers \ cyc'[c].todo) <= 0]_vars
  BY RemovalStep
<1> QED
  BY <1>1, TypeInit, TypeStep, PTL DEF Spec, NotUndone

-----------------------------------------------------------------------------
(* The cooldown. *)

\* a is no longer than b.
Shorter(a, b) == a = "none" \/ b = "old" \/ a = b

\* A cycle has dropped n's entry and has not saved the file yet.
Dropped(n) == \E c \in Cycles : cyc[c].pc \notin {"idle", "gather"} /\ cyc[c].empty[n] = "none"

\* No entry, in the file or in a cycle, says more than the gathers have counted.
SeenInv ==
  \A n \in nodes \ reborn :
    /\ Shorter(sidecar[n], seen[n]) \/ Dropped(n)
    /\ \A c \in Cycles : Shorter(cyc[c].empty[n], seen[n])

LEMMA EntryOf ==
  ASSUME NEW a \in Ages, NEW b \in Ages, Shorter(a, b), NEW empty \in BOOLEAN,
         NEW aged \in BOOLEAN
  PROVE  /\ Entry(a, empty, aged) \in Ages
         /\ Shorter(Entry(a, empty, aged), Entry(b, empty, aged))
         /\ empty => Shorter(a, Entry(b, empty, aged))
         /\ ~empty => Entry(a, empty, aged) = "none"
BY DEF Ages, Shorter, Entry

LEMMA SeenInit == Init => SeenInv
<1> SUFFICES ASSUME Init, NEW n \in nodes
             PROVE  /\ sidecar[n] = "none"
                    /\ \A c \in Cycles : cyc[c].empty[n] = "none"
  BY DEF SeenInv, Shorter
<1>1. n \in Serials
  BY TypeInit DEF TypeInv, TypeOK
<1>2. Never[n] = "none"
  BY <1>1 DEF Never
<1>3. \A c \in Cycles : cyc[c] = Idle
  BY DEF Init
<1> QED
  BY <1>2, <1>3, Resets DEF Init

\* The steps that change no entry and count no node.
LEMMA SeenOthers ==
  ASSUME SeenInv, UNCHANGED sidecar,
         \A c \in Cycles :
           /\ cyc'[c].empty = cyc[c].empty
           /\ cyc[c].pc \notin {"idle", "gather"} => cyc'[c].pc \notin {"idle", "gather"},
         \A n \in nodes' \ reborn' :
           \/ /\ n \in nodes \ reborn
              /\ seen'[n] = seen[n]
           \/ /\ sidecar[n] = "none"
              /\ \A c \in Cycles : cyc[c].empty[n] = "none"
  PROVE  SeenInv'
<1> SUFFICES ASSUME NEW n \in nodes' \ reborn'
             PROVE  /\ Shorter(sidecar'[n], seen'[n]) \/ Dropped(n)'
                    /\ \A c \in Cycles : Shorter(cyc'[c].empty[n], seen'[n])
  BY DEF SeenInv, Shorter
<1>1. CASE n \in nodes \ reborn /\ seen'[n] = seen[n]
  <2>1. Dropped(n) => Dropped(n)'
    BY DEF Dropped
  <2> QED
    BY <1>1, <2>1 DEF SeenInv, Shorter
<1>2. CASE sidecar[n] = "none" /\ \A c \in Cycles : cyc[c].empty[n] = "none"
  BY <1>2 DEF Shorter
<1> QED
  BY <1>1, <1>2

\* The nodes after one joins, or leaves.
LEMMA SeenNodes ==
  ASSUME TypeInv, NEW n \in Serials,
         \/ /\ \E large : Joins(n, large)
            /\ UNCHANGED seen
         \/ Leaves(n)
  PROVE  \A m \in nodes' \ reborn' :
           \/ m \in nodes \ reborn /\ seen'[m] = seen[m]
           \/ /\ sidecar[m] = "none"
              /\ \A c \in Cycles : cyc[c].empty[m] = "none"
<1>1. ASSUME NEW large, Joins(n, large), UNCHANGED seen, NEW m \in nodes' \ reborn'
      PROVE  \/ m \in nodes \ reborn /\ seen'[m] = seen[m]
             \/ /\ sidecar[m] = "none"
                /\ \A c \in Cycles : cyc[c].empty[m] = "none"
  <2>1. m \in nodes \ reborn \/ (m = n /\ ~Listed(n))
    BY <1>1 DEF Joins
  <2>2. ~Listed(n) => /\ sidecar[n] = "none"
                      /\ \A c \in Cycles : cyc[c].empty[n] = "none"
    BY DEF Listed
  <2> QED
    BY <1>1, <2>1, <2>2
<1>2. ASSUME Leaves(n), NEW m \in nodes' \ reborn'
      PROVE  m \in nodes \ reborn /\ seen'[m] = seen[m]
  BY <1>2 DEF Leaves, TypeInv, TypeOK
<1> QED
  BY <1>1, <1>2

LEMMA SeenGather ==
  ASSUME TypeInv, SeenInv, NEW c \in Cycles, Gather(c)
  PROVE  SeenInv'
<1>1. PICK aged \in SUBSET Workers, forced \in BOOLEAN, add \in AddRec,
           todo \in SUBSET Workers, adds \in AddRec, removes \in SUBSET Workers :
        /\ c \in Cron => ~forced
        /\ IsPlan(cyc[c].on, Since(cyc[c].on, aged), forced, add, todo)
        /\ adds = add \/ adds = NoAdd
        /\ removes = todo \/ removes = {}
        /\ cyc' = [cyc EXCEPT ![c] =
                     [pc |-> After(adds, removes), on |-> Uncounted,
                      empty |-> Since(cyc[c].on, aged),
                      add |-> adds, todo |-> removes, node |-> Nowhere]]
        /\ seen' = Counted(cyc[c].on, aged)
  BY GatherPlan, Zenon
<1> DEFINE empty == Since(cyc[c].on, aged)
<1>2. cyc[c].pc = "gather" /\ UNCHANGED <<nodes, reborn, sidecar>>
  BY DEF Gather, Swarm
<1>3. /\ cyc'[c].empty = empty /\ cyc'[c].pc = After(adds, removes)
      /\ \A d \in Cycles \ {c} : cyc'[d] = cyc[d] /\ cyc[d].pc = "idle"
  BY <1>1, <1>2, OthersIdle DEF TypeInv, TypeOK
<1>4. cyc'[c].pc \notin {"idle", "gather"}
  BY <1>3, AfterOf
<1>5. ASSUME NEW n \in nodes \ reborn
      PROVE  /\ Shorter(sidecar[n], seen'[n]) \/ Dropped(n)'
             /\ \A d \in Cycles : Shorter(cyc'[d].empty[n], seen'[n])
  <2>1. n \in Serials /\ sidecar[n] \in Ages /\ seen[n] \in Ages
    BY DEF TypeInv, TypeOK
  <2>2. Shorter(sidecar[n], seen[n])
    <3>1. ~Dropped(n)
      BY <1>2, <1>3 DEF Dropped
    <3> QED
      BY <3>1 DEF SeenInv
  <2> DEFINE isEmpty == n \in Workers \ Busy(cyc[c].on)
             isAged == n \in aged
  <2>3. empty[n] = Entry(sidecar[n], isEmpty, isAged) /\ seen'[n] = Entry(seen[n], isEmpty, isAged)
    BY <1>1, <2>1 DEF Since, Counted
  <2>4. isEmpty \in BOOLEAN /\ isAged \in BOOLEAN
    OBVIOUS
  <2> HIDE DEF isEmpty, isAged, empty
  <2>5. /\ Shorter(empty[n], seen'[n])
        /\ isEmpty => Shorter(sidecar[n], seen'[n])
        /\ ~isEmpty => empty[n] = "none"
    BY <2>1, <2>2, <2>3, <2>4, EntryOf
  <2>6. empty[n] = "none" => Dropped(n)'
    BY <1>3, <1>4 DEF Dropped
  <2>7. ASSUME NEW d \in Cycles, d # c
        PROVE  cyc'[d].empty[n] = "none"
    <3>1. cyc[d].empty = Never
      BY <1>3, <2>7 DEF TypeInv, PlanInv, Planned
    <3> QED
      BY <1>3, <2>1, <2>7, <3>1 DEF Never
  <2> QED
    BY <1>3, <2>5, <2>6, <2>7 DEF Shorter
<1> QED
  BY <1>2, <1>5 DEF SeenInv, Shorter

\* A cycle that ends, with or without its entries saved.
LEMMA SeenEnd ==
  ASSUME TypeInv, SeenInv, NEW c \in Cycles, cyc[c].pc # "idle", Unlock(c),
         \/ /\ sidecar' = cyc[c].empty
            /\ reborn' = {n \in reborn : cyc[c].empty[n] # "none"}
         \/ Lost(c)
  PROVE  SeenInv'
<1>1. cyc'[c] = Idle /\ UNCHANGED <<nodes, seen>>
  BY DEF Unlock, Swarm, TypeInv, TypeOK
<1>2. \A d \in Cycles \ {c} : cyc'[d] = cyc[d] /\ cyc[d].pc = "idle"
  BY OthersIdle DEF Unlock, TypeInv, TypeOK
<1>3. ASSUME NEW n \in nodes \ reborn'
      PROVE  /\ Shorter(sidecar'[n], seen[n])
             /\ \A d \in Cycles : Shorter(cyc'[d].empty[n], seen[n])
  <2>1. n \in Serials
    BY DEF TypeInv, TypeOK
  <2>2. \A d \in Cycles : cyc'[d].empty = Never
    BY <1>1, <1>2, Resets DEF TypeInv, PlanInv, Planned
  <2>3. \A d \in Cycles : Shorter(cyc'[d].empty[n], seen[n])
    BY <2>1, <2>2 DEF Never, Shorter
  <2>4. CASE /\ sidecar' = cyc[c].empty
             /\ reborn' = {m \in reborn : cyc[c].empty[m] # "none"}
    BY <2>3, <2>4 DEF SeenInv, Shorter
  <2>5. CASE Lost(c)
    <3>1. n \notin reborn /\ sidecar' = sidecar
      BY <2>5 DEF Lost
    <3>2. Dropped(n) => sidecar[n] = "none"
      <4>1. Dropped(n) => cyc[c].pc # "gather" /\ cyc[c].empty[n] = "none"
        BY <1>2 DEF Dropped
      <4> QED
        BY <2>5, <4>1 DEF Lost
    <3> QED
      BY <2>3, <3>1, <3>2 DEF SeenInv, Shorter
  <2> QED
    BY <2>4, <2>5
<1> QED
  BY <1>1, <1>3 DEF SeenInv, Shorter

\* The steps of a cycle between its start, its snapshot and its end.
LEMMA SeenCycle ==
  ASSUME TypeInv, SeenInv, NEW c \in Cycles,
         Begin(c) \/ AddNode(c) \/ Verify(c) \/ Recheck(c) \/ RemoveNode(c)
  PROVE  SeenInv'
<1>1. cyc \in [Cycles -> CycRec] /\ cyc[c] \in CycRec
  BY DEF TypeInv, TypeOK
<1>2. UNCHANGED sidecar
  BY DEF Begin, AddNode, Verify, Recheck, RemoveNode, History
<1>3. /\ \A d \in Cycles \ {c} : cyc'[d] = cyc[d]
      /\ cyc'[c].empty = cyc[c].empty
      /\ cyc[c].pc \notin {"idle", "gather"} => cyc'[c].pc \notin {"idle", "gather"}
  <2>1. CASE Begin(c)
    <3>1. PICK on : cyc' = [cyc EXCEPT ![c].pc = "gather", ![c].on = on]
      BY <2>1 DEF Begin
    <3>2. cyc'[c].empty = cyc[c].empty /\ cyc[c].pc = "idle"
      BY <1>1, <2>1, <3>1 DEF CycRec, Begin
    <3> QED
      BY <1>1, <3>1, <3>2
  <2>2. CASE AddNode(c)
    <3>1. PICK n, add :
            \/ cyc' = [cyc EXCEPT ![c].pc = "verify", ![c].node = n, ![c].add = add]
            \/ cyc' = [cyc EXCEPT ![c].pc = "save", ![c].add = add]
      BY <2>2 DEF AddNode
    <3> QED
      BY <1>1, <3>1 DEF CycRec
  <2>3. CASE Verify(c)
    <3>1. PICK pc \in {"add", "check", "save"} :
            \/ cyc' = [cyc EXCEPT ![c].pc = pc, ![c].node = Nowhere]
            \/ cyc' = [cyc EXCEPT ![c].pc = pc, ![c].node = Nowhere, ![c].add = NoAdd]
      BY <2>3 DEF Verify, After
    <3> QED
      BY <1>1, <3>1 DEF CycRec
  <2>4. CASE Recheck(c)
    <3>1. PICK n \in cyc[c].todo :
            \/ cyc' = [cyc EXCEPT ![c].pc = "remove", ![c].todo = cyc[c].todo \ {n}, ![c].node = n]
            \/ cyc' = [cyc EXCEPT ![c].pc = After(NoAdd, cyc[c].todo \ {n}),
                                  ![c].todo = cyc[c].todo \ {n}]
      BY <2>4 DEF Recheck
    <3>2. After(NoAdd, cyc[c].todo \ {n}) \in {"add", "check", "save"}
      BY DEF After
    <3> QED
      BY <1>1, <3>1, <3>2 DEF CycRec
  <2>5. CASE RemoveNode(c)
    <3>1. PICK pc \in {"add", "check", "save"} :
            cyc' = [cyc EXCEPT ![c].pc = pc, ![c].node = Nowhere]
      BY <2>5 DEF RemoveNode, After
    <3> QED
      BY <1>1, <3>1 DEF CycRec
  <2> QED
    BY <2>1, <2>2, <2>3, <2>4, <2>5
<1> DEFINE Kept == \A n \in nodes' \ reborn' :
                    \/ n \in nodes \ reborn /\ seen'[n] = seen[n]
                    \/ /\ sidecar[n] = "none"
                       /\ \A d \in Cycles : cyc[d].empty[n] = "none"
<1>4. Kept
  <2>1. CASE UNCHANGED <<nodes, reborn, seen>>
    BY <2>1
  <2>2. ASSUME NEW n \in Serials, NEW large, Joins(n, large), UNCHANGED seen
        PROVE  Kept
    BY <2>2, SeenNodes
  <2>3. ASSUME RemoveNode(c), Leaves(cyc[c].node)
        PROVE  Kept
    <3>1. cyc[c].node \in Serials
      BY <2>3 DEF RemoveNode, TypeInv, PlanInv, Planned
    <3> QED
      BY <2>3, <3>1, SeenNodes
  <2>4. UNCHANGED <<nodes, reborn, seen>> \/ (RemoveNode(c) /\ Leaves(cyc[c].node))
          \/ \E n \in Serials, large \in BOOLEAN : Joins(n, large) /\ UNCHANGED seen
    BY DEF Begin, AddNode, Verify, Recheck, RemoveNode, Swarm, History
  <2> QED
    BY <2>1, <2>2, <2>3, <2>4
<1> QED
  BY <1>2, <1>3, <1>4, SeenOthers

LEMMA SeenStep == TypeInv /\ SeenInv /\ [Next]_vars => SeenInv'
<1> SUFFICES ASSUME TypeInv, SeenInv, [Next]_vars PROVE SeenInv'
  OBVIOUS
<1>1. ASSUME NEW c \in Cycles, Save(c) \/ Cut(c)
      PROVE  SeenInv'
  BY <1>1, SeenEnd DEF Save, Cut
<1>2. ASSUME NEW c \in Cycles, Begin(c) \/ Step(c) \/ Cut(c)
      PROVE  SeenInv'
  BY <1>1, <1>2, SeenCycle, SeenGather DEF Step
<1>3. CASE HandAdd
  <2>1. UNCHANGED <<sidecar, cyc, seen>>
    BY <1>3 DEF HandAdd
  <2>2. PICK n \in Serials : \E large : Joins(n, large)
    BY <1>3 DEF HandAdd
  <2> QED
    BY <2>1, <2>2, SeenNodes, SeenOthers
<1>4. CASE HandRemove
  <2>1. UNCHANGED <<sidecar, cyc>>
    BY <1>4 DEF HandRemove
  <2>2. PICK n \in Serials : Leaves(n)
    BY <1>4 DEF HandRemove, Workers, TypeInv, TypeOK
  <2> QED
    BY <2>1, <2>2, SeenNodes, SeenOthers
<1>5. CASE UNCHANGED <<nodes, sidecar, cyc, seen, reborn>>
  BY <1>5 DEF SeenInv, Dropped, Shorter
<1>6. Demands \/ UNCHANGED vars => UNCHANGED <<nodes, sidecar, cyc, seen, reborn>>
  BY DEF Demands, Swarm, History, vars
<1> QED
  BY <1>2, <1>3, <1>4, <1>5, <1>6 DEF Next

\* A cycle from cron means to remove a node only after its gathers have counted it
\* as empty for the cooldown.
LEMMA CooldownStep ==
  ASSUME TypeInv, SeenInv, [Next]_vars, NEW c \in Cron, NEW n \in cyc'[c].todo \ cyc[c].todo
  PROVE  seen'[n] = "old" \/ n \in reborn
<1>1. c \in Cycles /\ cyc \in [Cycles -> CycRec]
  BY DEF Cycles, TypeInv, TypeOK
<1>2. Gather(c)
  <2>1. ASSUME NEW d \in Cycles, Begin(d) \/ Step(d) \/ Cut(d), ~Gather(c)
        PROVE  cyc'[c].todo \subseteq cyc[c].todo
    <3>1. CASE d # c
      BY <1>1, <2>1, <3>1, CycOnly
    <3>2. CASE Begin(c)
      <4>1. PICK on : cyc' = [cyc EXCEPT ![c].pc = "gather", ![c].on = on]
        BY <3>2 DEF Begin
      <4>2. cyc'[c].todo = cyc[c].todo
        BY <1>1, <4>1 DEF CycRec
      <4> QED
        BY <4>2
    <3>3. CASE AddNode(c)
      <4>1. PICK m, add :
              \/ cyc' = [cyc EXCEPT ![c].pc = "verify", ![c].node = m, ![c].add = add]
              \/ cyc' = [cyc EXCEPT ![c].pc = "save", ![c].add = add]
        BY <3>3 DEF AddNode
      <4>2. cyc'[c].todo = cyc[c].todo
        BY <1>1, <4>1 DEF CycRec
      <4> QED
        BY <4>2
    <3>4. CASE Verify(c)
      BY <1>1, <3>4 DEF Verify, CycRec
    <3>5. CASE Recheck(c)
      <4>1. PICK m, pc :
              \/ cyc' = [cyc EXCEPT ![c].pc = pc, ![c].todo = cyc[c].todo \ {m}, ![c].node = m]
              \/ cyc' = [cyc EXCEPT ![c].pc = pc, ![c].todo = cyc[c].todo \ {m}]
        BY <3>5 DEF Recheck
      <4> QED
        BY <1>1, <4>1 DEF CycRec
    <3>6. CASE RemoveNode(c)
      BY <1>1, <3>6 DEF RemoveNode, CycRec
    <3>7. CASE Save(c) \/ Cut(c)
      BY <1>1, <3>7, Resets DEF Save, Cut, Unlock
    <3> QED
      BY <2>1, <3>1, <3>2, <3>3, <3>4, <3>5, <3>6, <3>7 DEF Step
  <2>2. UNCHANGED vars \/ HandAdd \/ HandRemove \/ Demands => UNCHANGED cyc
    BY DEF vars, HandAdd, HandRemove, Demands
  <2> QED
    BY <1>1, <2>1, <2>2 DEF Next
<1>3. PICK aged \in SUBSET Workers, forced \in BOOLEAN, add \in AddRec,
           todo \in SUBSET Workers, adds \in AddRec, removes \in SUBSET Workers :
        /\ c \in Cron => ~forced
        /\ IsPlan(cyc[c].on, Since(cyc[c].on, aged), forced, add, todo)
        /\ adds = add \/ adds = NoAdd
        /\ removes = todo \/ removes = {}
        /\ cyc' = [cyc EXCEPT ![c] =
                     [pc |-> After(adds, removes), on |-> Uncounted,
                      empty |-> Since(cyc[c].on, aged),
                      add |-> adds, todo |-> removes, node |-> Nowhere]]
        /\ seen' = Counted(cyc[c].on, aged)
  BY <1>1, <1>2, GatherPlan, Zenon
<1> DEFINE empty == Since(cyc[c].on, aged)
<1>4. n \in removes /\ removes = todo
  BY <1>1, <1>3
<1>5. n \in Candidates(cyc[c].on, empty, forced)
  BY <1>3, <1>4 DEF IsPlan, IsSelection
<1>6. empty[n] = "old" /\ n \in Workers \ Busy(cyc[c].on) /\ n \in Serials /\ n \in nodes
  BY <1>3, <1>5 DEF Candidates, Workers, TypeInv, TypeOK
<1>7. CASE n \notin reborn
  <2>1. Shorter(sidecar[n], seen[n])
    <3>1. cyc[c].pc = "gather" /\ \A d \in Cycles \ {c} : cyc[d].pc = "idle"
      BY <1>1, <1>2, OthersIdle DEF Gather
    <3>2. ~Dropped(n)
      BY <3>1 DEF Dropped
    <3> QED
      BY <1>6, <1>7, <3>2 DEF SeenInv
  <2> DEFINE isEmpty == n \in Workers \ Busy(cyc[c].on)
             isAged == n \in aged
  <2>2. empty[n] = Entry(sidecar[n], isEmpty, isAged) /\ seen'[n] = Entry(seen[n], isEmpty, isAged)
    BY <1>3, <1>6 DEF Since, Counted
  <2>3. sidecar[n] \in Ages /\ seen[n] \in Ages /\ isEmpty \in BOOLEAN /\ isAged \in BOOLEAN
    BY <1>6 DEF TypeInv, TypeOK
  <2> HIDE DEF isEmpty, isAged, empty
  <2>4. Shorter(empty[n], seen'[n])
    BY <2>1, <2>2, <2>3, EntryOf
  <2> QED
    BY <1>6, <2>4 DEF Shorter
<1> QED
  BY <1>7

\* However cycles end and nodes come and go, a cycle from cron means to remove only
\* nodes that its gathers have counted as empty for the cooldown, or whose entry in
\* the file is of another time.
THEOREM Cooldown == Spec => CooldownHonoured
<1>1. Init => TypeInv /\ SeenInv
  BY TypeInit, SeenInit
<1>2. (TypeInv /\ SeenInv) /\ [Next]_vars => (TypeInv /\ SeenInv)'
  BY TypeStep, SeenStep
<1>3. (TypeInv /\ SeenInv) /\ [Next]_vars =>
        [\A c \in Cron : \A n \in cyc'[c].todo \ cyc[c].todo :
           seen'[n] = "old" \/ n \in reborn]_vars
  BY CooldownStep
<1> QED
  BY <1>1, <1>2, <1>3, PTL DEF Spec, CooldownHonoured

-----------------------------------------------------------------------------
(* The cycles are plans carried out one at a time (WorkerFleet). *)

\* Managers stay, and no cycle means to remove one, or a node twice.
FleetInv ==
  /\ Managers \subseteq nodes
  /\ \A c \in Cycles :
       /\ cyc[c].todo \cap Managers = {}
       /\ cyc[c].pc = "remove" => cyc[c].node \notin Managers \cup cyc[c].todo

LEMMA FleetInvInit == Init => FleetInv
BY Resets DEF Init, FleetInv

\* A step of one cycle that removes no manager and plans to remove none.
LEMMA FleetFrame ==
  ASSUME FleetInv, NEW c \in Cycles, Managers \cap nodes \subseteq nodes',
         \A d \in Cycles \ {c} : cyc'[d] = cyc[d],
         cyc'[c].todo \cap Managers = {},
         cyc'[c].pc = "remove" => cyc'[c].node \notin Managers \cup cyc'[c].todo
  PROVE  FleetInv'
BY DEF FleetInv

LEMMA FleetInvCycle ==
  ASSUME TypeInv, FleetInv, NEW c \in Cycles, Begin(c) \/ Step(c) \/ Cut(c)
  PROVE  FleetInv'
<1>1. cyc \in [Cycles -> CycRec] /\ cyc[c] \in CycRec
  BY DEF TypeInv, TypeOK
<1>2. \A d \in Cycles \ {c} : cyc'[d] = cyc[d]
  BY CycOnly
<1>3. /\ cyc[c].todo \cap Managers = {}
      /\ cyc[c].pc = "remove" => cyc[c].node \notin Managers \cup cyc[c].todo
  BY DEF FleetInv
<1>4. CASE Begin(c)
  <2>1. PICK on : cyc' = [cyc EXCEPT ![c].pc = "gather", ![c].on = on]
    BY <1>4 DEF Begin
  <2>2. cyc'[c].todo = cyc[c].todo /\ cyc'[c].pc = "gather"
    BY <1>1, <2>1 DEF CycRec
  <2>3. nodes' = nodes
    BY <1>4 DEF Begin, Swarm
  <2> QED
    BY <1>2, <1>3, <2>2, <2>3, FleetFrame
<1>5. CASE Gather(c)
  <2>1. PICK aged \in SUBSET Workers, forced \in BOOLEAN, add \in AddRec,
             todo \in SUBSET Workers, adds \in AddRec, removes \in SUBSET Workers :
          /\ c \in Cron => ~forced
          /\ IsPlan(cyc[c].on, Since(cyc[c].on, aged), forced, add, todo)
          /\ adds = add \/ adds = NoAdd
          /\ removes = todo \/ removes = {}
          /\ cyc' = [cyc EXCEPT ![c] =
                       [pc |-> After(adds, removes), on |-> Uncounted,
                        empty |-> Since(cyc[c].on, aged),
                        add |-> adds, todo |-> removes, node |-> Nowhere]]
          /\ seen' = Counted(cyc[c].on, aged)
    BY <1>5, GatherPlan, Zenon
  <2>2. cyc'[c].todo = removes /\ cyc'[c].pc = After(adds, removes)
    BY <1>1, <2>1
  <2>4. cyc'[c].todo \cap Managers = {} /\ cyc'[c].pc # "remove"
    BY <2>2 DEF Workers, After
  <2>3. nodes' = nodes
    BY <1>5 DEF Gather, Swarm
  <2> QED
    BY <1>2, <2>3, <2>4, FleetFrame
<1>6. CASE AddNode(c) \/ Verify(c)
  <2>1. cyc'[c].todo = cyc[c].todo /\ cyc'[c].pc # "remove"
    <3>1. CASE AddNode(c)
      <4>1. PICK n, add :
              \/ cyc' = [cyc EXCEPT ![c].pc = "verify", ![c].node = n, ![c].add = add]
              \/ cyc' = [cyc EXCEPT ![c].pc = "save", ![c].add = add]
        BY <3>1 DEF AddNode
      <4> QED
        BY <1>1, <4>1 DEF CycRec
    <3>2. CASE Verify(c)
      BY <1>1, <3>2 DEF Verify, CycRec, After
    <3> QED
      BY <1>6, <3>1, <3>2
  <2>2. nodes \subseteq nodes'
    BY <1>6 DEF AddNode, Verify, Joins, Swarm
  <2> QED
    BY <1>2, <1>3, <2>1, <2>2, FleetFrame
<1>7. CASE Recheck(c)
  <2>1. PICK n \in cyc[c].todo :
          \/ cyc' = [cyc EXCEPT ![c].pc = "remove", ![c].todo = cyc[c].todo \ {n}, ![c].node = n]
          \/ cyc' = [cyc EXCEPT ![c].pc = After(NoAdd, cyc[c].todo \ {n}),
                                ![c].todo = cyc[c].todo \ {n}]
    BY <1>7 DEF Recheck
  <2>2. cyc'[c].todo = cyc[c].todo \ {n} /\ (cyc'[c].pc = "remove" => cyc'[c].node = n)
    BY <1>1, <2>1 DEF CycRec, After
  <2>3. nodes' = nodes
    BY <1>7 DEF Recheck, Swarm
  <2> QED
    BY <1>2, <1>3, <2>2, <2>3, FleetFrame
<1>8. CASE RemoveNode(c)
  <2>1. cyc'[c].todo = cyc[c].todo /\ cyc'[c].pc # "remove" /\ cyc[c].pc = "remove"
    BY <1>1, <1>8 DEF RemoveNode, CycRec, After
  <2>2. Managers \cap nodes \subseteq nodes'
    BY <1>3, <1>8, <2>1 DEF RemoveNode, Leaves, Swarm
  <2> QED
    BY <1>2, <1>3, <2>1, <2>2, FleetFrame
<1>9. CASE Save(c) \/ Cut(c)
  <2>1. cyc'[c] = Idle /\ nodes' = nodes
    BY <1>1, <1>9 DEF Save, Cut, Unlock, Swarm
  <2> QED
    BY <1>2, <2>1, Resets, FleetFrame
<1> QED
  BY <1>4, <1>5, <1>6, <1>7, <1>8, <1>9 DEF Step

LEMMA FleetInvStep == TypeInv /\ FleetInv /\ [Next]_vars => FleetInv'
<1> SUFFICES ASSUME TypeInv, FleetInv, [Next]_vars PROVE FleetInv'
  OBVIOUS
<1>1. CASE UNCHANGED cyc /\ Managers \cap nodes \subseteq nodes'
  BY <1>1 DEF FleetInv
<1>2. UNCHANGED vars \/ Demands => UNCHANGED <<cyc, nodes>>
  BY DEF vars, Demands, Swarm
<1>3. HandAdd => UNCHANGED cyc /\ nodes \subseteq nodes'
  BY DEF HandAdd, Joins
<1>4. HandRemove => UNCHANGED cyc /\ Managers \cap nodes \subseteq nodes'
  BY DEF HandRemove, Leaves, Workers
<1> QED
  BY <1>1, <1>2, <1>3, <1>4, FleetInvCycle DEF Next

\* The plan in force is that of whoever is past its gather; before, there is none.
LEMMA PlanOf ==
  ASSUME TypeInv
  PROVE  /\ \A c \in Cycles : cyc[c].pc # "idle" =>
              InForce = cyc[c] /\ ToRemove = Pending(c)
         /\ (lock = Free \/ cyc[lock].pc \in {"idle", "gather"}) =>
              Size(InForce.add) = 0 /\ ToRemove = {}
<1>1. ASSUME NEW c \in Cycles, cyc[c].pc # "idle"
      PROVE  InForce = cyc[c] /\ ToRemove = Pending(c)
  <2>1. lock = c /\ c # Free
    BY <1>1, OthersIdle, AutoscaleAssumption
  <2> QED
    BY <2>1 DEF InForce, ToRemove, Pending
<1>2. ASSUME lock = Free
      PROVE  Size(InForce.add) = 0 /\ ToRemove = {}
  BY <1>2, Resets DEF InForce, ToRemove
<1>3. ASSUME lock # Free, cyc[lock].pc \in {"idle", "gather"}
      PROVE  Size(InForce.add) = 0 /\ ToRemove = {}
  <2>1. Planned(cyc[lock])
    BY <1>3 DEF TypeInv, TypeOK, PlanInv
  <2> QED
    BY <1>3, <2>1, Resets DEF Planned, InForce, ToRemove
<1> QED
  BY <1>1, <1>2, <1>3

LEMMA FleetCardinality == \A S : Fleet!Cardinality(S) = Cardinality(S)
BY Zenon DEF Fleet!Cardinality, Cardinality

LEMMA FleetInit == Init => Fleet!Init
<1> SUFFICES ASSUME Init PROVE Fleet!Init
  OBVIOUS
<1>1. TypeInv /\ lock = Free /\ taken = 0
  BY TypeInit DEF Init
<1>2. Size(InForce.add) = 0 /\ ToRemove = {}
  BY <1>1, PlanOf
<1>3. PICK workers \in SUBSET (Serials \ Managers) :
        MinWorkers <= Cardinality(workers) /\ nodes = Managers \cup workers
  BY DEF Init
<1>4. Workers = workers
  BY <1>3 DEF Workers
<1> QED
  BY <1>1, <1>2, <1>3, <1>4, FleetCardinality DEF Fleet!Init

\* A plan is made when none is in force.
LEMMA FleetGather ==
  ASSUME TypeInv, TypeInv', NEW c \in Cycles, Gather(c)
  PROVE  Fleet!Grow \/ Fleet!Shrink \/ UNCHANGED Fleet!vars
<1>1. PICK aged \in SUBSET Workers, forced \in BOOLEAN, add \in AddRec,
           todo \in SUBSET Workers, adds \in AddRec, removes \in SUBSET Workers :
        /\ c \in Cron => ~forced
        /\ IsPlan(cyc[c].on, Since(cyc[c].on, aged), forced, add, todo)
        /\ adds = add \/ adds = NoAdd
        /\ removes = todo \/ removes = {}
        /\ cyc' = [cyc EXCEPT ![c] =
                     [pc |-> After(adds, removes), on |-> Uncounted,
                      empty |-> Since(cyc[c].on, aged),
                      add |-> adds, todo |-> removes, node |-> Nowhere]]
        /\ seen' = Counted(cyc[c].on, aged)
  BY GatherPlan, Zenon
<1>2. /\ cyc[c].pc = "gather" /\ lock = c
      /\ Size(InForce.add) = 0 /\ ToRemove = {}
  BY OthersIdle, PlanOf DEF Gather
<1>3. /\ cyc'[c].todo = removes /\ cyc'[c].add = adds
      /\ cyc'[c].pc = After(adds, removes)
  BY <1>1 DEF TypeInv, TypeOK
<1>4. cyc'[c].pc \notin {"idle", "remove"}
  BY <1>3 DEF After
<1>5. InForce' = cyc'[c] /\ ToRemove' = removes
  <2>1. lock' = c /\ c # Free
    BY <1>2, AutoscaleAssumption DEF Gather
  <2> QED
    BY <1>3, <1>4, <2>1 DEF InForce, ToRemove
<1>6. Workers' = Workers /\ taken' = taken
  BY DEF Gather, Swarm, Workers
<1>7. Size(adds) \in Nat
  BY ScalePlanAssumption DEF AddRec, Size
<1>8. CASE removes # {}
  <2>1. /\ add = NoAdd /\ todo = removes
        /\ IsSelection(todo, Candidates(cyc[c].on, Since(cyc[c].on, aged), forced), Workers,
                       big, Load(cyc[c].on))
    BY <1>1, <1>8 DEF IsPlan
  <2>2. Load(cyc[c].on) \in Nat
    BY FS_Subset, FS_CardinalityType, AutoscaleAssumption DEF Load
  <2>3. Workers \in SUBSET Serials
    BY DEF TypeInv, TypeOK, Workers
  <2>4. MinWorkers <= Cardinality(Workers \ removes) /\ Cardinality(removes) <= MaxRemove
    BY <1>8, <2>1, <2>2, <2>3, SelectionLeaves
  <2>5. Size(InForce.add)' = 0
    BY <1>1, <1>3, <1>5, <2>1, Resets DEF Size, NoAdd
  <2>6. Fleet!Shrink
    BY <1>2, <1>5, <1>6, <2>4, <2>5, FleetCardinality DEF Fleet!Shrink, Fleet!AtRest
  <2> QED
    BY <2>6
<1>9. CASE removes = {} /\ 0 < Size(adds)
  <2>1. adds = ScaleUp(Deficit(Workers)) /\ Deficit(Workers) \in Int
    BY <1>1, <1>9, Resets, IntDeficit DEF IsPlan, TypeInv
  <2>2. Size(adds) \in 1 .. MaxAdd
    BY <1>7, <1>9, <2>1, ScaleUpOf, ScalePlanAssumption
  <2>3. Size(InForce'.add) = Size(adds)
    BY <1>3, <1>5
  <2>4. Size(InForce.add)' = Size(adds)
    BY <2>3 DEF Size
  <2>5. Fleet!Grow
    BY <1>2, <1>5, <1>6, <1>9, <2>2, <2>4 DEF Fleet!Grow, Fleet!AtRest
  <2> QED
    BY <2>5
<1>10. CASE removes = {} /\ ~(0 < Size(adds))
  <2>1. Size(InForce.add)' = 0
    BY <1>3, <1>5, <1>7, <1>10 DEF Size
  <2> QED
    BY <1>2, <1>5, <1>6, <1>10, <2>1 DEF Fleet!vars
<1> QED
  BY <1>8, <1>9, <1>10

\* What becomes of the plan in force.
LEMMA FleetCycle ==
  ASSUME TypeInv, TypeInv', FleetInv, NEW c \in Cycles,
         AddNode(c) \/ Verify(c) \/ Recheck(c) \/ RemoveNode(c) \/ Save(c) \/ Cut(c)
  PROVE  [Fleet!Next]_Fleet!vars
<1>1. /\ cyc \in [Cycles -> CycRec] /\ cyc[c] \in CycRec /\ Planned(cyc[c])
      /\ cyc[c].pc # "idle" /\ taken' = taken
  BY DEF TypeInv, TypeOK, PlanInv, AddNode, Verify, Recheck, RemoveNode, Save, Cut, Unlock,
         Swarm, History
<1>2. InForce = cyc[c] /\ ToRemove = Pending(c) /\ lock = c /\ c # Free
  BY <1>1, PlanOf, OthersIdle, AutoscaleAssumption
<1>3. Size(cyc[c].add) \in Nat
  BY <1>1, ScalePlanAssumption DEF CycRec, Size
<1>4. ASSUME lock' = lock
      PROVE  InForce' = cyc'[c] /\ ToRemove' = Pending(c)'
  BY <1>2, <1>4 DEF InForce, ToRemove, Pending
<1>5. ASSUME Workers' = Workers, Size(InForce.add)' \in {0, Size(InForce.add)},
             ToRemove' \in SUBSET ToRemove
      PROVE  [Fleet!Next]_Fleet!vars
  BY <1>1, <1>5 DEF Fleet!Next, Fleet!Forgo
<1>6. CASE AddNode(c)
  <2>0. lock' = lock /\ cyc[c].pc = "add" /\ 0 < Size(cyc[c].add) /\ cyc[c].todo = {}
    BY <1>1, <1>6 DEF AddNode, Planned
  <2>1. ASSUME NEW n \in Serials, NEW large \in BOOLEAN, IsNext(n), Joins(n, large),
               cyc' = [cyc EXCEPT ![c].pc = "verify", ![c].node = n, ![c].add = Fewer(@)]
        PROVE  [Fleet!Next]_Fleet!vars
    <3>1. n \notin nodes /\ n \notin Managers
      BY <2>1, SerialsFinite DEF IsNext, FleetInv
    <3>2. Workers' = Workers \cup {n} /\ n \notin Workers
      BY <2>1, <3>1 DEF Joins, Workers
    <3>3. cyc'[c].add = Fewer(cyc[c].add) /\ cyc'[c].todo = cyc[c].todo /\ cyc'[c].pc = "verify"
      BY <1>1, <2>1 DEF CycRec
    <3>4. cyc[c].add \in AddRec
      BY <1>1 DEF CycRec, AddRec
    <3>5. Size(Fewer(cyc[c].add)) = Size(cyc[c].add) - 1
      BY <2>0, <3>4, FewerOf
    <3>6. Size(InForce.add)' = Size(InForce.add) - 1
      BY <1>2, <1>4, <2>0, <3>3, <3>5 DEF Size
    <3>7. ToRemove' = ToRemove
      BY <1>2, <1>4, <2>0, <3>3 DEF Pending
    <3>8. Fleet!Add(n)
      BY <1>1, <1>2, <2>0, <3>2, <3>6, <3>7 DEF Fleet!Add
    <3> QED
      BY <3>1, <3>8 DEF Fleet!Next
  <2>2. ASSUME cyc' = [cyc EXCEPT ![c].pc = "save", ![c].add = NoAdd], UNCHANGED Swarm
        PROVE  [Fleet!Next]_Fleet!vars
    <3>1. cyc'[c].add = NoAdd /\ cyc'[c].todo = cyc[c].todo /\ cyc'[c].pc = "save"
      BY <1>1, <2>2 DEF CycRec
    <3>2. Size(InForce.add)' = 0
      BY <1>4, <2>0, <3>1, Resets DEF Size, NoAdd
    <3>3. ToRemove' = ToRemove
      BY <1>2, <1>4, <2>0, <3>1 DEF Pending
    <3>4. Workers' = Workers
      BY <2>2 DEF Swarm, Workers
    <3> QED
      BY <1>5, <3>2, <3>3, <3>4
  <2> QED
    BY <1>6, <2>1, <2>2 DEF AddNode
<1>7. CASE Verify(c)
  <2>1. lock' = lock /\ Workers' = Workers /\ cyc[c].pc = "verify"
    BY <1>7 DEF Verify, Workers
  <2>2. /\ cyc'[c].add \in {NoAdd, cyc[c].add} /\ cyc'[c].todo = cyc[c].todo
        /\ cyc'[c].pc # "remove"
    BY <1>1, <1>7 DEF Verify, CycRec, After
  <2>3. Size(InForce.add)' \in {0, Size(InForce.add)}
    BY <1>2, <1>4, <2>1, <2>2, Resets DEF Size, NoAdd
  <2>4. ToRemove' = ToRemove
    BY <1>2, <1>4, <2>1, <2>2 DEF Pending
  <2> QED
    BY <1>5, <2>1, <2>3, <2>4
<1>8. CASE Recheck(c)
  <2>1. lock' = lock /\ Workers' = Workers /\ cyc[c].pc = "check"
    BY <1>8 DEF Recheck, Workers, Swarm
  <2>2. PICK n \in cyc[c].todo :
          \/ cyc' = [cyc EXCEPT ![c].pc = "remove", ![c].todo = cyc[c].todo \ {n}, ![c].node = n]
          \/ cyc' = [cyc EXCEPT ![c].pc = After(NoAdd, cyc[c].todo \ {n}),
                                ![c].todo = cyc[c].todo \ {n}]
    BY <1>8 DEF Recheck
  <2>3. /\ cyc'[c].todo = cyc[c].todo \ {n} /\ cyc'[c].add = cyc[c].add
        /\ cyc'[c].pc = "remove" => cyc'[c].node = n
    BY <1>1, <2>2 DEF CycRec, After
  <2>4. Size(InForce.add)' = Size(InForce.add)
    BY <1>2, <1>4, <2>1, <2>3 DEF Size
  <2>5. ToRemove' \in SUBSET ToRemove
    BY <1>2, <1>4, <2>1, <2>3 DEF Pending
  <2> QED
    BY <1>5, <2>1, <2>4, <2>5
<1>9. CASE RemoveNode(c)
  <2>1. lock' = lock /\ cyc[c].pc = "remove"
    BY <1>9 DEF RemoveNode
  <2>2. cyc'[c].todo = cyc[c].todo /\ cyc'[c].add = cyc[c].add /\ cyc'[c].pc # "remove"
    BY <1>1, <1>9 DEF RemoveNode, CycRec, After
  <2>3. Size(InForce.add)' = Size(InForce.add)
    BY <1>2, <1>4, <2>1, <2>2 DEF Size
  <2>4. ToRemove' = cyc[c].todo /\ ToRemove = cyc[c].todo \cup {cyc[c].node}
    BY <1>2, <1>4, <2>1, <2>2 DEF Pending
  <2>5. CASE UNCHANGED nodes
    BY <1>5, <2>3, <2>4, <2>5 DEF Workers
  <2>6. CASE cyc[c].node \in nodes /\ Leaves(cyc[c].node)
    <3>1. cyc[c].node \notin Managers \cup cyc[c].todo
      BY <2>1 DEF FleetInv
    <3>2. /\ cyc[c].node \in Workers /\ Workers' = Workers \ {cyc[c].node}
          /\ ToRemove' = ToRemove \ {cyc[c].node}
      BY <2>4, <2>6, <3>1 DEF Workers, Leaves
    <3>3. cyc[c].node \in Serials \ Managers
      BY <3>2 DEF Workers, TypeInv, TypeOK
    <3>4. Fleet!Retire(cyc[c].node)
      BY <1>1, <2>3, <2>4, <3>2 DEF Fleet!Retire
    <3> QED
      BY <3>3, <3>4 DEF Fleet!Next
  <2> QED
    BY <1>9, <2>5, <2>6 DEF RemoveNode, Swarm
<1>10. CASE Save(c) \/ Cut(c)
  <2>1. lock' = Free /\ Workers' = Workers
    BY <1>10 DEF Save, Cut, Unlock, Workers, Swarm
  <2>2. InForce' = Idle
    BY <2>1 DEF InForce, Idle, NoAdd, Uncounted, Never, Nowhere
  <2>3. Size(InForce.add)' = 0 /\ ToRemove' = {}
    BY <2>2, Resets DEF Size, ToRemove
  <2> QED
    BY <1>5, <2>1, <2>3
<1> QED
  BY <1>6, <1>7, <1>8, <1>9, <1>10

LEMMA FleetStep ==
  ASSUME TypeInv, FleetInv, [Next]_vars
  PROVE  [Fleet!Next]_Fleet!vars
<1>1. TypeInv'
  BY TypeStep
<1>2. ASSUME NEW c \in Cycles, Begin(c)
      PROVE  UNCHANGED Fleet!vars
  <2>1. Workers' = Workers /\ taken' = taken /\ lock = Free /\ lock' = c
    BY <1>2 DEF Begin, Workers, Swarm, History
  <2>2. cyc'[c].pc = "gather"
    <3>1. cyc[c] \in CycRec
      BY DEF TypeInv, TypeOK
    <3> QED
      BY <1>2, <3>1 DEF Begin, TypeInv, TypeOK, CycRec
  <2>3. Size(InForce.add) = 0 /\ ToRemove = {}
    BY <2>1, PlanOf
  <2>4. Planned(cyc'[c])
    BY <1>1, Zenon DEF TypeInv, PlanInv, Planned
  <2>5. InForce' = cyc'[c]
    BY <2>1, AutoscaleAssumption DEF InForce
  <2>6. Size(InForce.add)' = 0 /\ ToRemove' = {}
    BY <2>2, <2>4, <2>5, Resets DEF Planned, ToRemove, Size
  <2> QED
    BY <2>1, <2>3, <2>6 DEF Fleet!vars
<1>3. ASSUME NEW c \in Cycles, Gather(c)
      PROVE  [Fleet!Next]_Fleet!vars
  BY <1>1, <1>3, FleetGather DEF Fleet!Next
<1>4. UNCHANGED <<lock, cyc>> => UNCHANGED <<Size(InForce.add), ToRemove>>
  BY DEF InForce, ToRemove, Size, Idle, NoAdd, Uncounted, Never, Nowhere
<1>5. CASE HandAdd
  <2>1. PICK n \in Serials, large \in BOOLEAN : IsNext(n) /\ Joins(n, large)
    BY <1>5 DEF HandAdd
  <2>2. n \notin nodes /\ n \notin Managers
    BY <2>1, SerialsFinite DEF IsNext, FleetInv
  <2>3. Fleet!HandAdd(n)
    BY <1>4, <1>5, <2>1, <2>2 DEF HandAdd, Joins, Workers, Fleet!HandAdd
  <2> QED
    BY <2>2, <2>3 DEF Fleet!Next
<1>6. CASE HandRemove
  <2>1. PICK n \in Workers : Leaves(n)
    BY <1>6 DEF HandRemove
  <2>2. n \in Serials \ Managers
    BY DEF Workers, TypeInv, TypeOK
  <2>3. Fleet!HandRemove(n)
    BY <1>4, <1>6, <2>1 DEF HandRemove, Leaves, Workers, Fleet!HandRemove
  <2> QED
    BY <2>2, <2>3 DEF Fleet!Next
<1>7. CASE Demands \/ UNCHANGED vars
  <2>1. Workers' = Workers /\ UNCHANGED <<lock, cyc, taken>>
    BY <1>7 DEF Demands, vars, Swarm, History, Workers
  <2> QED
    BY <1>4, <2>1 DEF Fleet!vars
<1> QED
  BY <1>1, <1>2, <1>3, <1>5, <1>6, <1>7, FleetCycle DEF Next, Step

\* However the cycles interleave, fail and die, and whatever is done by hand
\* meanwhile, what becomes of the workers is plans carried out one at a time, each
\* bounded and never below the floor (WorkerFleet), for every value of the constants.
THEOREM ImplementsFleet == Spec => KeepsFleet
<1>1. Init => TypeInv /\ FleetInv
  BY TypeInit, FleetInvInit
<1>2. (TypeInv /\ FleetInv) /\ [Next]_vars => (TypeInv /\ FleetInv)'
  BY TypeStep, FleetInvStep
<1>3. (TypeInv /\ FleetInv) /\ [Next]_vars => [Fleet!Next]_Fleet!vars
  BY FleetStep
<1> QED
  BY <1>1, <1>2, <1>3, FleetInit, PTL DEF Spec, KeepsFleet, Fleet!Spec
=============================================================================
