------------------------ MODULE NodePlacement_proofs ------------------------
(***************************************************************************)
(* Proofs about NodePlacement: types, and what a removal does to the hosts   *)
(* pinned to its node and to those running on it.                            *)
(***************************************************************************)
EXTENDS NodePlacement, TLAPS

-----------------------------------------------------------------------------
(* The inductive invariants. *)

\* A service that is not live has neither pin nor task.
DeadInv == \A s \in Svcs : ~Live(s) => svc[s].pin = NoNode /\ svc[s].at = NoNode

\* A pin that no history excuses is to a usable node, and every removal of that
\* node past its listing still has it in its list, with the current version.
Listed(r, s) == rem[r].pc = "clear" /\ s \in rem[r].todo /\ s \in fresh[r]
PinInv ==
  \A s \in Svcs :
    svc[s].pin # NoNode /\ s \notin missed =>
      /\ Usable(svc[s].pin)
      /\ \A r \in Removers :
           rem[r].node = svc[s].pin /\ rem[r].pc \in Cleared => Listed(r, s)

\* Removals name a node.
RemInv == \A r \in Removers : rem[r].pc # "idle" => rem[r].node \in Nodes

IInv == TypeOK /\ DeadInv /\ RemInv /\ PinInv

-----------------------------------------------------------------------------
(* Types. *)

LEMMA Resets ==
  /\ NoSvc \in SvcRec /\ NoSvc.st = "unborn" /\ NoSvc.pin = NoNode /\ NoSvc.at = NoNode
  /\ NoStart \in StartRec
  /\ NoRem \in RemRec /\ NoRem.pc = "idle" /\ NoRem.node = NoNode
  /\ \A k \in 0 .. Rebalances : NoReb(k) \in RebRec
BY DEF NoSvc, SvcRec, NoStart, StartRec, NoRem, RemRec, NoReb, NoMembers, RebRec,
   MaybeNode, Cleared

LEMMA InitInv == Init => IInv
<1> SUFFICES ASSUME Init PROVE IInv
  OBVIOUS
<1>1. PICK old \in SUBSET Svcs, on \in [Svcs -> Nodes], pinned \in SUBSET Svcs :
        svc = [s \in Svcs |->
                IF s \notin old THEN NoSvc
                ELSE [st |-> "live", at |-> on[s], run |-> TRUE,
                      pin |-> IF s \in pinned THEN on[s] ELSE NoNode]]
  BY DEF Init
<1>2. svc \in [Svcs -> SvcRec]
  <2>1. ASSUME NEW s \in Svcs
        PROVE  svc[s] \in SvcRec
    BY <1>1, Resets DEF SvcRec, MaybeNode
  <2> QED
    BY <1>1, <2>1
<1>3. TypeOK
  <2>1. start \in [Svcs -> StartRec] /\ rem \in [Removers -> RemRec]
    BY Resets DEF Init
  <2>2. reb \in RebRec
    BY Resets, PlacementAssumption DEF Init
  <2> QED
    BY <1>2, <2>1, <2>2, PlacementAssumption DEF Init, TypeOK
<1>4. DeadInv
  BY <1>1, Resets DEF DeadInv, Live
<1>5. RemInv
  BY Resets DEF Init, RemInv
<1>6. PinInv
  <2> SUFFICES ASSUME NEW s \in Svcs, svc[s].pin # NoNode
               PROVE  /\ Usable(svc[s].pin)
                      /\ \A r \in Removers : rem[r].pc \notin Cleared
    BY DEF PinInv
  <2>1. svc[s].pin \in Nodes
    BY <1>1, Resets, <1>2 DEF SvcRec, MaybeNode
  <2> QED
    BY <2>1, Resets DEF Init, Usable, Cleared
<1> QED
  BY <1>3, <1>4, <1>5, <1>6 DEF IInv

\* What an update of one service, start or removal keeps of its type.
LEMMA SvcFields ==
  ASSUME svc \in [Svcs -> SvcRec], NEW s \in Svcs
  PROVE  /\ \A n \in MaybeNode : /\ [svc EXCEPT ![s].pin = n] \in [Svcs -> SvcRec]
                                 /\ [svc EXCEPT ![s].at = n] \in [Svcs -> SvcRec]
         /\ [svc EXCEPT ![s].st = "live"] \in [Svcs -> SvcRec]
         /\ [svc EXCEPT ![s].run = TRUE] \in [Svcs -> SvcRec]
         /\ [svc EXCEPT ![s].at = NoNode, ![s].run = FALSE] \in [Svcs -> SvcRec]
         /\ [svc EXCEPT ![s] = [NoSvc EXCEPT !.st = "gone"]] \in [Svcs -> SvcRec]
BY ZenonT(30) DEF SvcRec, MaybeNode, NoSvc

LEMMA StartFields ==
  ASSUME start \in [Svcs -> StartRec], NEW s \in Svcs
  PROVE  /\ \A pc \in {"none", "resolve"} : [start EXCEPT ![s].pc = pc] \in [Svcs -> StartRec]
         /\ \A x \in StartRec : [start EXCEPT ![s] = x] \in [Svcs -> StartRec]
BY DEF StartRec

RemPcs == {"idle", "recheck", "find", "list"} \cup Cleared

LEMMA RemFields ==
  ASSUME rem \in [Removers -> RemRec], NEW r \in Removers
  PROVE  /\ \A pc \in RemPcs : [rem EXCEPT ![r].pc = pc] \in [Removers -> RemRec]
         /\ \A t \in SUBSET Svcs : [rem EXCEPT ![r].todo = t] \in [Removers -> RemRec]
         /\ \A t \in SUBSET Svcs :
              [rem EXCEPT ![r].pc = "clear", ![r].todo = t] \in [Removers -> RemRec]
         /\ \A b \in BOOLEAN :
              [rem EXCEPT ![r].pc = "list", ![r].found = b] \in [Removers -> RemRec]
         /\ \A x \in RemRec : [rem EXCEPT ![r] = x] \in [Removers -> RemRec]
<1>1. /\ \A x \in RemRec, pc \in RemPcs : [x EXCEPT !.pc = pc] \in RemRec
      /\ \A x \in RemRec, t \in SUBSET Svcs : [x EXCEPT !.todo = t] \in RemRec
      /\ \A x \in RemRec, b \in BOOLEAN : [x EXCEPT !.found = b] \in RemRec
  BY Zenon DEF RemRec, RemPcs
<1>2. "clear" \in RemPcs /\ "list" \in RemPcs
  BY DEF RemPcs, Cleared
<1>3. /\ \A pc \in RemPcs : [rem EXCEPT ![r].pc = pc] \in [Removers -> RemRec]
      /\ \A x \in RemRec : [rem EXCEPT ![r] = x] \in [Removers -> RemRec]
      /\ \A t \in SUBSET Svcs : [rem EXCEPT ![r].todo = t] \in [Removers -> RemRec]
  BY <1>1
<1>4. ASSUME NEW t \in SUBSET Svcs
      PROVE  [rem EXCEPT ![r].pc = "clear", ![r].todo = t] \in [Removers -> RemRec]
  <2>1. [[rem[r] EXCEPT !.pc = "clear"] EXCEPT !.todo = t] \in RemRec
    BY <1>1, <1>2
  <2> QED
    BY <2>1
<1>5. ASSUME NEW b \in BOOLEAN
      PROVE  [rem EXCEPT ![r].pc = "list", ![r].found = b] \in [Removers -> RemRec]
  <2>1. [[rem[r] EXCEPT !.pc = "list"] EXCEPT !.found = b] \in RemRec
    BY <1>1, <1>2
  <2> QED
    BY <2>1
<1> QED
  BY <1>3, <1>4, <1>5

\* What an attempt to pin, or to clear a pin, can do.
LEMMA AcceptedTypes ==
  ASSUME TypeOK, NEW c \in Clients, NEW s \in Svcs, NEW n \in MaybeNode,
         NEW missing \in SUBSET Svcs, Accepted(c, s, n, missing)
  PROVE  /\ svc' \in [Svcs -> SvcRec] /\ fresh' \in [Clients -> SUBSET Svcs]
         /\ missed' \subseteq Svcs /\ faults' \in 0 .. MaxFaults
<1>1. svc' \in [Svcs -> SvcRec]
  <2>1. svc \in [Svcs -> SvcRec] /\ svc' = [svc EXCEPT ![s].pin = n]
    BY DEF TypeOK, Accepted
  <2> QED
    BY <2>1, SvcFields
<1> QED
  BY <1>1 DEF TypeOK, Accepted, NoFault

LEMMA PinTypes ==
  ASSUME TypeOK, NEW c \in Clients, NEW s \in Svcs, NEW n \in MaybeNode, Pin(c, s, n)
  PROVE  /\ svc' \in [Svcs -> SvcRec] /\ fresh' \in [Clients -> SUBSET Svcs]
         /\ missed' \subseteq Svcs /\ faults' \in 0 .. MaxFaults
<1>1. ASSUME NEW missing \in SUBSET Svcs, Accepted(c, s, n, missing)
      PROVE  /\ svc' \in [Svcs -> SvcRec] /\ fresh' \in [Clients -> SUBSET Svcs]
             /\ missed' \subseteq Svcs /\ faults' \in 0 .. MaxFaults
  BY <1>1, AcceptedTypes
<1>2. CASE Refused(c, s)
  BY <1>2 DEF TypeOK, Refused, Unchanged, NoFault
<1>3. CASE Unchanged /\ Fault
  BY <1>3, PlacementAssumption DEF TypeOK, Unchanged, Fault
<1>4. CASE Accepted(c, s, n, IF Doomed(n) THEN missed \cup {s} ELSE missed \ {s})
  <2>1. (IF Doomed(n) THEN missed \cup {s} ELSE missed \ {s}) \in SUBSET Svcs
    BY DEF TypeOK
  <2> QED
    BY <1>1, <1>4, <2>1
<1> QED
  BY <1>2, <1>3, <1>4 DEF Pin

LEMMA StartTypes ==
  ASSUME TypeOK, NEW s \in Svcs, Create(s) \/ Resolve(s) \/ PinNew(s)
  PROVE  TypeOK'
<1>0. svc \in [Svcs -> SvcRec] /\ start \in [Svcs -> StartRec] /\ "start" \in Clients
  BY DEF TypeOK, Clients
<1>1. CASE Create(s)
  <2>1. svc' \in [Svcs -> SvcRec]
    BY <1>0, <1>1, SvcFields DEF Create
  <2>2. start' \in [Svcs -> StartRec]
    BY <1>0, <1>1, StartFields DEF Create
  <2> QED
    BY <1>1, <2>1, <2>2 DEF Create, TypeOK
<1>2. CASE Resolve(s)
  <2>1. CASE start' = [start EXCEPT ![s] = [pc |-> "pin", node |-> svc[s].at]]
    <3>1. [pc |-> "pin", node |-> svc[s].at] \in StartRec
      BY <1>0 DEF SvcRec, StartRec
    <3>2. start' \in [Svcs -> StartRec]
      BY <1>0, <2>1, <3>1, StartFields
    <3> QED
      BY <1>2, <3>2 DEF Resolve, TypeOK
  <2>2. CASE start' = [start EXCEPT ![s] = NoStart]
    <3>1. start' \in [Svcs -> StartRec]
      BY <1>0, <2>2, Resets, StartFields
    <3> QED
      BY <1>2, <3>1 DEF Resolve, TypeOK
  <2> QED
    BY <1>2, <2>1, <2>2 DEF Resolve
<1>3. CASE PinNew(s)
  <2>1. start' \in [Svcs -> StartRec]
    BY <1>0, <1>3, Resets, StartFields DEF PinNew
  <2>2. start[s].node \in MaybeNode
    BY <1>0 DEF StartRec
  <2>3. /\ svc' \in [Svcs -> SvcRec] /\ fresh' \in [Clients -> SUBSET Svcs]
        /\ missed' \subseteq Svcs /\ faults' \in 0 .. MaxFaults
    BY <1>0, <1>3, <2>2, PinTypes DEF PinNew
  <2> QED
    BY <1>3, <2>1, <2>3 DEF PinNew, TypeOK
<1> QED
  BY <1>1, <1>2, <1>3

LEMMA RebTypes ==
  ASSUME TypeOK, RebNodes \/ Rebalance
  PROVE  TypeOK'
<1>0. /\ reb \in RebRec /\ reb.runs \in 0 .. Rebalances /\ NoReb(reb.runs) \in RebRec
      /\ "rebalance" \in Clients
  BY Resets DEF TypeOK, RebRec, Clients
<1>1. CASE RebNodes
  <2>1. reb.runs + 1 \in 0 .. Rebalances
    BY <1>0, <1>1, PlacementAssumption DEF RebNodes
  <2>2. reb' \in RebRec
    BY <1>1, <2>1 DEF RebNodes, NoReb, RebRec, NoMembers
  <2> QED
    BY <1>1, <2>2 DEF RebNodes, TypeOK
<1>2. CASE RebList
  <2>1. {s \in Svcs : Live(s)} \in SUBSET Svcs
    OBVIOUS
  <2>2. reb' \in RebRec
    BY <1>0, <1>2, <2>1 DEF RebList, RebRec
  <2>3. fresh' \in [Clients -> SUBSET Svcs]
    BY <1>0, <1>2, <2>1 DEF RebList, TypeOK
  <2> QED
    BY <1>2, <2>2, <2>3 DEF RebList, TypeOK
<1>3. CASE RebPlan
  <2>1. reb' \in RebRec
    BY <1>0, <1>3 DEF RebPlan, RebRec
  <2> QED
    BY <1>3, <2>1 DEF RebPlan, TypeOK
<1>4. CASE RebEnd
  BY <1>0, <1>4 DEF RebEnd, TypeOK
<1>5. ASSUME NEW s \in Svcs, RebTasks(s)
      PROVE  TypeOK'
  <2>1. [n \in Nodes |-> IF s \in RunningOn(n) THEN reb.members[n] \cup {s}
                                               ELSE reb.members[n]]
          \in [Nodes -> SUBSET Svcs]
    BY <1>0 DEF RebRec
  <2>2. CASE reb' = NoReb(reb.runs)
    BY <1>0, <1>5, <2>2 DEF RebTasks, TypeOK
  <2>3. CASE Live(s)
    <3>1. reb' \in RebRec
      <4> DEFINE m == [n \in Nodes |-> IF s \in RunningOn(n) THEN reb.members[n] \cup {s}
                                                             ELSE reb.members[n]]
      <4>1. reb' = [[reb EXCEPT !.unread = @ \ {s}] EXCEPT !.members = m]
        BY <1>0, <1>5, <2>3 DEF RebTasks, RebRec
      <4>2. [reb EXCEPT !.unread = @ \ {s}] \in RebRec
        BY <1>0 DEF RebRec
      <4>3. m \in [Nodes -> SUBSET Svcs]
        BY <2>1
      <4> HIDE DEF m
      <4> QED
        BY <4>1, <4>2, <4>3 DEF RebRec
    <3> QED
      BY <1>5, <3>1 DEF RebTasks, TypeOK
  <2> QED
    BY <1>5, <2>2, <2>3 DEF RebTasks
<1>6. ASSUME NEW s \in Svcs, NEW n \in Nodes, RebMove(s, n)
      PROVE  TypeOK'
  <2>1. PICK src \in Nodes : reb' = [reb EXCEPT !.members = Moved(s, src, n)]
    BY <1>6 DEF RebMove
  <2>2. Moved(s, src, n) \in [Nodes -> SUBSET Svcs]
    BY <1>0 DEF RebRec, Moved
  <2>3. reb' \in RebRec
    BY <1>0, <2>1, <2>2 DEF RebRec
  <2>4. /\ svc' \in [Svcs -> SvcRec] /\ fresh' \in [Clients -> SUBSET Svcs]
        /\ missed' \subseteq Svcs /\ faults' \in 0 .. MaxFaults
    BY <1>0, <1>6, PinTypes DEF RebMove, MaybeNode
  <2> QED
    BY <1>6, <2>3, <2>4 DEF RebMove, TypeOK
<1> QED
  BY <1>1, <1>2, <1>3, <1>4, <1>5, <1>6 DEF Rebalance

LEMMA RemovalTypes ==
  ASSUME TypeOK, RemInv, NEW r \in Removers, Removal(r) \/ Dies(r)
  PROVE  TypeOK'
<1>0. /\ rem \in [Removers -> RemRec] /\ NoRem \in RemRec
      /\ RemPcs = {"idle", "recheck", "find", "list", "clear", "wait", "remove", "destroy"}
      /\ rem[r].pc # "idle" => rem[r].node \in Nodes
      /\ r \in Clients /\ r \in Removers
  BY Resets DEF TypeOK, RemPcs, Cleared, Clients, RemInv
<1>1. ASSUME NoFault \/ Fault \/ UNCHANGED faults
      PROVE  faults' \in 0 .. MaxFaults
  BY <1>1, PlacementAssumption DEF TypeOK, NoFault, Fault
<1>2. CASE Recheck(r)
  <2>1. rem' \in [Removers -> RemRec]
    <3>1. CASE RemGo(r, "find")
      BY <1>0, <3>1, RemFields DEF RemGo
    <3>2. CASE RemStop(r)
      BY <1>0, <3>2, RemFields DEF RemStop
    <3> QED
      BY <1>2, <3>1, <3>2 DEF Recheck
  <2>2. faults' \in 0 .. MaxFaults
    BY <1>1, <1>2 DEF Recheck
  <2> QED
    BY <1>2, <2>1, <2>2 DEF Recheck, TypeOK
<1>3. CASE Find(r)
  <2>1. rem' \in [Removers -> RemRec]
    <3>1. (node[rem[r].node] # "gone") \in BOOLEAN
      OBVIOUS
    <3>2. CASE rem' = [rem EXCEPT ![r].pc = "list", ![r].found = node[rem[r].node] # "gone"]
      BY <1>0, <3>1, <3>2, RemFields
    <3>3. CASE RemGo(r, "list")
      BY <1>0, <3>3, RemFields DEF RemGo
    <3> QED
      BY <1>3, <3>2, <3>3 DEF Find
  <2>2. undrained' \subseteq Nodes
    BY <1>0, <1>3 DEF Find, Presumed, TypeOK
  <2> QED
    BY <1>1, <1>3, <2>1, <2>2 DEF Find, TypeOK
<1>4. CASE ListPins(r)
  <2> DEFINE pinned == PinnedTo(rem[r].node)
  <2>0. pinned \in SUBSET Svcs
    BY DEF PinnedTo
  <2> HIDE DEF pinned
  <2>1. CASE rem' = [rem EXCEPT ![r].pc = "clear", ![r].todo = pinned]
             /\ fresh' = [fresh EXCEPT ![r] = pinned] /\ UNCHANGED missed /\ NoFault
    <3>1. rem' \in [Removers -> RemRec]
      BY <1>0, <2>0, <2>1, RemFields
    <3> QED
      BY <1>0, <1>1, <1>4, <2>0, <2>1, <3>1 DEF ListPins, TypeOK
  <2>2. CASE RemGo(r, "clear") /\ missed' = missed \cup pinned /\ UNCHANGED fresh /\ Fault
    <3>1. rem' \in [Removers -> RemRec]
      BY <1>0, <2>2, RemFields DEF RemGo
    <3> QED
      BY <1>0, <1>1, <1>4, <2>0, <2>2, <3>1 DEF ListPins, TypeOK
  <2>3. CASE RemStop(r) /\ UNCHANGED <<fresh, missed>> /\ Fault
    <3>1. rem' \in [Removers -> RemRec]
      BY <1>0, <2>3, RemFields DEF RemStop
    <3> QED
      BY <1>0, <1>1, <1>4, <2>3, <3>1 DEF ListPins, TypeOK
  <2> QED
    BY <1>4, <2>1, <2>2, <2>3 DEF ListPins, pinned
<1>5. ASSUME NEW s \in Svcs, Unpin(r, s)
      PROVE  TypeOK'
  <2>1. rem' \in [Removers -> RemRec]
    <3>1. rem[r].todo \ {s} \in SUBSET Svcs
      BY <1>0 DEF RemRec
    <3> QED
      BY <1>0, <1>5, <3>1, RemFields DEF Unpin
  <2>2. /\ svc' \in [Svcs -> SvcRec] /\ fresh' \in [Clients -> SUBSET Svcs]
        /\ missed' \subseteq Svcs /\ faults' \in 0 .. MaxFaults
    <3>1. CASE Accepted(r, s, NoNode, missed \ {s})
      <4>1. missed \ {s} \in SUBSET Svcs /\ NoNode \in MaybeNode
        BY DEF TypeOK, MaybeNode
      <4> QED
        BY <1>0, <3>1, <4>1, AcceptedTypes
    <3>2. CASE Refused(r, s)
      BY <3>2 DEF TypeOK, Refused, Unchanged, NoFault
    <3>3. CASE ~Accepted(r, s, NoNode, missed \ {s}) /\ ~Refused(r, s)
      BY <1>1, <1>5, <3>3 DEF TypeOK, Unpin
    <3> QED
      BY <3>1, <3>2, <3>3
  <2> QED
    BY <1>5, <2>1, <2>2 DEF Unpin, TypeOK
<1>6. CASE Skip(r)
  <2>1. undrained' \subseteq Nodes
    BY <1>0, <1>6 DEF Skip, Presumed, TypeOK
  <2>2. rem' \in [Removers -> RemRec]
    BY <1>0, <1>6, RemFields DEF Skip, RemGo
  <2> QED
    BY <1>6, <2>1, <2>2 DEF Skip, TypeOK
<1>7. CASE Drain(r)
  <2>1. rem' \in [Removers -> RemRec]
    BY <1>0, <1>7, RemFields DEF Drain, RemGo
  <2>2. undrained' \subseteq Nodes
    BY <1>0, <1>7 DEF Drain, Presumed, TypeOK
  <2> QED
    BY <1>1, <1>7, <2>1, <2>2 DEF Drain, TypeOK
<1>8. CASE Wait(r)
  <2>1. rem' \in [Removers -> RemRec]
    BY <1>0, <1>8, RemFields DEF Wait, RemGo
  <2>2. undrained' \subseteq Nodes
    BY <1>0, <1>8 DEF Wait, Presumed, TypeOK
  <2> QED
    BY <1>1, <1>8, <2>1, <2>2 DEF Wait, TypeOK
<1>9. CASE RemoveNode(r)
  <2>1. rem' \in [Removers -> RemRec]
    BY <1>0, <1>9, RemFields DEF RemoveNode, RemGo
  <2> QED
    BY <1>1, <1>9, <2>1 DEF RemoveNode, TypeOK
<1>10. CASE Destroy(r)
  BY <1>0, <1>1, <1>10, RemFields DEF Destroy, RemStop, TypeOK
<1>11. CASE Dies(r)
  BY <1>0, <1>1, <1>11, RemFields DEF Dies, RemStop, TypeOK
<1> QED
  BY <1>2, <1>3, <1>4, <1>5, <1>6, <1>7, <1>8, <1>9, <1>10, <1>11 DEF Removal

LEMMA RemoveTypes ==
  ASSUME TypeOK, NEW r \in Removers, NEW n \in Nodes, NEW k \in Kinds, Remove(r, n, k)
  PROVE  TypeOK' /\ \E pc \in {"recheck", "find", "list"}, x \in RemRec :
                      rem' = [rem EXCEPT ![r] = x] /\ x.pc = pc /\ x.node = n
<1>1. k \in {"auto", "graceful", "force"}
  BY PlacementAssumption
<1> DEFINE pc0 == CASE k = "auto" -> "recheck" [] k = "graceful" -> "find"
                    [] k = "force" -> "list"
           x0 == [NoRem EXCEPT !.pc = pc0, !.node = n, !.kind = k]
<1>2. pc0 \in {"recheck", "find", "list"}
  BY <1>1
<1>3. rem' = [rem EXCEPT ![r] = x0]
  BY DEF Remove
<1> HIDE DEF pc0
<1>4. x0 \in RemRec /\ x0.pc = pc0 /\ x0.node = n
  BY <1>1, <1>2 DEF NoRem, RemRec, MaybeNode
<1> HIDE DEF x0
<1>5. rem' \in [Removers -> RemRec]
  BY <1>3, <1>4, RemFields DEF TypeOK
<1>6. TypeOK'
  BY <1>5 DEF Remove, TypeOK
<1> QED
  BY <1>2, <1>3, <1>4, <1>6

LEMMA SwarmTypes ==
  ASSUME TypeOK, NEW s \in Svcs,
         \/ TaskRuns(s) \/ TaskEnds(s) \/ StopHost(s) \/ \E n \in Nodes : Schedule(s, n)
  PROVE  TypeOK'
<1>0. svc \in [Svcs -> SvcRec]
  BY DEF TypeOK
<1>1. svc' \in [Svcs -> SvcRec]
  <2>1. CASE TaskRuns(s)
    BY <1>0, <2>1, SvcFields DEF TaskRuns
  <2>2. CASE TaskEnds(s)
    BY <1>0, <2>2, SvcFields DEF TaskEnds
  <2>3. CASE StopHost(s)
    BY <1>0, <2>3, SvcFields DEF StopHost
  <2>4. ASSUME NEW n \in Nodes, Schedule(s, n)
        PROVE  svc' \in [Svcs -> SvcRec]
    BY <1>0, <2>4, SvcFields DEF Schedule, MaybeNode
  <2> QED
    BY <2>1, <2>2, <2>3, <2>4
<1> QED
  BY <1>1 DEF TaskRuns, TaskEnds, StopHost, Schedule, TypeOK

-----------------------------------------------------------------------------
(* Pins. *)

\* A step that leaves pins, nodes, removals and their copies alone, or clears
\* pins, keeps PinInv.
LEMMA PinFrame ==
  ASSUME PinInv, UNCHANGED <<node, droplet, missed>>,
         \A s \in Svcs : svc'[s].pin \in {NoNode, svc[s].pin},
         \A r \in Removers : /\ fresh'[r] = fresh[r]
                             /\ \/ rem'[r] = rem[r]
                                \/ rem'[r].pc \notin Cleared
  PROVE  PinInv'
BY DEF PinInv, Usable, Listed

\* One try to pin a service, by a start or the rebalancer.
LEMMA PinKept ==
  ASSUME IInv, NEW c \in {"start", "rebalance"}, NEW s \in Svcs, NEW n \in MaybeNode,
         Pin(c, s, n), UNCHANGED <<node, droplet, rem>>
  PROVE  DeadInv' /\ PinInv'
<1>0. svc \in [Svcs -> SvcRec] /\ fresh \in [Clients -> SUBSET Svcs] /\ c \in Clients
      /\ c \notin Removers /\ Removers \subseteq Clients
  BY PlacementAssumption DEF IInv, TypeOK, Clients
<1>1. CASE Unchanged
  BY <1>1 DEF Unchanged, IInv, DeadInv, PinInv, Live, Usable, Listed
<1>2. ASSUME NEW missing,
             missing = IF Doomed(n) THEN missed \cup {s} ELSE missed \ {s},
             Accepted(c, s, n, missing)
      PROVE  DeadInv' /\ PinInv'
  <2>1. /\ \A t \in Svcs : t # s => svc'[t] = svc[t]
        /\ svc'[s].pin = n /\ svc'[s].at = svc[s].at /\ svc'[s].st = "live"
    BY <1>0, <1>2 DEF Accepted, Live, SvcRec
  <2>2. DeadInv'
    BY <2>1 DEF IInv, DeadInv, Live
  <2>3. \A r \in Removers : fresh'[r] = fresh[r] \ {s}
    BY <1>0, <1>2 DEF Accepted
  <2>4. PinInv'
    <3> SUFFICES ASSUME NEW t \in Svcs, svc'[t].pin # NoNode, t \notin missed'
                 PROVE  /\ Usable(svc[t].pin)'
                        /\ \A r \in Removers :
                             rem'[r].node = svc'[t].pin /\ rem'[r].pc \in Cleared => Listed(r, t)'
      BY DEF PinInv
    <3>1. missed' = missing
      BY <1>2 DEF Accepted
    <3>2. CASE t = s
      <4>1. ~Doomed(n)
        BY <1>2, <3>1, <3>2
      <4>2. Usable(n) /\ \A r \in Removers : ~(rem[r].node = n /\ rem[r].pc \in Cleared)
        BY <4>1 DEF Doomed
      <4> QED
        BY <2>1, <3>2, <4>2 DEF Usable
    <3>3. CASE t # s
      BY <1>2, <2>1, <2>3, <3>1, <3>3 DEF IInv, PinInv, Usable, Listed
    <3> QED
      BY <3>2, <3>3
  <2> QED
    BY <2>2, <2>4
<1> QED
  BY <1>1, <1>2 DEF Pin, Refused

LEMMA RemovalPins ==
  ASSUME IInv, NEW r \in Removers, Removal(r) \/ Dies(r)
  PROVE  DeadInv' /\ PinInv'
<1>0. /\ svc \in [Svcs -> SvcRec] /\ fresh \in [Clients -> SUBSET Svcs] /\ r \in Clients
      /\ Removers \subseteq Clients
      /\ rem \in [Removers -> RemRec] /\ node \in [Nodes -> {"active", "drain", "gone"}]
      /\ rem[r].pc # "idle" => rem[r].node \in Nodes
  BY DEF IInv, TypeOK, Clients, RemInv
<1>1. \A q \in Removers : q # r => rem'[q] = rem[q]
  BY <1>0 DEF Removal, Dies, Recheck, Find, ListPins, Unpin, Skip, Drain, Wait, RemoveNode,
              Destroy, RemGo, RemStop
<1>2. ASSUME rem'[r].pc \notin Cleared, UNCHANGED <<node, droplet, svc, fresh, missed>>
      PROVE  DeadInv' /\ PinInv'
  <2>1. PinInv'
    BY <1>1, <1>2, PinFrame DEF IInv
  <2> QED
    BY <1>2, <2>1 DEF IInv, DeadInv, Live
<1>3. CASE Recheck(r)
  BY <1>0, <1>2, <1>3, Resets DEF Recheck, RemGo, RemStop, RemRec, Cleared
<1>4. CASE Find(r)
  <2>1. rem'[r].pc = "list"
    BY <1>0, <1>4 DEF Find, RemGo, RemRec
  <2> QED
    BY <1>2, <1>4, <2>1 DEF Find, Cleared
<1>5. CASE ListPins(r)
  <2> DEFINE pinned == PinnedTo(rem[r].node)
  <2>1. \A t \in Svcs : svc[t].pin = rem[r].node /\ svc[t].pin # NoNode => t \in pinned
    BY DEF IInv, DeadInv, PinnedTo, Live
  <2>2. DeadInv'
    BY <1>5 DEF ListPins, IInv, DeadInv, Live
  <2>3. CASE rem' = [rem EXCEPT ![r].pc = "clear", ![r].todo = pinned]
             /\ fresh' = [fresh EXCEPT ![r] = pinned] /\ UNCHANGED missed
    <3>1. rem'[r].pc = "clear" /\ rem'[r].todo = pinned /\ rem'[r].node = rem[r].node
          /\ fresh'[r] = pinned
      BY <1>0, <2>3 DEF RemRec
    <3>2. \A q \in Removers : q # r => fresh'[q] = fresh[q]
      BY <1>0, <2>3
    <3> HIDE DEF pinned
    <3>3. UNCHANGED <<node, droplet, svc, missed>>
      BY <1>5, <2>3 DEF ListPins
    <3>4. PinInv'
      <4> SUFFICES ASSUME NEW t \in Svcs, svc[t].pin # NoNode, t \notin missed
                   PROVE  /\ Usable(svc[t].pin)
                          /\ \A q \in Removers :
                               rem'[q].node = svc[t].pin /\ rem'[q].pc \in Cleared
                                 => Listed(q, t)'
        BY <3>3 DEF PinInv, Usable
      <4>1. Usable(svc[t].pin)
        BY DEF IInv, PinInv
      <4>2. ASSUME NEW q \in Removers, rem'[q].node = svc[t].pin, rem'[q].pc \in Cleared
            PROVE  Listed(q, t)'
        <5>1. CASE q = r
          BY <2>1, <3>1, <4>2, <5>1 DEF Listed
        <5>2. CASE q # r
          BY <1>1, <3>2, <4>2, <5>2 DEF IInv, PinInv, Listed
        <5> QED
          BY <5>1, <5>2
      <4> QED
        BY <4>1, <4>2
    <3> QED
      BY <2>2, <3>4
  <2>4. CASE RemGo(r, "clear") /\ missed' = missed \cup pinned /\ UNCHANGED fresh
    <3>1. rem'[r].node = rem[r].node
      BY <1>0, <2>4 DEF RemGo, RemRec
    <3> HIDE DEF pinned
    <3>2. PinInv'
      BY <1>1, <1>5, <2>1, <2>4, <3>1 DEF ListPins, IInv, PinInv, Usable, Listed
    <3> QED
      BY <2>2, <3>2
  <2>5. CASE RemStop(r) /\ UNCHANGED <<fresh, missed>>
    BY <1>0, <1>2, <1>5, <2>5, Resets DEF ListPins, RemStop, Cleared
  <2> QED
    BY <1>5, <2>3, <2>4, <2>5 DEF ListPins
<1>6. ASSUME NEW s \in Svcs, Unpin(r, s)
      PROVE  DeadInv' /\ PinInv'
  <2>1. /\ rem'[r].pc = "clear" /\ rem'[r].todo = rem[r].todo \ {s}
        /\ rem'[r].node = rem[r].node
    BY <1>0, <1>6 DEF Unpin, RemRec
  <2>2. CASE Accepted(r, s, NoNode, missed \ {s})
    <3>1. /\ \A t \in Svcs : t # s => svc'[t] = svc[t]
          /\ svc'[s].pin = NoNode /\ svc'[s].at = svc[s].at /\ svc'[s].st = "live"
      BY <1>0, <2>2 DEF Accepted, Live, SvcRec
    <3>2. \A q \in Removers : fresh'[q] = fresh[q] \ {s}
      BY <1>0, <2>2 DEF Accepted
    <3>3. DeadInv'
      BY <3>1 DEF IInv, DeadInv, Live
    <3>4. missed' = missed \ {s} /\ UNCHANGED <<node, droplet>>
      BY <1>6, <2>2 DEF Unpin, Accepted
    <3>5. PinInv'
      <4> SUFFICES ASSUME NEW t \in Svcs, svc'[t].pin # NoNode, t \notin missed'
                   PROVE  /\ Usable(svc[t].pin)
                          /\ \A q \in Removers :
                               rem'[q].node = svc[t].pin /\ rem'[q].pc \in Cleared
                                 => Listed(q, t)'
        BY <3>1, <3>4 DEF PinInv, Usable
      <4>0. t # s /\ svc[t].pin # NoNode /\ t \notin missed
        BY <3>1, <3>4
      <4>1. Usable(svc[t].pin)
        BY <4>0 DEF IInv, PinInv
      <4>2. ASSUME NEW q \in Removers, rem'[q].node = svc[t].pin, rem'[q].pc \in Cleared
            PROVE  Listed(q, t)'
        <5>1. CASE q = r
          <6>1. Listed(r, t)
            BY <1>6, <2>1, <4>0, <4>2, <5>1 DEF IInv, PinInv, Unpin, Cleared
          <6> QED
            BY <2>1, <3>2, <4>0, <5>1, <6>1 DEF Listed
        <5>2. CASE q # r
          BY <1>1, <3>2, <4>0, <4>2, <5>2 DEF IInv, PinInv, Listed
        <5> QED
          BY <5>1, <5>2
      <4> QED
        BY <4>1, <4>2
    <3> QED
      BY <3>3, <3>5
  <2>3. CASE Refused(r, s) \/ (/\ missed' = IF svc[s].pin = rem[r].node THEN missed \cup {s}
                                                                         ELSE missed
                               /\ UNCHANGED <<svc, fresh>>)
    <3>1. /\ UNCHANGED <<svc, fresh, node, droplet>>
          /\ missed' = missed \/ missed' = missed \cup {s}
      BY <1>6, <2>3 DEF Unpin, Refused, Unchanged
    <3>2. s \in missed' \/ svc[s].pin = NoNode \/ svc[s].pin # rem[r].node
      <4>1. CASE Refused(r, s)
        BY <1>6, <4>1 DEF Unpin, Refused, Unchanged, IInv, PinInv, DeadInv, Listed, Live, Cleared
      <4>2. CASE ~Refused(r, s)
        BY <2>3, <4>2
      <4> QED
        BY <4>1, <4>2
    <3>3. DeadInv'
      BY <3>1 DEF IInv, DeadInv, Live
    <3>4. PinInv'
      BY <1>1, <1>6, <2>1, <3>1, <3>2 DEF IInv, PinInv, Usable, Listed, Cleared, Unpin
    <3> QED
      BY <3>3, <3>4
  <2> QED
    BY <1>6, <2>2, <2>3 DEF Unpin
<1>7. \* Past the list nothing that counts is pinned to the node.
      ASSUME rem[r].pc \in Cleared, rem[r].pc = "clear" => rem[r].todo = {},
             rem'[r].pc \in Cleared => rem'[r].node = rem[r].node,
             \A n \in Nodes : n # rem[r].node =>
               node'[n] = node[n] /\ (n \in droplet' <=> n \in droplet),
             UNCHANGED <<svc, fresh, missed>>
      PROVE  DeadInv' /\ PinInv'
  <2>1. \A t \in Svcs : svc[t].pin # NoNode /\ t \notin missed => svc[t].pin # rem[r].node
    BY <1>7 DEF IInv, PinInv, Listed
  <2>2. \A t \in Svcs : svc[t].pin # NoNode => svc[t].pin \in Nodes
    BY <1>0 DEF SvcRec, MaybeNode
  <2>3. PinInv'
    BY <1>1, <1>7, <2>1, <2>2 DEF IInv, PinInv, Usable, Listed
  <2> QED
    BY <1>7, <2>3 DEF IInv, DeadInv, Live
<1>8. CASE Skip(r) \/ Drain(r)
  BY <1>0, <1>7, <1>8 DEF Skip, Drain, RemGo, RemRec, Cleared
<1>9. CASE Wait(r) \/ RemoveNode(r)
  BY <1>0, <1>7, <1>9 DEF Wait, RemoveNode, RemGo, RemRec, Cleared
<1>10. CASE Destroy(r)
  BY <1>0, <1>7, <1>10, Resets DEF Destroy, RemStop, RemRec, Cleared
<1>11. CASE Dies(r)
  BY <1>0, <1>2, <1>11, Resets DEF Dies, RemStop, Cleared
<1> QED
  BY <1>3, <1>4, <1>5, <1>6, <1>8, <1>9, <1>10, <1>11 DEF Removal

LEMMA RemovalNames ==
  ASSUME TypeOK, RemInv, NEW r \in Removers, Removal(r) \/ Dies(r)
  PROVE  RemInv'
<1>0. rem \in [Removers -> RemRec]
  BY DEF TypeOK
<1>1. \A q \in Removers : q # r => rem'[q] = rem[q]
  BY <1>0 DEF Removal, Dies, Recheck, Find, ListPins, Unpin, Skip, Drain, Wait, RemoveNode,
              Destroy, RemGo, RemStop
<1>2. rem[r].pc # "idle" => rem[r].node \in Nodes
  BY DEF RemInv
<1>3. rem'[r].pc = "idle" \/ (rem[r].pc # "idle" /\ rem'[r].node = rem[r].node)
  <2>1. CASE Recheck(r) \/ Find(r)
    BY <1>0, <2>1, Resets DEF Recheck, Find, RemGo, RemStop, RemRec
  <2>2. CASE ListPins(r)
    BY <1>0, <2>2, Resets DEF ListPins, RemGo, RemStop, RemRec
  <2>3. ASSUME NEW s \in Svcs, Unpin(r, s)
        PROVE  rem'[r].node = rem[r].node /\ rem[r].pc # "idle"
    BY <1>0, <2>3 DEF Unpin, RemRec
  <2>4. CASE Skip(r) \/ Drain(r) \/ Wait(r) \/ RemoveNode(r)
    BY <1>0, <2>4 DEF Skip, Drain, Wait, RemoveNode, RemGo, RemRec
  <2>5. CASE Destroy(r) \/ Dies(r)
    BY <1>0, <2>5, Resets DEF Destroy, Dies, RemStop
  <2> QED
    BY <2>1, <2>2, <2>3, <2>4, <2>5 DEF Removal
<1> QED
  BY <1>1, <1>2, <1>3 DEF RemInv

LEMMA RemoveKept ==
  ASSUME IInv, NEW r \in Removers, NEW n \in Nodes, NEW k \in Kinds, Remove(r, n, k)
  PROVE  IInv'
<1>0. TypeOK /\ rem \in [Removers -> RemRec]
  BY DEF IInv, TypeOK
<1>1. PICK pc \in {"recheck", "find", "list"}, x \in RemRec :
        rem' = [rem EXCEPT ![r] = x] /\ x.pc = pc /\ x.node = n
  BY <1>0, RemoveTypes
<1>2. TypeOK'
  BY <1>0, RemoveTypes
<1>3. rem'[r].pc \notin Cleared /\ rem'[r].node = n /\ \A q \in Removers : q # r => rem'[q] = rem[q]
  BY <1>0, <1>1 DEF Cleared
<1>4. UNCHANGED <<node, droplet, svc, fresh, missed>>
  BY DEF Remove
<1>5. PinInv'
  BY <1>3, <1>4, PinFrame DEF IInv
<1>6. DeadInv'
  BY <1>4 DEF IInv, DeadInv, Live
<1>7. RemInv'
  BY <1>3 DEF IInv, RemInv
<1> QED
  BY <1>2, <1>5, <1>6, <1>7 DEF IInv

LEMMA StartKept ==
  ASSUME IInv, NEW s \in Svcs, Create(s) \/ Resolve(s) \/ PinNew(s)
  PROVE  IInv'
<1>0. TypeOK /\ svc \in [Svcs -> SvcRec] /\ start \in [Svcs -> StartRec]
      /\ fresh \in [Clients -> SUBSET Svcs]
      /\ Removers \subseteq Clients /\ "start" \notin Removers
  BY PlacementAssumption DEF IInv, TypeOK, Clients
<1>1. TypeOK'
  BY <1>0, StartTypes
<1>2. UNCHANGED <<node, droplet, rem>>
  BY DEF Create, Resolve, PinNew
<1>3. RemInv'
  BY <1>2 DEF IInv, RemInv
<1>4. DeadInv' /\ PinInv'
  <2>1. CASE Create(s)
    <3>1. /\ svc'[s].pin = svc[s].pin /\ svc'[s].st = "live"
          /\ \A t \in Svcs : t # s => svc'[t] = svc[t]
      BY <1>0, <2>1 DEF Create, SvcRec
    <3>2. \A r \in Removers : fresh'[r] = fresh[r]
      BY <1>0, <2>1 DEF Create
    <3>3. \A t \in Svcs : svc'[t].pin \in {NoNode, svc[t].pin}
      BY <3>1
    <3>4. PinInv'
      BY <1>2, <2>1, <3>2, <3>3, PinFrame DEF Create, IInv
    <3>5. DeadInv'
      BY <3>1 DEF IInv, DeadInv, Live
    <3> QED
      BY <3>4, <3>5
  <2>2. CASE Resolve(s)
    BY <2>2 DEF Resolve, IInv, DeadInv, PinInv, Live, Usable, Listed
  <2>3. CASE PinNew(s)
    <3>1. start[s].node \in MaybeNode
      BY <1>0 DEF StartRec
    <3> QED
      BY <1>2, <2>3, <3>1, PinKept DEF PinNew
  <2> QED
    BY <2>1, <2>2, <2>3
<1> QED
  BY <1>1, <1>3, <1>4 DEF IInv

LEMMA RebKept ==
  ASSUME IInv, RebNodes \/ Rebalance
  PROVE  IInv'
<1>0. TypeOK /\ fresh \in [Clients -> SUBSET Svcs]
      /\ Removers \subseteq Clients /\ "rebalance" \notin Removers
  BY PlacementAssumption DEF IInv, TypeOK, Clients
<1>1. TypeOK'
  BY <1>0, RebTypes
<1>2. UNCHANGED <<node, droplet, rem>>
  BY DEF RebNodes, Rebalance, RebList, RebPlan, RebEnd, RebTasks, RebMove
<1>3. RemInv'
  BY <1>2 DEF IInv, RemInv
<1>4. ASSUME NEW s \in Svcs, NEW n \in Nodes, RebMove(s, n)
      PROVE  DeadInv' /\ PinInv'
  BY <1>2, <1>4, PinKept DEF RebMove, MaybeNode
<1>5. ASSUME UNCHANGED <<svc, missed>>, \A r \in Removers : fresh'[r] = fresh[r]
      PROVE  DeadInv' /\ PinInv'
  <2>1. \A s \in Svcs : svc'[s].pin \in {NoNode, svc[s].pin}
    BY <1>5
  <2>2. PinInv'
    BY <1>2, <1>5, <2>1, PinFrame DEF IInv
  <2> QED
    BY <1>5, <2>2 DEF IInv, DeadInv, Live
<1>6. DeadInv' /\ PinInv'
  <2>1. CASE RebNodes \/ RebPlan \/ RebEnd \/ \E s \in Svcs : RebTasks(s)
    BY <1>5, <2>1 DEF RebNodes, RebPlan, RebEnd, RebTasks
  <2>2. CASE RebList
    BY <1>0, <1>5, <2>2 DEF RebList
  <2> QED
    BY <1>4, <2>1, <2>2 DEF Rebalance
<1> QED
  BY <1>1, <1>3, <1>6 DEF IInv

LEMMA SwarmKept ==
  ASSUME IInv, NEW s \in Svcs,
         \/ TaskRuns(s) \/ TaskEnds(s) \/ StopHost(s) \/ \E n \in Nodes : Schedule(s, n)
  PROVE  IInv'
<1>0. TypeOK /\ svc \in [Svcs -> SvcRec]
  BY DEF IInv, TypeOK
<1>1. TypeOK'
  BY <1>0, SwarmTypes
<1>2. UNCHANGED <<node, droplet, rem, fresh, missed>>
  BY DEF TaskRuns, TaskEnds, StopHost, Schedule
<1>3. /\ \A t \in Svcs : t # s => svc'[t] = svc[t]
      /\ \/ svc'[s].pin = NoNode /\ svc'[s].at = NoNode
         \/ /\ svc'[s].pin = svc[s].pin /\ svc'[s].st = svc[s].st
            /\ svc'[s].st = "live" \/ svc'[s].at \in {NoNode, svc[s].at}
  <2>1. CASE StopHost(s)
    BY <1>0, <2>1 DEF StopHost, NoSvc, SvcRec
  <2>2. CASE TaskRuns(s)
    BY <1>0, <2>2 DEF TaskRuns, SvcRec
  <2>3. CASE TaskEnds(s)
    BY <1>0, <2>3 DEF TaskEnds, SvcRec
  <2>4. ASSUME NEW n \in Nodes, Schedule(s, n)
        PROVE  /\ \A t \in Svcs : t # s => svc'[t] = svc[t]
               /\ svc'[s].pin = svc[s].pin /\ svc'[s].st = svc[s].st /\ svc'[s].st = "live"
    BY <1>0, <2>4 DEF Schedule, Live, SvcRec
  <2> QED
    BY <2>1, <2>2, <2>3, <2>4
<1>4. DeadInv'
  BY <1>3 DEF IInv, DeadInv, Live
<1>5. PinInv'
  <2>1. \A t \in Svcs : svc'[t].pin \in {NoNode, svc[t].pin}
    BY <1>3
  <2> QED
    BY <1>2, <2>1, PinFrame DEF IInv
<1>6. RemInv'
  BY <1>2 DEF IInv, RemInv
<1> QED
  BY <1>1, <1>4, <1>5, <1>6 DEF IInv

-----------------------------------------------------------------------------
(* The theorems. *)

LEMMA NextKept ==
  ASSUME IInv, [Next]_vars
  PROVE  IInv'
<1>1. ASSUME NEW r \in Removers, Removal(r) \/ Dies(r)
      PROVE  IInv'
  BY <1>1, RemovalTypes, RemovalPins, RemovalNames DEF IInv
<1>2. CASE UNCHANGED vars
  BY <1>2 DEF vars, IInv, TypeOK, DeadInv, RemInv, PinInv, Live, Usable, Listed
<1> QED
  BY <1>1, <1>2, StartKept, RebKept, RemoveKept, SwarmKept DEF Next

\* Types, the names of removals and the two halves of the argument below hold in
\* every reachable state, whatever the nodes, the services and the processes.
THEOREM PlaceInductive == Spec => []IInv
<1> QED
  BY InitInv, NextKept, PTL DEF Spec

\* Every variable keeps its type: no removal names a node that is not there, no
\* step leaves a pin, a task or a copy of one outside what the code handles.
THEOREM PlaceTypes == Spec => []TypeOK
<1>1. IInv => TypeOK
  BY DEF IInv
<1> QED
  BY <1>1, PlaceInductive, PTL

\* Whatever starts, rebalances and removals run side by side, a service is left
\* pinned to a node that no longer exists only if it was pinned there after the
\* removal had listed the node's pins, or its unpin failed.
THEOREM OnlyMissedStranded == Spec => []StrandedOnlyIfMissed
<1>1. IInv => StrandedOnlyIfMissed
  BY DEF IInv, PinInv, StrandedOnlyIfMissed, Stranded, Lost, Usable
<1> QED
  BY <1>1, PlaceInductive, PTL

-----------------------------------------------------------------------------
(* Draining before destroying. *)

\* What a removal may count on at each of its points.
CleanRem(r) ==
  LET n == rem[r].node IN
    /\ rem[r].pc \in {"list", "clear"} /\ rem[r].kind # "force" /\ ~rem[r].found
         => n \in undrained \/ node[n] = "gone"
    /\ rem[r].pc = "wait" => n \in undrained \/ node[n] # "active"
    /\ rem[r].pc \in {"remove", "destroy"} =>
         n \in undrained \/ (node[n] # "active" /\ \A s \in Svcs : svc[s].at # n)

CleanInv == DrainedFirst /\ \A r \in Removers : CleanRem(r)

LEMMA InitClean == Init => CleanInv
<1> SUFFICES ASSUME Init PROVE CleanInv
  OBVIOUS
<1>1. IInv
  BY InitInv
<1>2. \A s \in Svcs : svc[s].at # NoNode => svc[s].at \in Nodes
  BY <1>1 DEF IInv, TypeOK, SvcRec, MaybeNode
<1>3. DrainedFirst
  BY <1>2 DEF Init, DrainedFirst, Lost
<1>4. \A r \in Removers : CleanRem(r)
  BY Resets DEF Init, CleanRem
<1> QED
  BY <1>3, <1>4 DEF CleanInv

\* A step that moves no removal past its wait: tasks appear on usable nodes only.
LEMMA CleanFrame ==
  ASSUME IInv, CleanInv, UNCHANGED <<node, droplet, undrained, rem>>,
         \A s \in Svcs : svc'[s].at \in {NoNode, svc[s].at} \cup {n \in Nodes : Usable(n)}
  PROVE  CleanInv'
<1>1. DrainedFirst'
  BY DEF CleanInv, DrainedFirst, Lost, Usable
<1>2. ASSUME NEW r \in Removers
      PROVE  CleanRem(r)'
  <2>1. rem[r].pc \in {"remove", "destroy"} => rem[r].node # NoNode
    BY PlacementAssumption DEF IInv, RemInv
  <2> QED
    BY <2>1 DEF CleanInv, CleanRem, Usable
<1> QED
  BY <1>1, <1>2 DEF CleanInv

LEMMA CleanOthers ==
  ASSUME IInv, CleanInv,
         \/ RebNodes \/ Rebalance
         \/ \E s \in Svcs : \/ Create(s) \/ Resolve(s) \/ PinNew(s)
                            \/ TaskRuns(s) \/ TaskEnds(s) \/ StopHost(s)
                            \/ \E n \in Nodes : Schedule(s, n)
  PROVE  CleanInv'
<1>0. svc \in [Svcs -> SvcRec]
  BY PlacementAssumption DEF IInv, TypeOK
<1>1. ASSUME NEW c, NEW s \in Svcs, NEW n, Pin(c, s, n), UNCHANGED <<node, droplet, undrained, rem>>
      PROVE  CleanInv'
  <2>1. \A t \in Svcs : svc'[t].at = svc[t].at
    BY <1>0, <1>1 DEF Pin, Accepted, Refused, Unchanged, SvcRec
  <2> QED
    BY <1>1, <2>1, CleanFrame
<1>2. CASE RebNodes \/ RebList \/ RebPlan \/ RebEnd \/ \E s \in Svcs : RebTasks(s)
  <2>1. /\ UNCHANGED <<node, droplet, svc, undrained, rem>>
    BY <1>2 DEF RebNodes, RebList, RebPlan, RebEnd, RebTasks
  <2> QED
    BY <2>1, CleanFrame
<1>3. ASSUME NEW s \in Svcs, NEW n \in Nodes, RebMove(s, n)
      PROVE  CleanInv'
  BY <1>1, <1>3 DEF RebMove
<1>4. ASSUME NEW s \in Svcs, Create(s) \/ Resolve(s) \/ TaskRuns(s) \/ TaskEnds(s) \/ StopHost(s)
      PROVE  CleanInv'
  <2>1. UNCHANGED <<node, droplet, undrained, rem>>
    BY <1>4 DEF Create, Resolve, TaskRuns, TaskEnds, StopHost
  <2>2. \A t \in Svcs : svc'[t].at \in {NoNode, svc[t].at}
    <3>1. CASE Create(s) \/ Resolve(s) \/ TaskRuns(s)
      BY <1>0, <3>1 DEF Create, Resolve, TaskRuns, SvcRec
    <3>2. CASE TaskEnds(s) \/ StopHost(s)
      BY <1>0, <3>2 DEF TaskEnds, StopHost, NoSvc, SvcRec
    <3> QED
      BY <1>4, <3>1, <3>2
  <2> QED
    BY <2>1, <2>2, CleanFrame
<1>5. ASSUME NEW s \in Svcs, PinNew(s)
      PROVE  CleanInv'
  BY <1>1, <1>5 DEF PinNew
<1>6. ASSUME NEW s \in Svcs, NEW n \in Nodes, Schedule(s, n)
      PROVE  CleanInv'
  <2>1. UNCHANGED <<node, droplet, undrained, rem>>
    BY <1>6 DEF Schedule
  <2>2. \A t \in Svcs : svc'[t].at = svc[t].at \/ svc'[t].at = n
    BY <1>0, <1>6 DEF Schedule, SvcRec
  <2>3. Usable(n)
    BY <1>6 DEF Schedule, Allowed
  <2> QED
    BY <2>1, <2>2, <2>3, CleanFrame
<1> QED
  BY <1>2, <1>3, <1>4, <1>5, <1>6 DEF Rebalance

LEMMA CleanRemoval ==
  ASSUME IInv, CleanInv, NEW r \in Removers, Removal(r) \/ Dies(r)
  PROVE  CleanInv'
<1>0. /\ svc \in [Svcs -> SvcRec] /\ rem \in [Removers -> RemRec]
      /\ node \in [Nodes -> {"active", "drain", "gone"}]
      /\ rem[r].pc # "idle" => rem[r].node \in Nodes
  BY PlacementAssumption DEF IInv, TypeOK, RemInv
<1>1. \A q \in Removers : q # r => rem'[q] = rem[q]
  BY <1>0 DEF Removal, Dies, Recheck, Find, ListPins, Unpin, Skip, Drain, Wait, RemoveNode,
              Destroy, RemGo, RemStop
<1>3. \A s \in Svcs : svc'[s].at = svc[s].at
  BY <1>0 DEF Removal, Dies, Recheck, Find, ListPins, Unpin, Accepted, Refused, Unchanged,
              Skip, Drain, Wait, RemoveNode, Destroy, SvcRec
<1>4. \* A step that takes nothing from a node and leaves r clean.
      ASSUME undrained \subseteq undrained',
             \A n \in Nodes : node[n] = "gone" => node'[n] = "gone",
             \A n \in Nodes : node[n] # "active" => node'[n] # "active",
             \A s \in Svcs : (svc[s].at # NoNode /\ Lost(svc[s].at)' /\ ~Lost(svc[s].at))
                             => svc[s].at \in undrained',
             CleanRem(r)'
      PROVE  CleanInv'
  <2>1. DrainedFirst'
    BY <1>3, <1>4 DEF CleanInv, DrainedFirst
  <2>2. ASSUME NEW q \in Removers, q # r
        PROVE  CleanRem(q)'
    <3>1. rem'[q] = rem[q] /\ (rem[q].pc # "idle" => rem[q].node \in Nodes) /\ CleanRem(q)
      BY <1>1, <2>2 DEF IInv, RemInv, CleanInv
    <3> QED
      BY <1>3, <1>4, <3>1 DEF CleanRem
  <2> QED
    BY <1>4, <2>1, <2>2 DEF CleanInv
<1>5. DrainedFirst /\ CleanRem(r)
  BY DEF CleanInv
<1>6. CASE Recheck(r) \/ Find(r)
  <2>1. UNCHANGED <<node, droplet>> /\ undrained \subseteq undrained'
    BY <1>6 DEF Recheck, Find, Presumed
  <2>2. CleanRem(r)'
    <3>1. CASE Recheck(r)
      BY <1>0, <3>1, Resets DEF Recheck, RemGo, RemStop, RemRec, CleanRem
    <3>2. CASE Find(r)
      <4>1. /\ rem'[r].pc = "list" /\ rem'[r].node = rem[r].node
            /\ rem'[r].found \/ node[rem[r].node] = "gone" \/ rem[r].node \in undrained'
        BY <1>0, <3>2 DEF Find, RemGo, Presumed, RemRec
      <4> QED
        BY <2>1, <4>1 DEF CleanRem
    <3> QED
      BY <1>6, <3>1, <3>2
  <2> QED
    BY <1>3, <1>4, <2>1, <2>2 DEF Lost
<1>7. CASE ListPins(r) \/ \E s \in Svcs : Unpin(r, s)
  <2>1. UNCHANGED <<node, droplet, undrained>>
    BY <1>7 DEF ListPins, Unpin
  <2>2. \/ rem'[r].pc = "idle"
        \/ /\ rem'[r].pc = "clear" /\ rem[r].pc \in {"list", "clear"}
           /\ rem'[r].node = rem[r].node /\ rem'[r].kind = rem[r].kind
           /\ rem'[r].found = rem[r].found
    <3>1. CASE ListPins(r)
      BY <1>0, <3>1, Resets DEF ListPins, RemGo, RemStop, RemRec
    <3>2. ASSUME NEW s \in Svcs, Unpin(r, s)
          PROVE  /\ rem'[r].pc = "clear" /\ rem[r].pc = "clear" /\ rem'[r].node = rem[r].node
                 /\ rem'[r].kind = rem[r].kind /\ rem'[r].found = rem[r].found
      BY <1>0, <3>2 DEF Unpin, RemRec
    <3> QED
      BY <1>7, <3>1, <3>2
  <2>3. CleanRem(r)'
    BY <1>5, <2>1, <2>2 DEF CleanRem
  <2> QED
    BY <1>3, <1>4, <2>1, <2>3 DEF Lost
<1>9. CASE Skip(r)
  <2>1. UNCHANGED <<node, droplet, svc>> /\ undrained \subseteq undrained'
    BY <1>9 DEF Skip, Presumed
  <2>2. rem'[r].pc = "destroy" /\ rem'[r].node = rem[r].node
    BY <1>0, <1>9 DEF Skip, RemGo, RemRec
  <2>3. rem[r].node \in undrained' \/ node[rem[r].node] = "gone"
    BY <1>5, <1>9 DEF Skip, Presumed, CleanRem
  <2>4. CleanRem(r)'
    <3>1. CASE rem[r].node \in undrained'
      BY <2>2, <3>1 DEF CleanRem
    <3>2. CASE rem[r].node \notin undrained' /\ node[rem[r].node] = "gone"
      <4>1. rem[r].node \in Nodes
        BY <1>0, <1>9 DEF Skip
      <4>2. \A s \in Svcs : svc[s].at # rem[r].node
        BY <1>5, <2>1, <3>2, <4>1, PlacementAssumption DEF DrainedFirst, Lost
      <4> QED
        BY <2>1, <2>2, <3>2, <4>2 DEF CleanRem
    <3> QED
      BY <2>3, <3>1, <3>2
  <2> QED
    BY <1>4, <2>1, <2>4 DEF Lost
<1>10. CASE Drain(r)
  <2>1. droplet' = droplet /\ undrained \subseteq undrained'
    BY <1>10 DEF Drain, Presumed
  <2>2. rem'[r].pc = "wait" /\ rem'[r].node = rem[r].node /\ rem[r].node \in Nodes
    BY <1>0, <1>10 DEF Drain, RemGo, RemRec
  <2>3. /\ node'[rem[r].node] # "active" \/ rem[r].node \in undrained'
        /\ \A n \in Nodes : node'[n] = "gone" <=> node[n] = "gone"
        /\ \A n \in Nodes : node[n] # "active" => node'[n] # "active"
    BY <1>0, <1>10, <2>2 DEF Drain, Presumed
  <2>4. CleanRem(r)'
    BY <2>2, <2>3 DEF CleanRem
  <2>5. \A s \in Svcs : svc[s].at # NoNode => svc[s].at \in Nodes
    BY <1>0 DEF SvcRec, MaybeNode
  <2> QED
    BY <1>3, <1>4, <2>1, <2>3, <2>4, <2>5 DEF Lost
<1>11. CASE Wait(r)
  <2>1. UNCHANGED <<node, droplet, svc>> /\ undrained \subseteq undrained'
    BY <1>11 DEF Wait, Presumed
  <2>2. rem'[r].pc = "remove" /\ rem'[r].node = rem[r].node /\ rem[r].pc = "wait"
    BY <1>0, <1>11 DEF Wait, RemGo, RemRec
  <2>3. rem[r].node \in undrained' \/ Tasks(rem[r].node) = {}
    BY <1>11 DEF Wait, Presumed
  <2>4. CleanRem(r)'
    BY <1>5, <2>1, <2>2, <2>3 DEF CleanRem, Tasks
  <2> QED
    BY <1>4, <2>1, <2>4 DEF Lost
<1>12. CASE RemoveNode(r)
  <2>1. UNCHANGED <<droplet, svc, undrained>> /\ rem[r].pc = "remove"
    BY <1>12 DEF RemoveNode
  <2>2. rem'[r].pc = "destroy" /\ rem'[r].node = rem[r].node /\ rem[r].node \in Nodes
    BY <1>0, <1>12 DEF RemoveNode, RemGo, RemRec
  <2>3. node' = node \/ node' = [node EXCEPT ![rem[r].node] = "gone"]
    BY <1>12 DEF RemoveNode
  <2>4. CleanRem(r)'
    BY <1>0, <1>5, <2>1, <2>2, <2>3 DEF CleanRem
  <2>5. \A s \in Svcs : svc[s].at = rem[r].node => svc[s].at \in undrained
    BY <1>5, <2>1 DEF CleanRem
  <2>6. \A s \in Svcs : svc[s].at # NoNode => svc[s].at \in Nodes
    BY <1>0 DEF SvcRec, MaybeNode
  <2>7. \A s \in Svcs : (svc[s].at # NoNode /\ Lost(svc[s].at)' /\ ~Lost(svc[s].at))
                        => svc[s].at \in undrained'
    BY <1>0, <2>1, <2>3, <2>5, <2>6 DEF Lost
  <2>8. /\ \A n \in Nodes : node[n] = "gone" => node'[n] = "gone"
        /\ \A n \in Nodes : node[n] # "active" => node'[n] # "active"
    BY <1>0, <2>3
  <2> QED
    BY <1>4, <2>1, <2>4, <2>7, <2>8
<1>13. CASE Destroy(r)
  <2>1. UNCHANGED <<node, svc, undrained>> /\ rem[r].pc = "destroy"
    BY <1>13 DEF Destroy
  <2>2. droplet' = droplet \/ droplet' = droplet \ {rem[r].node}
    BY <1>13 DEF Destroy
  <2>3. CleanRem(r)'
    BY <1>0, <1>13, Resets DEF Destroy, RemStop, CleanRem
  <2>4. \A s \in Svcs : svc[s].at = rem[r].node => svc[s].at \in undrained
    BY <1>5, <2>1 DEF CleanRem
  <2>5. \A s \in Svcs : (svc[s].at # NoNode /\ Lost(svc[s].at)' /\ ~Lost(svc[s].at))
                        => svc[s].at \in undrained'
    BY <2>1, <2>2, <2>4 DEF Lost
  <2> QED
    BY <1>4, <2>1, <2>3, <2>5
<1>14. CASE Dies(r)
  <2>1. UNCHANGED <<node, droplet, undrained>>
    BY <1>14 DEF Dies
  <2>2. CleanRem(r)'
    BY <1>0, <1>14, Resets DEF Dies, RemStop, CleanRem
  <2> QED
    BY <1>3, <1>4, <2>1, <2>2 DEF Lost
<1> QED
  BY <1>6, <1>7, <1>9, <1>10, <1>11, <1>12, <1>13, <1>14 DEF Removal

LEMMA CleanRemove ==
  ASSUME IInv, CleanInv, NEW r \in Removers, NEW n \in Nodes, NEW k \in Kinds, Remove(r, n, k)
  PROVE  CleanInv'
<1>0. /\ k \in {"auto", "graceful", "force"} /\ rem \in [Removers -> RemRec]
  BY PlacementAssumption DEF IInv, TypeOK
<1>1. UNCHANGED <<node, droplet, svc, undrained>>
  BY DEF Remove
<1>2. \A q \in Removers : q # r => rem'[q] = rem[q]
  BY <1>0 DEF Remove
<1>3. rem'[r].kind = k /\ rem'[r].pc \in {"recheck", "find", "list"}
      /\ (rem'[r].pc = "list" => k = "force")
  BY <1>0 DEF Remove, NoRem
<1>4. CleanRem(r)'
  BY <1>3 DEF CleanRem
<1>5. ASSUME NEW q \in Removers, q # r
      PROVE  CleanRem(q)'
  BY <1>1, <1>2, <1>5 DEF CleanInv, CleanRem
<1> QED
  BY <1>1, <1>4, <1>5 DEF CleanInv, DrainedFirst, Lost

\* Whatever removals overlap, fail or die and are done again, a node that has left
\* the Swarm or lost its droplet had no task left, except by a forced stop, a wait
\* of ten minutes that ran out, or a failed call of the three that are taken for a
\* drained node.
THEOREM DrainedInOrder == Spec => []DrainedFirst
<1>1. IInv /\ CleanInv /\ [Next]_vars => CleanInv'
  <2> SUFFICES ASSUME IInv, CleanInv, [Next]_vars
               PROVE  CleanInv'
    OBVIOUS
  <2>1. CASE UNCHANGED vars
    BY <2>1 DEF vars, CleanInv, DrainedFirst, CleanRem, Lost
  <2> QED
    BY <2>1, CleanOthers, CleanRemoval, CleanRemove DEF Next
<1>2. CleanInv => DrainedFirst
  BY DEF CleanInv
<1> QED
  BY <1>1, <1>2, InitClean, PlaceInductive, PTL DEF Spec

-----------------------------------------------------------------------------
(* Whose pin an unpin clears. *)

\* A service that a removal may still unpin, its copy of it being up to date, is
\* one that has been created and, while it lives, is pinned to the removal's node;
\* before the listing there is none.
OwnRem(r) ==
  /\ rem[r].pc \in {"recheck", "find", "list"} => rem[r].todo = {}
  /\ \A s \in Svcs : Listed(r, s) =>
       svc[s].st # "unborn" /\ (Live(s) => svc[s].pin = rem[r].node)

\* A start that is about to pin its service names a node.
StartInv == \A s \in Svcs : start[s].pc = "pin" => start[s].node \in Nodes

OwnInv == StartInv /\ \A r \in Removers : OwnRem(r)

LEMMA InitOwn == Init => OwnInv
<1> SUFFICES ASSUME Init PROVE OwnInv
  OBVIOUS
<1>1. StartInv
  BY DEF Init, NoStart, StartInv
<1> QED
  BY <1>1, Resets DEF Init, OwnInv, OwnRem, Listed

LEMMA StartOwnKept ==
  ASSUME IInv, StartInv, [Next]_vars
  PROVE  StartInv'
<1>0. start \in [Svcs -> StartRec] /\ svc \in [Svcs -> SvcRec]
  BY DEF IInv, TypeOK
<1>1. ASSUME NEW s \in Svcs, Create(s)
      PROVE  StartInv'
  BY <1>0, <1>1 DEF Create, StartInv, StartRec
<1>2. ASSUME NEW s \in Svcs, Resolve(s)
      PROVE  StartInv'
  <2>1. svc[s].at # NoNode => svc[s].at \in Nodes
    BY <1>0 DEF SvcRec, MaybeNode
  <2> QED
    BY <1>0, <1>2, <2>1 DEF Resolve, StartInv, StartRec, NoStart
<1>3. ASSUME NEW s \in Svcs, PinNew(s)
      PROVE  StartInv'
  BY <1>0, <1>3 DEF PinNew, StartInv, StartRec, NoStart
<1>4. CASE UNCHANGED start
  BY <1>4 DEF StartInv
<1>5. RebNodes \/ Rebalance => UNCHANGED start
  BY DEF Rebalance, RebNodes, RebList, RebPlan, RebEnd, RebTasks, RebMove
<1>6. \A r \in Removers : Removal(r) \/ Dies(r) => UNCHANGED start
  BY DEF Removal, Recheck, Find, ListPins, Unpin, Skip, Drain, Wait, RemoveNode, Destroy, Dies
<1>7. \A r \in Removers, n \in Nodes, k \in Kinds : Remove(r, n, k) => UNCHANGED start
  BY DEF Remove
<1>8. \A s \in Svcs : TaskRuns(s) \/ TaskEnds(s) \/ StopHost(s) => UNCHANGED start
  BY DEF TaskRuns, TaskEnds, StopHost
<1>9. \A s \in Svcs, n \in Nodes : Schedule(s, n) => UNCHANGED start
  BY DEF Schedule
<1> QED
  BY <1>1, <1>2, <1>3, <1>4, <1>5, <1>6, <1>7, <1>8, <1>9 DEF Next, vars

\* A step of anyone else: what it pins is fresh to nobody, what it creates is in no
\* list, and what it removes is not live.
LEMMA OwnFrame ==
  ASSUME OwnInv, NEW r \in Removers, rem'[r] = rem[r], fresh'[r] \subseteq fresh[r],
         \A s \in Svcs : svc[s].st # "unborn" => svc'[s].st # "unborn",
         \A s \in Svcs : s \in fresh'[r] /\ Live(s)' /\ svc[s].st # "unborn" =>
                          Live(s) /\ svc'[s].pin = svc[s].pin
  PROVE  OwnRem(r)'
BY DEF OwnInv, OwnRem, Listed, Live

LEMMA OwnAccepted ==
  ASSUME IInv, NEW c \in Clients, NEW s \in Svcs, NEW n \in MaybeNode, NEW missing,
         Accepted(c, s, n, missing)
  PROVE  /\ \A t \in Svcs : svc'[t].st = svc[t].st /\ (t # s => svc'[t] = svc[t])
         /\ \A r \in Removers : fresh'[r] = fresh[r] \ {s}
BY DEF IInv, TypeOK, Accepted, SvcRec, Clients

LEMMA OwnOthers ==
  ASSUME IInv, OwnInv, NEW r \in Removers, rem'[r] = rem[r],
         \/ RebNodes \/ Rebalance
         \/ \E s \in Svcs : \/ Create(s) \/ Resolve(s) \/ PinNew(s)
                            \/ TaskRuns(s) \/ TaskEnds(s) \/ StopHost(s)
                            \/ \E n \in Nodes : Schedule(s, n)
         \/ \E q \in Removers : q # r /\ (Removal(q) \/ Dies(q))
  PROVE  OwnRem(r)'
<1>0. /\ svc \in [Svcs -> SvcRec] /\ fresh \in [Clients -> SUBSET Svcs]
      /\ start \in [Svcs -> StartRec] /\ rem \in [Removers -> RemRec]
      /\ {"start", "rebalance"} \cup Removers = Clients
      /\ "start" \notin Removers /\ "rebalance" \notin Removers
  BY PlacementAssumption DEF IInv, TypeOK, Clients
<1>1. ASSUME NEW c \in Clients, NEW s \in Svcs, NEW n \in MaybeNode, Pin(c, s, n)
      PROVE  OwnRem(r)'
  <2>1. CASE Unchanged
    BY <2>1, OwnFrame DEF Unchanged, Live
  <2>2. ASSUME NEW missing, Accepted(c, s, n, missing)
        PROVE  OwnRem(r)'
    BY <2>2, OwnAccepted, OwnFrame DEF Live
  <2> QED
    BY <1>1, <2>1, <2>2 DEF Pin, Refused
<1>2. CASE RebNodes \/ Rebalance
  <2>1. CASE RebNodes \/ RebPlan \/ RebEnd \/ \E s \in Svcs : RebTasks(s)
    <3>1. UNCHANGED <<svc, fresh>>
      BY <2>1 DEF RebNodes, RebPlan, RebEnd, RebTasks
    <3> QED
      BY <3>1, OwnFrame DEF Live
  <2>2. CASE RebList
    <3>1. UNCHANGED svc /\ fresh'[r] = fresh[r]
      BY <1>0, <2>2 DEF RebList
    <3> QED
      BY <3>1, OwnFrame DEF Live
  <2>3. ASSUME NEW s \in Svcs, NEW n \in Nodes, RebMove(s, n)
        PROVE  OwnRem(r)'
    BY <1>0, <1>1, <2>3 DEF RebMove, MaybeNode
  <2> QED
    BY <1>2, <2>1, <2>2, <2>3 DEF Rebalance
<1>3. ASSUME NEW s \in Svcs, Create(s) \/ Resolve(s) \/ PinNew(s)
      PROVE  OwnRem(r)'
  <2>1. CASE Create(s)
    <3>1. fresh'[r] = fresh[r] /\ svc[s].st = "unborn" /\ svc'[s].st = "live"
          /\ \A t \in Svcs : t # s => svc'[t] = svc[t]
      BY <1>0, <2>1 DEF Create, SvcRec
    <3> QED
      BY <3>1, OwnFrame DEF Live
  <2>2. CASE Resolve(s)
    BY <2>2, OwnFrame DEF Resolve, Live
  <2>3. CASE PinNew(s)
    <3>1. start[s].node \in MaybeNode
      BY <1>0 DEF StartRec
    <3> QED
      BY <1>0, <1>1, <2>3, <3>1 DEF PinNew
  <2> QED
    BY <1>3, <2>1, <2>2, <2>3
<1>4. ASSUME NEW s \in Svcs,
             \/ TaskRuns(s) \/ TaskEnds(s) \/ StopHost(s)
             \/ \E n \in Nodes : Schedule(s, n)
      PROVE  OwnRem(r)'
  <2>1. CASE TaskRuns(s) \/ TaskEnds(s) \/ \E n \in Nodes : Schedule(s, n)
    <3>1. fresh' = fresh /\ \A t \in Svcs : svc'[t].st = svc[t].st /\ svc'[t].pin = svc[t].pin
      BY <1>0, <2>1 DEF TaskRuns, TaskEnds, Schedule, SvcRec
    <3> QED
      BY <3>1, OwnFrame DEF Live
  <2>2. CASE StopHost(s)
    <3>1. fresh' = fresh /\ svc'[s].st = "gone" /\ \A t \in Svcs : t # s => svc'[t] = svc[t]
      BY <1>0, <2>2 DEF StopHost, NoSvc, SvcRec
    <3> QED
      BY <3>1, OwnFrame DEF Live
  <2> QED
    BY <1>4, <2>1, <2>2
<1>5. ASSUME NEW q \in Removers, q # r, Removal(q) \/ Dies(q)
      PROVE  OwnRem(r)'
  <2>1. CASE UNCHANGED <<svc, fresh>>
    BY <2>1, OwnFrame DEF Live
  <2>2. CASE ListPins(q)
    <3>1. UNCHANGED svc /\ fresh'[r] = fresh[r]
      BY <1>0, <1>5, <2>2 DEF ListPins
    <3> QED
      BY <3>1, OwnFrame DEF Live
  <2>3. ASSUME NEW s \in Svcs, Accepted(q, s, NoNode, missed \ {s})
        PROVE  OwnRem(r)'
    <3>1. q \in Clients /\ NoNode \in MaybeNode
      BY <1>0 DEF MaybeNode
    <3> QED
      BY <2>3, <3>1, OwnAccepted, OwnFrame DEF Live
  <2>4. \A s \in Svcs : Unpin(q, s) => UNCHANGED <<svc, fresh>>
                                      \/ Accepted(q, s, NoNode, missed \ {s})
    BY DEF Unpin, Refused, Unchanged
  <2>5. CASE \/ Recheck(q) \/ Find(q) \/ Skip(q) \/ Drain(q) \/ Wait(q) \/ RemoveNode(q)
             \/ Destroy(q) \/ Dies(q)
    <3>1. UNCHANGED <<svc, fresh>>
      BY <2>5 DEF Recheck, Find, Skip, Drain, Wait, RemoveNode, Destroy, Dies
    <3> QED
      BY <2>1, <3>1
  <2> QED
    BY <1>5, <2>1, <2>2, <2>3, <2>4, <2>5 DEF Removal
<1> QED
  BY <1>2, <1>3, <1>4, <1>5

LEMMA OwnRemoval ==
  ASSUME IInv, OwnInv, NEW r \in Removers, Removal(r) \/ Dies(r)
  PROVE  OwnRem(r)'
<1>0. /\ svc \in [Svcs -> SvcRec] /\ fresh \in [Clients -> SUBSET Svcs] /\ r \in Clients
      /\ rem \in [Removers -> RemRec]
  BY DEF IInv, TypeOK, Clients
<1>1. ASSUME NEW s \in Svcs, Unpin(r, s)
      PROVE  OwnRem(r)'
  <2>1. /\ rem'[r].node = rem[r].node /\ rem'[r].todo = rem[r].todo \ {s}
        /\ rem[r].pc = "clear" /\ rem'[r].pc = "clear"
    BY <1>0, <1>1 DEF Unpin, RemRec
  <2>2. CASE UNCHANGED <<svc, fresh>>
    BY <2>1, <2>2 DEF OwnInv, OwnRem, Listed, Live
  <2>3. CASE Accepted(r, s, NoNode, missed \ {s})
    <3>1. /\ \A t \in Svcs : svc'[t].st = svc[t].st /\ (t # s => svc'[t] = svc[t])
          /\ fresh'[r] = fresh[r] \ {s}
      BY <1>0, <2>3, OwnAccepted DEF MaybeNode
    <3> QED
      BY <2>1, <3>1 DEF OwnInv, OwnRem, Listed, Live
  <2> QED
    BY <1>1, <2>2, <2>3 DEF Unpin, Refused, Unchanged
<1>2. CASE ListPins(r)
  <2>1. CASE rem' = [rem EXCEPT ![r].pc = "clear", ![r].todo = PinnedTo(rem[r].node)]
    <3>1. /\ rem'[r].pc = "clear" /\ rem'[r].node = rem[r].node
          /\ rem'[r].todo = PinnedTo(rem[r].node)
      BY <1>0, <2>1 DEF RemRec
    <3>2. \A s \in rem'[r].todo : svc[s].st = "live" /\ svc[s].pin = rem[r].node
      BY <3>1 DEF PinnedTo, Live
    <3> QED
      BY <1>2, <3>1, <3>2 DEF ListPins, OwnRem, Listed, Live
  <2>2. CASE RemGo(r, "clear") /\ rem[r].pc = "list" /\ UNCHANGED <<svc, fresh>>
    <3>1. rem'[r].pc = "clear" /\ rem'[r].todo = {}
      BY <1>0, <2>2 DEF RemGo, RemRec, OwnInv, OwnRem
    <3> QED
      BY <3>1 DEF OwnRem, Listed
  <2>3. CASE RemStop(r)
    BY <1>0, <2>3, Resets DEF RemStop, OwnRem, Listed
  <2> QED
    BY <1>2, <2>1, <2>2, <2>3 DEF ListPins
<1>3. CASE ~ListPins(r) /\ ~\E s \in Svcs : Unpin(r, s)
  <2>1. /\ rem'[r].pc # "clear"
        /\ rem'[r].pc \in {"recheck", "find", "list"} =>
             rem[r].pc \in {"recheck", "find"} /\ rem'[r].todo = rem[r].todo
    <3>1. CASE Recheck(r) \/ Find(r) \/ Skip(r) \/ Drain(r) \/ Wait(r) \/ RemoveNode(r)
      BY <1>0, <3>1, Resets DEF Recheck, Find, Skip, Drain, Wait, RemoveNode, RemGo, RemStop, RemRec
    <3>2. CASE Destroy(r) \/ Dies(r)
      BY <1>0, <3>2, Resets DEF Destroy, Dies, RemStop
    <3> QED
      BY <1>3, <3>1, <3>2 DEF Removal
  <2> QED
    BY <2>1 DEF OwnInv, OwnRem, Listed
<1> QED
  BY <1>1, <1>2, <1>3

LEMMA OwnKept ==
  ASSUME IInv, OwnInv, [Next]_vars
  PROVE  OwnInv'
<1>0. rem \in [Removers -> RemRec] /\ StartInv'
  <2>1. StartInv
    BY DEF OwnInv
  <2> QED
    BY <2>1, StartOwnKept DEF IInv, TypeOK
<1>1. CASE UNCHANGED vars
  BY <1>0, <1>1 DEF vars, OwnInv, OwnRem, Listed, Live
<1>2. CASE \/ RebNodes \/ Rebalance
           \/ \E s \in Svcs : \/ Create(s) \/ Resolve(s) \/ PinNew(s)
                              \/ TaskRuns(s) \/ TaskEnds(s) \/ StopHost(s)
                              \/ \E n \in Nodes : Schedule(s, n)
  <2>1. rem' = rem
    BY <1>2 DEF RebNodes, Rebalance, RebList, RebPlan, RebEnd, RebTasks, RebMove, Create,
                Resolve, PinNew, TaskRuns, TaskEnds, StopHost, Schedule
  <2> QED
    BY <1>0, <1>2, <2>1, OwnOthers DEF OwnInv
<1>3. ASSUME NEW q \in Removers, Removal(q) \/ Dies(q)
      PROVE  OwnInv'
  <2>1. \A r \in Removers : r # q => rem'[r] = rem[r]
    BY <1>0, <1>3 DEF Removal, Dies, Recheck, Find, ListPins, Unpin, Skip, Drain, Wait,
                      RemoveNode, Destroy, RemGo, RemStop
  <2> QED
    BY <1>0, <1>3, <2>1, OwnOthers, OwnRemoval DEF OwnInv
<1>4. ASSUME NEW q \in Removers, NEW n \in Nodes, NEW k \in Kinds, Remove(q, n, k)
      PROVE  OwnInv'
  <2>1. rem'[q].todo = {} /\ rem'[q].pc # "clear" /\ \A r \in Removers : r # q => rem'[r] = rem[r]
    <3>1. k \in {"auto", "graceful", "force"}
      BY PlacementAssumption
    <3> QED
      BY <1>0, <1>4, <3>1 DEF Remove, NoRem
  <2>2. UNCHANGED <<svc, fresh>>
    BY <1>4 DEF Remove
  <2> QED
    BY <1>0, <2>1, <2>2 DEF OwnInv, OwnRem, Listed, Live
<1> QED
  BY <1>1, <1>2, <1>3, <1>4 DEF Next

\* However starts, rebalances and removals overlap, a pin is cleared only by a
\* removal of the node it names: never one that was set after the removal looked.
THEOREM UnpinsOnlyOwn == Spec => UnpinsOwn
<1> DEFINE A == \A s \in Svcs :
                  Live(s) /\ Live(s)' /\ svc[s].pin # NoNode /\ svc'[s].pin = NoNode =>
                    \E r \in Removers : rem[r].node = svc[s].pin /\ rem[r].pc = "clear"
<1>1. IInv /\ OwnInv /\ [Next]_vars => [A]_vars
  <2> SUFFICES ASSUME IInv, OwnInv, [Next]_vars, NEW s \in Svcs,
                      Live(s), Live(s)', svc[s].pin # NoNode, svc'[s].pin = NoNode
               PROVE  \E r \in Removers : rem[r].node = svc[s].pin /\ rem[r].pc = "clear"
    BY DEF vars
  <2>0. svc \in [Svcs -> SvcRec] /\ start \in [Svcs -> StartRec] /\ Removers \subseteq Clients
    BY DEF IInv, TypeOK, Clients
  <2>1. ASSUME NEW c, NEW t \in Svcs, NEW n \in Nodes, Pin(c, t, n)
        PROVE  FALSE
    <3>1. n # NoNode
      BY PlacementAssumption
    <3> QED
      BY <2>0, <2>1, <3>1 DEF Pin, Accepted, Refused, Unchanged, SvcRec
  <2>2. ASSUME NEW t \in Svcs, Create(t) \/ TaskRuns(t) \/ TaskEnds(t) \/ StopHost(t)
                                \/ \E n \in Nodes : Schedule(t, n)
        PROVE  FALSE
    BY <2>0, <2>2, Resets DEF Create, TaskRuns, TaskEnds, StopHost, Schedule, Live, SvcRec
  <2>3. ASSUME NEW r \in Removers, NEW t \in Svcs, Unpin(r, t)
        PROVE  rem[r].node = svc[s].pin /\ rem[r].pc = "clear"
    <3>1. Accepted(r, t, NoNode, missed \ {t}) /\ t = s
      BY <2>0, <2>3 DEF Unpin, Accepted, Refused, Unchanged, SvcRec
    <3>2. Listed(r, s)
      BY <2>3, <3>1 DEF Unpin, Accepted, Listed
    <3> QED
      BY <2>3, <3>2 DEF OwnInv, OwnRem, Unpin
  <2>4. svc' # svc
    OBVIOUS
  <2>5. ASSUME NEW t \in Svcs, PinNew(t)
        PROVE  FALSE
    <3>1. start[t].node \in Nodes
      BY <2>5 DEF PinNew, OwnInv, StartInv
    <3> QED
      BY <2>1, <2>5, <3>1 DEF PinNew
  <2> QED
    BY <2>1, <2>2, <2>3, <2>4, <2>5
       DEF Next, vars, Removal, Rebalance, RebNodes, RebList, RebPlan, RebEnd, RebTasks, RebMove,
           Resolve, Recheck, Find, ListPins, Skip, Drain, Wait, RemoveNode, Destroy, Dies, Remove
<1> QED
  BY <1>1, InitOwn, OwnKept, PlaceInductive, PTL DEF Spec, UnpinsOwn
=============================================================================
