--------------------------- MODULE CodeHosts_proofs ---------------------------
(***************************************************************************)
(* Proofs about CodeHosts, for every set of users, services, rows and        *)
(* workers: IInv is inductive, and the safety properties follow from it.     *)
(*                                                                          *)
(* Every action is shown to do three things: leave the shared state typed    *)
(* and growing (Grows), keep RowInv, and put its worker into a record j for  *)
(* which JobOK holds afterwards.  StepLemma turns these into IInv'.          *)
(***************************************************************************)
EXTENDS CodeHostsInv, TLAPS

-----------------------------------------------------------------------------
(* Records. *)

LEMMA JobTyped ==
  ASSUME TypeOK, NEW w \in Workers
  PROVE  job[w] \in JobRec
  BY DEF TypeOK

LEMMA PcsHas ==
  /\ StartPcs \subseteq Pcs /\ SyncPcs \subseteq Pcs
  /\ {"idle", "query", "model", "write", "remove", "rowdel", "get", "recheck",
      "victims", "byname", "each", "bare"} \subseteq Pcs
  BY DEF Pcs

LEMMA NoModelTyped == NoModel \in ModelRec
  BY DEF NoModel, ModelRec

LEMMA IdleTyped == IdleJob \in JobRec
  BY PcsHas, NoModelTyped DEF IdleJob, JobRec, Ops, SyncOps

\* Updating one field at a time keeps the type.
LEMMA JobFields ==
  ASSUME NEW k \in JobRec
  PROVE  /\ \A x \in Ops : [k EXCEPT !.op = x] \in JobRec
         /\ \A x \in Pcs : [k EXCEPT !.pc = x] \in JobRec
         /\ \A x \in {"idle", "rows", "services", "recheck", "victims", "each"} :
              [k EXCEPT !.ret = x] \in JobRec
         /\ \A x \in Users \cup {NoUser} : [k EXCEPT !.user = x] \in JobRec
         /\ \A x \in Services \cup {NoSvc} : [k EXCEPT !.svc = x] \in JobRec
         /\ \A x \in Rows \cup {NoRow} : [k EXCEPT !.row = x] \in JobRec
         /\ \A x \in ModelRec : [k EXCEPT !.m = x] \in JobRec
         /\ \A x \in BOOLEAN : [k EXCEPT !.check = x] \in JobRec
         /\ \A x \in BOOLEAN : [k EXCEPT !.expired = x] \in JobRec
         /\ \A x \in SUBSET Services : [k EXCEPT !.inDb = x] \in JobRec
         /\ \A x \in SUBSET Services : [k EXCEPT !.notInDb = x] \in JobRec
         /\ \A x \in SUBSET Services : [k EXCEPT !.todoS = x] \in JobRec
         /\ \A x \in SUBSET LoadedRec : [k EXCEPT !.todoR = x] \in JobRec
  <1>1. \A x \in Ops : [k EXCEPT !.op = x] \in JobRec
    BY Zenon DEF JobRec
  <1>2. \A x \in Pcs : [k EXCEPT !.pc = x] \in JobRec
    BY Zenon DEF JobRec
  <1>3. \A x \in {"idle", "rows", "services", "recheck", "victims", "each"} :
          [k EXCEPT !.ret = x] \in JobRec
    BY Zenon DEF JobRec
  <1>4. \A x \in Users \cup {NoUser} : [k EXCEPT !.user = x] \in JobRec
    BY Zenon DEF JobRec
  <1>5. \A x \in Services \cup {NoSvc} : [k EXCEPT !.svc = x] \in JobRec
    BY Zenon DEF JobRec
  <1>6. \A x \in Rows \cup {NoRow} : [k EXCEPT !.row = x] \in JobRec
    BY Zenon DEF JobRec
  <1>7. \A x \in ModelRec : [k EXCEPT !.m = x] \in JobRec
    BY Zenon DEF JobRec
  <1>8. \A x \in BOOLEAN : [k EXCEPT !.check = x] \in JobRec
    BY Zenon DEF JobRec
  <1>9. \A x \in BOOLEAN : [k EXCEPT !.expired = x] \in JobRec
    BY Zenon DEF JobRec
  <1>10. \A x \in SUBSET Services : [k EXCEPT !.inDb = x] \in JobRec
    BY Zenon DEF JobRec
  <1>11. \A x \in SUBSET Services : [k EXCEPT !.notInDb = x] \in JobRec
    BY Zenon DEF JobRec
  <1>12. \A x \in SUBSET Services : [k EXCEPT !.todoS = x] \in JobRec
    BY Zenon DEF JobRec
  <1>13. \A x \in SUBSET LoadedRec : [k EXCEPT !.todoR = x] \in JobRec
    BY Zenon DEF JobRec
  <1> QED
    BY <1>1, <1>2, <1>3, <1>4, <1>5, <1>6, <1>7, <1>8, <1>9,
       <1>10, <1>11, <1>12, <1>13

LEMMA JobParts ==
  ASSUME NEW k \in JobRec
  PROVE  /\ k.svc \in Services \cup {NoSvc} /\ k.pc \in Pcs
         /\ k.inDb \in SUBSET Services /\ k.notInDb \in SUBSET Services
         /\ \A A : k.inDb \ A \in SUBSET Services
         /\ \A A \in SUBSET Services : A \ k.inDb \in SUBSET Services
         /\ \A x : k.todoS \ {x} \in SUBSET Services
         /\ \A x : k.todoR \ {x} \in SUBSET LoadedRec
  BY DEF JobRec

\* The idle worker remembers nothing.
LEMMA IdleOK == JobOK(IdleJob) /\ JobOK(IdleJob)'
  BY HostsAssumption
     DEF IdleJob, JobOK, Remembers, Holds, Doomed, Starting, NoModel, StartPcs

-----------------------------------------------------------------------------
(* The shared state only grows. *)

\* Services stay created, gone stays gone, and so on.
Grows ==
  /\ \A s \in Services : Born(s) => svc'[s].st # "unborn"
  /\ \A s \in Services : Born(s) /\ ~Live(s) => svc'[s].st # "live"
  /\ \A s \in Services : Born(s) /\ svc[s].stale => svc'[s].st # "live" \/ svc'[s].stale
  /\ lost \subseteq lost'
  /\ \A r \in Rows : Recorded(r) => Recorded(r)' /\ row'[r].svc = row[r].svc

LEMMA MissingKept ==
  ASSUME Grows, NEW s \in Services, Born(s)
  PROVE  /\ Born(s)'
         /\ ~Live(s) => ~Live(s)'
         /\ Missing(s) => Missing(s)'
         /\ Excused(s) => Excused(s)'
  BY DEF Grows, Missing, Excused, Born, Live

\* What an untouched worker remembers stays true.
LEMMA JobKept ==
  ASSUME RowInv, Grows, NEW j \in JobRec, JobOK(j)
  PROVE  JobOK(j)'
  <1>1. /\ j.svc \in Services \cup {NoSvc} /\ j.row \in Rows \cup {NoRow}
        /\ j.inDb \cup j.notInDb \cup j.todoS \subseteq Services
        /\ \A e \in j.todoR : e.row \in Rows
    BY DEF JobRec, LoadedRec
  <1>2. Remembers(j)'
    BY <1>1, MissingKept DEF JobOK, Remembers, Grows, Born
  <1>3. Holds(j)'
    BY <1>1 DEF JobOK, Holds, Remembers, Grows
  <1>4. Doomed(j)'
    <2>1. \A s \in j.todoS : ~Live(s) => ~Live(s)'
      BY <1>1, MissingKept DEF JobOK, Remembers
    <2>2. j.pc = "flag" => ~Live(row[j.row].svc)'
      <3>1. SUFFICES ASSUME j.pc = "flag"
                     PROVE  ~Live(row[j.row].svc)'
        OBVIOUS
      <3>2. j.row \in Rows /\ Recorded(j.row) /\ ~Live(row[j.row].svc)
        BY <1>1, <3>1 DEF JobOK, Remembers, Holds, Doomed
      <3>3. Born(row[j.row].svc) /\ row'[j.row].svc = row[j.row].svc
        BY <3>2 DEF RowInv, Grows
      <3> QED
        BY <3>2, <3>3, MissingKept DEF Born, Live
    <2>3. j.svc # NoSvc => (Missing(j.svc) => Missing(j.svc)') /\ (Excused(j.svc) => Excused(j.svc)')
      BY <1>1, MissingKept DEF JobOK, Remembers
    <2>4. \A e \in j.todoR : Excused(row[e.row].svc) => Excused(row[e.row].svc)'
      <3>1. SUFFICES ASSUME NEW e \in j.todoR, Excused(row[e.row].svc)
                     PROVE  Excused(row[e.row].svc)'
        OBVIOUS
      <3>2. e.row \in Rows /\ Recorded(e.row)
        BY <1>1 DEF JobOK, Remembers
      <3>3. Born(row[e.row].svc) /\ row'[e.row].svc = row[e.row].svc
        BY <3>2 DEF RowInv, Grows
      <3> QED
        BY <3>1, <3>3, MissingKept DEF Born, Excused, Missing, Live
    <2>5. j.pc \in {"rowdel", "write"} => j.svc # NoSvc
      BY DEF JobOK, Holds
    <2> QED
      BY <2>1, <2>2, <2>3, <2>4, <2>5 DEF JobOK, Doomed
  <1>5. Starting(j)'
    BY DEF JobOK, Starting
  <1> QED
    BY <1>2, <1>3, <1>4, <1>5 DEF JobOK

-----------------------------------------------------------------------------
(* From one worker's step to the invariant. *)

\* A start that gives up its service leaves it tracked.
HandsOver(j, k) ==
  \A s \in Services : j.op = "start" /\ j.svc = s =>
    (k.op = "start" /\ k.svc = s) \/ Tracked(s)'

\* Every service that becomes live is the one a start has just created.
OnlyBirth(j) ==
  \A s \in Services : ~Live(s) /\ Live(s)' => j.op = "start" /\ j.svc = s

SharedTyped ==
  /\ svc \in [Services -> SvcRec]
  /\ row \in [Rows -> RowRec]
  /\ lost \subseteq Services
  /\ faults \in 0 .. MaxFaults

\* A tracked service stays tracked: its row can only be deleted when excused.
LEMMA TrackedKept ==
  ASSUME SharedTyped, SharedTyped', RowInv, RowInv', Grows, NEW s \in Services, Born(s), Tracked(s)
  PROVE  Tracked(s)'
  <1>1. CASE Excused(s)
    BY <1>1, MissingKept DEF Tracked
  <1>2. CASE RowsOf(s) # {}
    <2>1. PICK r \in Rows : Present(r) /\ row[r].svc = s
      BY <1>2 DEF RowsOf, PresentRows
    <2>2. Recorded(r)' /\ row'[r].svc = s
      BY <2>1 DEF Grows, Recorded, Present
    <2>3. row'[r].st \in {"present", "deleted"}
      BY <2>2 DEF Recorded, SharedTyped, RowRec
    <2>4. CASE row'[r].st = "present"
      BY <2>2, <2>4 DEF Tracked, RowsOf, PresentRows, Present
    <2>5. CASE row'[r].st = "deleted"
      BY <2>2, <2>5 DEF Tracked, RowInv
    <2> QED
      BY <2>3, <2>4, <2>5
  <1> QED
    BY <1>1, <1>2 DEF Tracked

LEMMA StepLemma ==
  ASSUME IInv, NEW w \in Workers, NEW j \in JobRec, Put(w, j),
         SharedTyped', Grows, RowInv', JobOK(j)', HandsOver(job[w], j), OnlyBirth(j)
  PROVE  IInv'
  <1>1. TypeOK /\ RowInv /\ SharedTyped /\ LiveTracked
    BY DEF IInv, TypeOK, SharedTyped
  <1>2. TypeOK'
    BY <1>1 DEF TypeOK, SharedTyped, Put
  <1>3. ASSUME NEW v \in Workers
        PROVE  JobOK(job[v])'
    <2>1. CASE v = w
      BY <1>1, <2>1 DEF Put, TypeOK
    <2>2. CASE v # w
      <3>1. job'[v] = job[v]
        BY <1>1, <2>2 DEF Put, TypeOK
      <3>2. JobOK(job[v])
        BY DEF IInv
      <3>3. \A k \in JobRec : JobOK(k) => JobOK(k)'
        BY <1>1, JobKept
      <3> QED
        BY <1>1, <3>1, <3>2, <3>3, JobTyped DEF JobOK, Remembers, Holds, Doomed, Starting
    <2> QED
      BY <2>1, <2>2
  <1>4. LiveTracked'
    <2>1. SUFFICES ASSUME NEW s \in Services, Live(s)'
                   PROVE  Tracked(s)' \/ BeingRecorded(s)'
      BY DEF LiveTracked, LiveServices, Tracked, Excused, Missing
    <2>2. CASE ~Live(s)
      BY <1>1, <2>1, <2>2 DEF OnlyBirth, BeingRecorded, Put, TypeOK
    <2>3. CASE Live(s) /\ Tracked(s)
      BY <1>1, <2>3, TrackedKept DEF Born, Live, SharedTyped
    <2>4. CASE Live(s) /\ BeingRecorded(s)
      <3>1. PICK v \in Workers : job[v].op = "start" /\ job[v].svc = s
        BY <2>4 DEF BeingRecorded
      <3>2. CASE v # w
        BY <1>1, <3>1, <3>2 DEF BeingRecorded, Put, TypeOK
      <3>3. CASE v = w
        BY <1>1, <3>1, <3>3 DEF HandsOver, BeingRecorded, Put, TypeOK
      <3> QED
        BY <3>2, <3>3
    <2>5. Live(s) => Tracked(s) \/ BeingRecorded(s)
      BY <1>1 DEF LiveTracked, LiveServices, Tracked, Excused, Missing
    <2> QED
      BY <2>2, <2>3, <2>4, <2>5
  <1> QED
    BY <1>1, <1>2, <1>3, <1>4 DEF IInv

\* Most steps only read the shared state.
LEMMA QuietLemma ==
  ASSUME IInv, NEW w \in Workers, NEW j \in JobRec, Put(w, j), JobOK(j),
         UNCHANGED <<svc, row, lost, faults>>,
         \A s \in Services : job[w].op = "start" /\ job[w].svc = s =>
           (j.op = "start" /\ j.svc = s) \/ Tracked(s)
  PROVE  IInv'
  <1>1. SharedTyped' /\ Grows /\ OnlyBirth(j)
    BY DEF IInv, TypeOK, SharedTyped, Grows, OnlyBirth, Born, Recorded, Live
  <1>4. RowInv'
    BY DEF IInv, RowInv, Born, Recorded, Missing, Excused, Live, IsMia
  <1>2. JobOK(j)'
    BY DEF JobOK, Remembers, Holds, Doomed, Starting, Born, Recorded, Missing, Excused, Live
  <1>3. HandsOver(job[w], j)
    BY DEF HandsOver, Tracked, Excused, Missing, Live, RowsOf, PresentRows, Present
  <1> QED
    BY <1>1, <1>2, <1>3, <1>4, StepLemma

LEMMA Facts ==
  ASSUME IInv, NEW w \in Workers
  PROVE  TypeOK /\ RowInv /\ job[w] \in JobRec /\ JobOK(job[w])
  BY JobTyped DEF IInv

LEMMA FirstOfType ==
  ASSUME NEW s, NEW r \in FirstOf(RowsOf(s))
  PROVE  r \in Rows \cup {NoRow} /\ (r # NoRow => Present(r) /\ row[r].svc = s)
  BY DEF FirstOf, RowsOf, PresentRows

\* Giving up is always possible for a worker that starts nothing.
LEMMA DoneInv ==
  ASSUME IInv, NEW w \in Workers, Done(w), UNCHANGED <<svc, row, lost, faults>>,
         job[w].op = "start" => (job[w].svc = NoSvc \/ Tracked(job[w].svc))
  PROVE  IInv'
  BY QuietLemma, IdleTyped, IdleOK, HostsAssumption DEF Done

LEMMA DbQueryInv ==
  ASSUME IInv, NEW w \in Workers, DbQuery(w)
  PROVE  IInv'
  <1>1. PICK r \in FirstOf(RowsOf(job[w].svc)) :
          Put(w, [job[w] EXCEPT !.pc = "model", !.row = r])
    BY DEF DbQuery
  <1> DEFINE j == [job[w] EXCEPT !.pc = "model", !.row = r]
  <1>2. r \in Rows \cup {NoRow} /\ (r # NoRow => Present(r) /\ row[r].svc = job[w].svc)
    BY FirstOfType
  <1>3. j \in JobRec
    BY <1>2, Facts, JobFields, JobParts DEF Pcs, StartPcs, SyncPcs
  <1>4. /\ j.pc = "model" /\ j.row = r /\ j.op = job[w].op /\ j.ret = job[w].ret
        /\ j.svc = job[w].svc /\ j.inDb = job[w].inDb /\ j.notInDb = job[w].notInDb
        /\ j.todoS = job[w].todoS /\ j.todoR = job[w].todoR
    BY Facts DEF JobRec
  <1>5. job[w].pc = "query" /\ Put(w, j)
    BY <1>1 DEF DbQuery, At
  <1> HIDE DEF j
  <1>6. JobOK(j)
    BY <1>2, <1>4, <1>5, Facts DEF JobOK, Remembers, Holds, Doomed, Starting, StartPcs,
       Recorded, Present
  <1> QED
    BY <1>3, <1>4, <1>5, <1>6, QuietLemma DEF DbQuery

LEMMA StartClassInv ==
  ASSUME IInv, NEW w \in Workers, StartClass(w)
  PROVE  IInv'
  <1>1. PICK u \in Users :
          Begin(w, [IdleJob EXCEPT !.op = "start", !.pc = "lookup", !.user = u])
    BY DEF StartClass
  <1> DEFINE j == [IdleJob EXCEPT !.op = "start", !.pc = "lookup", !.user = u]
  <1>a. j \in JobRec
    BY <1>1, Facts, NoModelTyped, JobFields, JobParts, IdleTyped DEF Ops, SyncOps,
       StartPcs, Pcs, SyncPcs
  <1>b. /\ j.op = "start" /\ j.pc = "lookup" /\ j.ret = "idle" /\ j.svc = NoSvc
        /\ j.row = NoRow /\ j.inDb = {} /\ j.notInDb = {} /\ j.todoS = {}
        /\ j.todoR = {}
    BY Facts DEF JobRec, IdleJob
  <1>c. job[w].pc = "idle" /\ Put(w, j)
    BY <1>1 DEF StartClass, At, Begin, Idle
  <1> HIDE DEF j
  <1>d. JobOK(j)
    BY <1>1, <1>b, <1>c, Facts, HostsAssumption DEF JobOK, Remembers, Holds, Doomed,
       Starting, StartPcs, Recorded, Present
  <1> QED
    BY <1>1, <1>a, <1>b, <1>c, <1>d, QuietLemma, HostsAssumption, Facts DEF
       StartClass, JobOK, Starting, StartPcs

(* Starting. *)

LEMMA NamedType ==
  ASSUME TypeOK, NEW u, NEW s \in Named(u)
  PROVE  s \in Services /\ Live(s) /\ Born(s)
  BY DEF Named, LiveServices, Live, Born

LEMMA StartLookupInv ==
  ASSUME IInv, NEW w \in Workers, StartLookup(w)
  PROVE  IInv'
  <1>1. CASE Named(job[w].user) # {}
    <2>1. PICK s \in Named(job[w].user) : Put(w, CallSyncToDb(w, s, TRUE, "idle"))
      BY <1>1 DEF StartLookup
    <2>2. s \in Services
      BY <2>1, Facts, NamedType
    <2> DEFINE j == CallSyncToDb(w, s, TRUE, "idle")
    <2>a. j \in JobRec
      BY <2>2, Facts, JobFields, JobParts DEF
         CallSyncToDb, Pcs, StartPcs, SyncPcs
    <2>b. /\ j.op = job[w].op /\ j.pc = "query" /\ j.ret = "idle" /\ j.svc = s
          /\ j.row = job[w].row /\ j.inDb = job[w].inDb /\ j.notInDb = job[w].notInDb
          /\ j.todoS = job[w].todoS /\ j.todoR = job[w].todoR
      BY Facts DEF JobRec, CallSyncToDb
    <2>c. job[w].pc = "lookup" /\ Put(w, j)
      BY <1>1, <2>1, NamedType DEF StartLookup, At
    <2> HIDE DEF j
    <2>d. JobOK(j)
      BY <1>1, <2>1, NamedType, <2>b, <2>c, Facts, HostsAssumption DEF JobOK,
         Remembers, Holds, Doomed, Starting, StartPcs, Recorded, Present
    <2> QED
      BY <1>1, <2>1, NamedType, <2>a, <2>b, <2>c, <2>d, QuietLemma, HostsAssumption,
         Facts DEF StartLookup, JobOK, Starting, StartPcs
  <1>2. CASE Named(job[w].user) = {}
    <2> DEFINE j == [job[w] EXCEPT !.pc = "existing"]
    <2>a. j \in JobRec
      BY <1>2, Facts, NoModelTyped, JobFields, JobParts DEF StartPcs, Pcs, SyncPcs
    <2>b. /\ j.op = job[w].op /\ j.pc = "existing" /\ j.ret = job[w].ret
          /\ j.svc = job[w].svc /\ j.row = job[w].row /\ j.inDb = job[w].inDb
          /\ j.notInDb = job[w].notInDb /\ j.todoS = job[w].todoS
          /\ j.todoR = job[w].todoR
      BY Facts DEF JobRec
    <2>c. job[w].pc = "lookup" /\ Put(w, j)
      BY <1>2 DEF StartLookup, At, Goto
    <2> HIDE DEF j
    <2>d. JobOK(j)
      BY <1>2, <2>b, <2>c, Facts, HostsAssumption DEF JobOK, Remembers, Holds,
         Doomed, Starting, StartPcs, Recorded, Present
    <2> QED
      BY <1>2, <2>a, <2>b, <2>c, <2>d, QuietLemma, HostsAssumption, Facts DEF
         StartLookup, JobOK, Starting, StartPcs
  <1> QED
    BY <1>1, <1>2

LEMMA StartExistingInv ==
  ASSUME IInv, NEW w \in Workers, StartExisting(w)
  PROVE  IInv'
  <1>1. CASE Goto(w, "create")
    <2> DEFINE j == [job[w] EXCEPT !.pc = "create"]
    <2>a. j \in JobRec
      BY <1>1, Facts, NoModelTyped, JobFields, JobParts DEF StartPcs, Pcs, SyncPcs
    <2>b. /\ j.op = job[w].op /\ j.pc = "create" /\ j.ret = job[w].ret
          /\ j.svc = job[w].svc /\ j.row = job[w].row /\ j.inDb = job[w].inDb
          /\ j.notInDb = job[w].notInDb /\ j.todoS = job[w].todoS
          /\ j.todoR = job[w].todoR
      BY Facts DEF JobRec
    <2>c. job[w].pc = "existing" /\ Put(w, j)
      BY <1>1 DEF StartExisting, At, Goto
    <2> HIDE DEF j
    <2>d. JobOK(j)
      BY <1>1, <2>b, <2>c, Facts, HostsAssumption DEF JobOK, Remembers, Holds,
         Doomed, Starting, StartPcs, Recorded, Present
    <2> QED
      BY <1>1, <2>a, <2>b, <2>c, <2>d, QuietLemma, HostsAssumption, Facts DEF
         StartExisting, JobOK, Starting, StartPcs
  <1>2. CASE Done(w)
    BY <1>2, Facts, DoneInv DEF StartExisting, At, JobOK, Starting, StartPcs
  <1> QED
    BY <1>1, <1>2 DEF StartExisting

LEMMA StartConflictInv ==
  ASSUME IInv, NEW w \in Workers, StartConflict(w)
  PROVE  IInv'
  <1>1. CASE Named(job[w].user) # {}
    <2>1. PICK s \in Named(job[w].user) : Put(w, [job[w] EXCEPT !.pc = "smodel", !.svc = s])
      BY <1>1 DEF StartConflict
    <2>2. s \in Services
      BY <2>1, Facts, NamedType
    <2> DEFINE j == [job[w] EXCEPT !.pc = "smodel", !.svc = s]
    <2>a. j \in JobRec
      BY <2>2, Facts, JobFields, JobParts DEF StartPcs,
         Pcs, SyncPcs
    <2>b. /\ j.op = job[w].op /\ j.pc = "smodel" /\ j.ret = job[w].ret /\ j.svc = s
          /\ j.row = job[w].row /\ j.inDb = job[w].inDb /\ j.notInDb = job[w].notInDb
          /\ j.todoS = job[w].todoS /\ j.todoR = job[w].todoR
      BY Facts DEF JobRec
    <2>c. job[w].pc = "conflict" /\ Put(w, j)
      BY <1>1, <2>1, NamedType DEF StartConflict, At
    <2> HIDE DEF j
    <2>d. JobOK(j)
      BY <1>1, <2>1, NamedType, <2>b, <2>c, Facts, HostsAssumption DEF JobOK,
         Remembers, Holds, Doomed, Starting, StartPcs, Recorded, Present
    <2>e. job[w].op = "start" => job[w].svc = NoSvc
      BY <2>c, Facts DEF JobOK, Starting
    <2> QED
      BY <2>a, <2>c, <2>d, <2>e, QuietLemma, HostsAssumption DEF StartConflict
  <1>2. CASE Named(job[w].user) = {}
    BY <1>2, Facts, DoneInv DEF StartConflict, At, JobOK, Starting, StartPcs
  <1> QED
    BY <1>1, <1>2

\* sync_to_db() finds MIA only when a task of the service was on a removed node.
LEMMA ModelType ==
  ASSUME TypeOK, NEW s \in Services, NEW check \in BOOLEAN, NEW m \in Models(s, check)
  PROVE  m \in ModelRec /\ (m.state = "mia" \/ m.app = "mia" => svc[s].stale)
  BY DEF Models, ModelRec, Status, TypeOK, SvcRec

\* Where a subroutine returns to is a good place to be.
LEMMA BackLemma ==
  ASSUME TypeOK, RowInv, NEW w \in Workers, job[w] \in JobRec, JobOK(job[w]), NEW c \in BOOLEAN,
         Back(w, c), job[w].ret = "recheck" => job[w].svc # NoSvc
  PROVE  \E j \in JobRec : Put(w, j) /\ JobOK(j)
  <1>1. CASE job[w].ret = "idle"
    BY <1>1, IdleTyped, IdleOK DEF Back, Done
  <1>2. CASE job[w].ret # "idle"
    <2> DEFINE kept == IF job[w].ret = "recheck" THEN job[w].svc ELSE NoSvc
               ex == job[w].expired \/ c
               j == [job[w] EXCEPT !.pc = job[w].ret, !.ret = "idle", !.m = NoModel,
                       !.row = NoRow, !.svc = kept, !.expired = ex]
    <2>1. kept \in Services \cup {NoSvc} /\ (kept # NoSvc => kept = job[w].svc)
      BY DEF JobRec
    <2>2. job[w].ret = "recheck" => kept # NoSvc
      OBVIOUS
    <2>3. Put(w, j)
      BY <1>2 DEF Back
    <2>8. ex \in BOOLEAN
      BY DEF JobRec
    <2> HIDE DEF kept, ex
    <2>6. job[w].ret \in {"rows", "services", "recheck", "victims", "each"}
      BY <1>2 DEF JobRec
    <2>4. j \in JobRec
      BY <2>1, <2>6, <2>8, NoModelTyped, JobFields, JobParts, ZenonT(30) DEF SyncPcs, Pcs, StartPcs
    <2>5. /\ j.op = job[w].op /\ j.pc = job[w].ret /\ j.svc = kept /\ j.row = NoRow
          /\ j.inDb = job[w].inDb /\ j.notInDb = job[w].notInDb /\ j.todoS = job[w].todoS
          /\ j.todoR = job[w].todoR
      BY DEF JobRec
    <2> HIDE DEF j
    <2>7. JobOK(j)
      BY <1>2, <2>1, <2>2, <2>5, <2>6, HostsAssumption
         DEF JobOK, Remembers, Holds, Doomed, Starting, StartPcs
    <2> QED
      BY <2>3, <2>4, <2>7
  <1> QED
    BY <1>1, <1>2

LEMMA BackInv ==
  ASSUME IInv, NEW w \in Workers, NEW c \in BOOLEAN, Back(w, c),
         UNCHANGED <<svc, row, lost, faults>>,
         job[w].ret = "recheck" => job[w].svc # NoSvc,
         job[w].op = "start" => (job[w].svc = NoSvc \/ Tracked(job[w].svc))
  PROVE  IInv'
  BY Facts, BackLemma, QuietLemma, HostsAssumption

LEMMA DbModelInv ==
  ASSUME IInv, NEW w \in Workers, DbModel(w)
  PROVE  IInv'
  <1>1. job[w].pc = "model" /\ job[w].svc \in Services /\ job[w].check \in BOOLEAN
    BY Facts DEF DbModel, At, JobOK, Holds, JobRec
  <1>2. CASE Live(job[w].svc)
    <2>1. PICK m \in Models(job[w].svc, job[w].check) :
            Put(w, [job[w] EXCEPT !.pc = "write", !.m = m])
      BY <1>2 DEF DbModel
    <2>2. m \in ModelRec /\ (m.state = "mia" \/ m.app = "mia" => svc[job[w].svc].stale)
      BY <1>1, Facts, ModelType
    <2> DEFINE j == [job[w] EXCEPT !.pc = "write", !.m = m]
    <2>a. j \in JobRec
      BY <2>1, <2>2, Facts, NoModelTyped, JobFields, JobParts DEF Pcs, StartPcs,
         SyncPcs
    <2>b. /\ j.op = job[w].op /\ j.pc = "write" /\ j.ret = job[w].ret
          /\ j.svc = job[w].svc /\ j.row = job[w].row /\ j.inDb = job[w].inDb
          /\ j.notInDb = job[w].notInDb /\ j.todoS = job[w].todoS
          /\ j.todoR = job[w].todoR /\ j.m = m
      BY Facts DEF JobRec
    <2>c. job[w].pc = "model" /\ Put(w, j) /\ UNCHANGED <<svc, row, lost, faults>>
      BY <2>1, <2>2 DEF DbModel, At
    <2> HIDE DEF j
    <2>d. JobOK(j)
      BY <2>1, <2>2, <2>b, <2>c, Facts, HostsAssumption DEF JobOK, Remembers, Holds,
         Doomed, Starting, StartPcs, Recorded, Present, Missing
    <2> QED
      BY <2>a, <2>b, <2>c, <2>d, QuietLemma, HostsAssumption
  <1>3. CASE ~Live(job[w].svc)
    <2>1. CASE job[w].op \in SyncOps
      BY <1>1, <1>3, <2>1, BackInv, Facts, HostsAssumption
         DEF DbModel, Raise, JobOK, Starting, SyncOps
    <2>2. CASE job[w].op \notin SyncOps
      BY <1>1, <1>3, <2>2, DoneInv DEF DbModel, Raise, Tracked, Excused, Missing
    <2> QED
      BY <2>1, <2>2
  <1> QED
    BY <1>2, <1>3

LEMMA StartModelInv ==
  ASSUME IInv, NEW w \in Workers, StartModel(w)
  PROVE  IInv'
  <1>1. CASE Live(job[w].svc)
    <2>1. PICK st \in Status(job[w].svc) :
            Put(w, [job[w] EXCEPT !.pc = "sfind", !.m = [state |-> st, app |-> "keep"]])
      BY <1>1 DEF StartModel
    <2>2. st \in {"running", "pending"}
      BY DEF Status
    <2> DEFINE m == [state |-> st, app |-> "keep"]
    <2>3. m \in ModelRec
      BY <2>2 DEF ModelRec
    <2> DEFINE j == [job[w] EXCEPT !.pc = "sfind", !.m = m]
    <2>a. j \in JobRec
      BY <2>1, <2>3, Facts, NoModelTyped, JobFields, JobParts DEF StartPcs, Pcs,
         SyncPcs
    <2>b. /\ j.op = job[w].op /\ j.pc = "sfind" /\ j.ret = job[w].ret
          /\ j.svc = job[w].svc /\ j.row = job[w].row /\ j.inDb = job[w].inDb
          /\ j.notInDb = job[w].notInDb /\ j.todoS = job[w].todoS
          /\ j.todoR = job[w].todoR /\ j.m = m
      BY Facts DEF JobRec
    <2>c. job[w].pc = "smodel" /\ Put(w, j) /\ UNCHANGED <<svc, row, lost, faults>>
      BY <2>1, <2>3 DEF StartModel, At
    <2> HIDE DEF j
    <2>d. JobOK(j)
      BY <2>1, <2>3, <2>b, <2>c, Facts, HostsAssumption, <2>2 DEF JobOK, Remembers,
         Holds, Doomed, Starting, StartPcs, Recorded, Present
    <2> QED
      BY <2>a, <2>b, <2>c, <2>d, QuietLemma, HostsAssumption
  <1>2. CASE ~Live(job[w].svc)
    BY <1>2, DoneInv DEF StartModel, Tracked, Excused, Missing
  <1> QED
    BY <1>1, <1>2

LEMMA StartFindInv ==
  ASSUME IInv, NEW w \in Workers, StartFind(w)
  PROVE  IInv'
  <1>1. PICK r \in FirstOf(RowsOf(job[w].svc)) :
          Put(w, [job[w] EXCEPT !.pc = "scommit", !.row = r])
    BY DEF StartFind
  <1>2. r \in Rows \cup {NoRow} /\ (r # NoRow => Present(r) /\ row[r].svc = job[w].svc)
    BY FirstOfType
  <1> DEFINE j == [job[w] EXCEPT !.pc = "scommit", !.row = r]
  <1>a. j \in JobRec
    BY <1>1, <1>2, Facts, NoModelTyped, JobFields, JobParts DEF StartPcs, Pcs, SyncPcs
  <1>b. /\ j.op = job[w].op /\ j.pc = "scommit" /\ j.ret = job[w].ret
        /\ j.svc = job[w].svc /\ j.row = r /\ j.inDb = job[w].inDb
        /\ j.notInDb = job[w].notInDb /\ j.todoS = job[w].todoS
        /\ j.todoR = job[w].todoR /\ j.m = job[w].m
    BY Facts DEF JobRec
  <1>c. job[w].pc = "sfind" /\ Put(w, j) /\ UNCHANGED <<svc, row, lost, faults>>
    BY <1>1, <1>2 DEF StartFind, At
  <1> HIDE DEF j
  <1>d. JobOK(j)
    BY <1>1, <1>2, <1>b, <1>c, Facts, HostsAssumption DEF JobOK, Remembers, Holds,
       Doomed, Starting, StartPcs, Recorded, Present
  <1> QED
    BY <1>a, <1>b, <1>c, <1>d, QuietLemma, HostsAssumption

LEMMA StopHostInv ==
  ASSUME IInv, NEW w \in Workers, StopHost(w)
  PROVE  IInv'
  <1>1. PICK r \in PresentRows : Begin(w, [IdleJob EXCEPT !.op = "stop", !.pc = "remove", !.row = r,
                                          !.svc = row[r].svc])
    BY DEF StopHost
  <1>2. r \in Rows /\ Recorded(r) /\ row[r].svc \in Services /\ Born(row[r].svc)
    BY Facts DEF PresentRows, Present, Recorded, RowInv, Born
  <1> DEFINE j == [IdleJob EXCEPT !.op = "stop", !.pc = "remove", !.row = r,
                              !.svc = row[r].svc]
  <1>a. j \in JobRec
    BY <1>1, <1>2, Facts, NoModelTyped, JobFields, JobParts, IdleTyped DEF Ops,
       SyncOps, Pcs, StartPcs, SyncPcs
  <1>b. /\ j.op = "stop" /\ j.pc = "remove" /\ j.ret = "idle" /\ j.svc = row[r].svc
        /\ j.row = r /\ j.inDb = {} /\ j.notInDb = {} /\ j.todoS = {} /\ j.todoR = {}
    BY Facts DEF JobRec, IdleJob
  <1>c. job[w].pc = "idle" /\ Put(w, j) /\ UNCHANGED <<svc, row, lost, faults>>
    BY <1>1, <1>2 DEF StopHost, At, Begin, Idle
  <1> HIDE DEF j
  <1>d. JobOK(j)
    BY <1>1, <1>2, <1>b, <1>c, Facts, HostsAssumption DEF JobOK, Remembers, Holds,
       Doomed, Starting, StartPcs, Recorded, Present
  <1>e. job[w].op # "start"
    BY <1>b, <1>c, Facts DEF JobOK, Starting, StartPcs
  <1> QED
    BY <1>a, <1>c, <1>d, <1>e, QuietLemma, HostsAssumption

LEMMA OpenHostInv ==
  ASSUME IInv, NEW w \in Workers, OpenHost(w)
  PROVE  IInv'
  <1>1. PICK r \in PresentRows : Begin(w, [IdleJob EXCEPT !.op = "open", !.pc = "get", !.row = r,
                                          !.svc = row[r].svc])
    BY DEF OpenHost
  <1>2. r \in Rows /\ Recorded(r) /\ row[r].svc \in Services /\ Born(row[r].svc)
    BY Facts DEF PresentRows, Present, Recorded, RowInv, Born
  <1> DEFINE j == [IdleJob EXCEPT !.op = "open", !.pc = "get", !.row = r,
                              !.svc = row[r].svc]
  <1>a. j \in JobRec
    BY <1>1, <1>2, Facts, NoModelTyped, JobFields, JobParts, IdleTyped DEF Ops,
       SyncOps, Pcs, StartPcs, SyncPcs
  <1>b. /\ j.op = "open" /\ j.pc = "get" /\ j.ret = "idle" /\ j.svc = row[r].svc
        /\ j.row = r /\ j.inDb = {} /\ j.notInDb = {} /\ j.todoS = {} /\ j.todoR = {}
    BY Facts DEF JobRec, IdleJob
  <1>c. job[w].pc = "idle" /\ Put(w, j) /\ UNCHANGED <<svc, row, lost, faults>>
    BY <1>1, <1>2 DEF OpenHost, At, Begin, Idle
  <1> HIDE DEF j
  <1>d. JobOK(j)
    BY <1>1, <1>2, <1>b, <1>c, Facts, HostsAssumption DEF JobOK, Remembers, Holds,
       Doomed, Starting, StartPcs, Recorded, Present
  <1>e. job[w].op # "start"
    BY <1>b, <1>c, Facts DEF JobOK, Starting, StartPcs
  <1> QED
    BY <1>a, <1>c, <1>d, <1>e, QuietLemma, HostsAssumption

\* Loading rows remembers them by their keys.
LEMMA LoadTyped ==
  ASSUME TypeOK, NEW R \in SUBSET PresentRows
  PROVE  Load(R) \subseteq LoadedRec /\ \A e \in Load(R) : e.row \in R /\ Recorded(e.row)
  <1>1. \A r \in Rows : IsMia(r) \in BOOLEAN
    BY DEF IsMia
  <1>2. R \subseteq Rows /\ \A r \in R : Recorded(r)
    BY DEF PresentRows, Present, Recorded
  <1> QED
    BY <1>1, <1>2 DEF Load, LoadedRec

LEMMA DbServicesBorn ==
  ASSUME TypeOK, RowInv
  PROVE  DbServices \subseteq Services /\ \A s \in DbServices : Born(s)
  BY DEF DbServices, RowsOf, PresentRows, Present, RowInv, Recorded

LEMMA LiveServicesBorn ==
  LiveServices \subseteq Services /\ \A s \in LiveServices : Live(s) /\ Born(s)
  BY DEF LiveServices, Live, Born

LEMMA OpenGetInv ==
  ASSUME IInv, NEW w \in Workers, OpenGet(w)
  PROVE  IInv'
  <1>1. job[w].pc = "get" /\ job[w].op # "start"
    BY Facts DEF OpenGet, At, JobOK, Starting, StartPcs
  <1>2. CASE Live(job[w].svc)
    BY <1>1, <1>2, DoneInv DEF OpenGet
  <1>3. CASE ~Live(job[w].svc)
    <2> DEFINE j == [job[w] EXCEPT !.pc = "rowdel"]
    <2>a. j \in JobRec
      BY <1>3, Facts, JobFields, JobParts DEF Pcs, StartPcs, SyncPcs
    <2>b. /\ j.op = job[w].op /\ j.pc = "rowdel" /\ j.ret = job[w].ret
          /\ j.svc = job[w].svc /\ j.row = job[w].row /\ j.inDb = job[w].inDb
          /\ j.notInDb = job[w].notInDb /\ j.todoS = job[w].todoS
          /\ j.todoR = job[w].todoR
      BY Facts DEF JobRec
    <2>c. job[w].pc = "get" /\ Put(w, j) /\ UNCHANGED <<svc, row, lost, faults>>
      BY <1>3 DEF OpenGet, At, Goto
    <2> HIDE DEF j
    <2>d. JobOK(j)
      BY <1>3, <2>b, <2>c, Facts, HostsAssumption DEF JobOK, Remembers, Holds,
         Doomed, Starting, StartPcs, Recorded, Present, Excused, Missing
    <2> QED
      BY <2>a, <2>b, <2>c, <2>d, QuietLemma, HostsAssumption
  <1> QED
    BY <1>2, <1>3

LEMMA IsReadyInv ==
  ASSUME IInv, NEW w \in Workers, IsReady(w)
  PROVE  IInv'
  <1>1. PICK r \in PresentRows :
          Begin(w, [CallSyncToDb(w, row[r].svc, FALSE, "recheck") EXCEPT !.op = "ready"])
    BY DEF IsReady
  <1>2. r \in Rows /\ Recorded(r) /\ row[r].svc \in Services /\ Born(row[r].svc)
    BY Facts DEF PresentRows, Present, Recorded, RowInv, Born
  <1>3. job[w].pc = "idle"
    BY <1>1 DEF Begin, Idle
  <1> DEFINE j == [CallSyncToDb(w, row[r].svc, FALSE, "recheck") EXCEPT !.op = "ready"]
  <1>a. j \in JobRec
    BY <1>1, <1>2, Facts, JobFields, JobParts DEF CallSyncToDb, Ops, Pcs, StartPcs,
       SyncPcs
  <1>b. /\ j.op = "ready" /\ j.pc = "query" /\ j.ret = "recheck" /\ j.svc = row[r].svc
        /\ j.row = job[w].row /\ j.inDb = job[w].inDb /\ j.notInDb = job[w].notInDb
        /\ j.todoS = job[w].todoS /\ j.todoR = job[w].todoR
    BY Facts DEF JobRec, CallSyncToDb
  <1>c. job[w].pc = "idle" /\ Put(w, j) /\ UNCHANGED <<svc, row, lost, faults>>
    BY <1>1, <1>2 DEF IsReady, At, Begin, Idle
  <1> HIDE DEF j
  <1>d. JobOK(j)
    BY <1>1, <1>2, <1>b, <1>c, Facts, HostsAssumption DEF JobOK, Remembers, Holds,
       Doomed, Starting, StartPcs, Recorded, Present
  <1>e. job[w].op # "start"
    BY <1>b, <1>c, Facts DEF JobOK, Starting, StartPcs
  <1> QED
    BY <1>a, <1>c, <1>d, <1>e, QuietLemma, HostsAssumption

LEMMA CheckReadyInv ==
  ASSUME IInv, NEW w \in Workers, CheckReady(w)
  PROVE  IInv'
  <1>1. job[w].pc = "recheck" /\ job[w].op # "start"
    BY Facts DEF CheckReady, At, JobOK, Starting, StartPcs
  <1>2. CASE Done(w)
    BY <1>1, <1>2, DoneInv DEF CheckReady
  <1>3. CASE \E check \in BOOLEAN : Put(w, CallSyncToDb(w, job[w].svc, check, "idle"))
    <2>1. PICK check \in BOOLEAN : Put(w, CallSyncToDb(w, job[w].svc, check, "idle"))
      BY <1>3
    <2> DEFINE j == CallSyncToDb(w, job[w].svc, check, "idle")
    <2>a. j \in JobRec
      BY <2>1, Facts, JobFields, JobParts DEF CallSyncToDb, Pcs, StartPcs, SyncPcs
    <2>b. /\ j.op = job[w].op /\ j.pc = "query" /\ j.ret = "idle" /\ j.svc = job[w].svc
          /\ j.row = job[w].row /\ j.inDb = job[w].inDb /\ j.notInDb = job[w].notInDb
          /\ j.todoS = job[w].todoS /\ j.todoR = job[w].todoR
      BY Facts DEF JobRec, CallSyncToDb
    <2>c. job[w].pc = "recheck" /\ Put(w, j) /\ UNCHANGED <<svc, row, lost, faults>>
      BY <2>1 DEF CheckReady, At
    <2> HIDE DEF j
    <2>d. JobOK(j)
      BY <2>1, <2>b, <2>c, Facts, HostsAssumption DEF JobOK, Remembers, Holds,
         Doomed, Starting, StartPcs, Recorded, Present
    <2>e. job[w].op # "start"
      BY <2>b, <2>c, Facts DEF JobOK, Starting, StartPcs
    <2> QED
      BY <2>a, <2>c, <2>d, <2>e, QuietLemma, HostsAssumption
  <1> QED
    BY <1>2, <1>3 DEF CheckReady

(* Synchronising. *)

LEMMA BeginSyncInv ==
  ASSUME IInv, NEW w \in Workers, BeginSync(w)
  PROVE  IInv'
  <1>1. PICK op \in SyncOps :
          Put(w, [IdleJob EXCEPT !.op = op, !.pc = "read1", !.check = TRUE])
    BY DEF BeginSync
  <1>2. op # "start" /\ op \in Ops
    BY DEF SyncOps, Ops
  <1> DEFINE j == [IdleJob EXCEPT !.op = op, !.pc = "read1", !.check = TRUE]
  <1>a. j \in JobRec
    BY <1>1, <1>2, Facts, NoModelTyped, JobFields, JobParts, IdleTyped DEF Ops,
       SyncOps, SyncPcs, Pcs, StartPcs
  <1>b. /\ j.op = op /\ j.pc = "read1" /\ j.ret = "idle" /\ j.svc = NoSvc
        /\ j.row = NoRow /\ j.inDb = {} /\ j.notInDb = {} /\ j.todoS = {}
        /\ j.todoR = {}
    BY Facts DEF JobRec, IdleJob
  <1>c. job[w].pc = "idle" /\ Put(w, j) /\ UNCHANGED <<svc, row, lost, faults>>
    BY <1>1, <1>2 DEF BeginSync, At, Idle
  <1> HIDE DEF j
  <1>d. JobOK(j)
    BY <1>1, <1>2, <1>b, <1>c, Facts, HostsAssumption DEF JobOK, Remembers, Holds,
       Doomed, Starting, StartPcs, Recorded, Present
  <1>e. job[w].op # "start"
    BY <1>b, <1>c, Facts DEF JobOK, Starting, StartPcs
  <1> QED
    BY <1>a, <1>c, <1>d, <1>e, QuietLemma, HostsAssumption

LEMMA SyncReadInv ==
  ASSUME IInv, NEW w \in Workers, SyncRead(w)
  PROVE  IInv'
  <1>1. CASE At(w, "read1")
    <2> DEFINE j == [job[w] EXCEPT !.inDb = DbServices, !.pc = "read2"]
    <2>a. j \in JobRec
      BY <1>1, DbServicesBorn, Facts, JobFields, JobParts DEF SyncPcs, Pcs, StartPcs
    <2>b. /\ j.op = job[w].op /\ j.pc = "read2" /\ j.ret = job[w].ret
          /\ j.svc = job[w].svc /\ j.row = job[w].row /\ j.inDb = DbServices
          /\ j.notInDb = job[w].notInDb /\ j.todoS = job[w].todoS
          /\ j.todoR = job[w].todoR
      BY Facts DEF JobRec
    <2>c. job[w].pc = "read1" /\ Put(w, j) /\ UNCHANGED <<svc, row, lost, faults>>
      BY <1>1, DbServicesBorn DEF SyncRead, At
    <2> HIDE DEF j
    <2>d. JobOK(j)
      BY <1>1, DbServicesBorn, <2>b, <2>c, Facts, HostsAssumption DEF JobOK,
         Remembers, Holds, Doomed, Starting, StartPcs, Recorded, Present
    <2>e. job[w].op # "start"
      BY <2>b, <2>c, Facts DEF JobOK, Starting, StartPcs
    <2> QED
      BY <2>a, <2>c, <2>d, <2>e, QuietLemma, HostsAssumption
  <1>2. CASE At(w, "read2")
    <2>1. \A s \in job[w].inDb : Born(s) /\ (s \notin LiveServices => ~Live(s))
      BY Facts DEF JobOK, Remembers, LiveServices, Born
    <2> DEFINE j == [job[w] EXCEPT !.notInDb = LiveServices \ job[w].inDb, !.inDb = {},
                 !.todoS = job[w].inDb \ LiveServices, !.pc = "mark"]
    <2>a. j \in JobRec
      BY <1>2, <2>1, LiveServicesBorn, Facts, JobFields, JobParts DEF SyncPcs, Pcs,
         StartPcs
    <2>b. /\ j.op = job[w].op /\ j.pc = "mark" /\ j.ret = job[w].ret
          /\ j.svc = job[w].svc /\ j.row = job[w].row /\ j.inDb = {}
          /\ j.notInDb = LiveServices \ job[w].inDb
          /\ j.todoS = job[w].inDb \ LiveServices /\ j.todoR = job[w].todoR
      BY Facts DEF JobRec
    <2>c. job[w].pc = "read2" /\ Put(w, j) /\ UNCHANGED <<svc, row, lost, faults>>
      BY <1>2, <2>1, LiveServicesBorn DEF SyncRead, At
    <2> HIDE DEF j
    <2>d. JobOK(j)
      BY <1>2, <2>1, LiveServicesBorn, <2>b, <2>c, Facts, HostsAssumption DEF JobOK,
         Remembers, Holds, Doomed, Starting, StartPcs, Recorded, Present
    <2>e. job[w].op # "start"
      BY <2>b, <2>c, Facts DEF JobOK, Starting, StartPcs
    <2> QED
      BY <2>a, <2>c, <2>d, <2>e, QuietLemma, HostsAssumption
  <1> QED
    BY <1>1, <1>2 DEF SyncRead

LEMMA SyncMarkInv ==
  ASSUME IInv, NEW w \in Workers, SyncMark(w)
  PROVE  IInv'
  <1>1. PICK s \in job[w].todoS : \E r \in FirstOf(RowsOf(s)) :
          Put(w, [job[w] EXCEPT !.todoS = @ \ {s}, !.row = r,
                   !.pc = IF r = NoRow THEN @ ELSE "flag"])
    BY DEF SyncMark
  <1>2. PICK r \in FirstOf(RowsOf(s)) :
          Put(w, [job[w] EXCEPT !.todoS = @ \ {s}, !.row = r,
                   !.pc = IF r = NoRow THEN @ ELSE "flag"])
    BY <1>1
  <1>3. r \in Rows \cup {NoRow} /\ (r # NoRow => Present(r) /\ row[r].svc = s)
    BY FirstOfType
  <1>4. job[w].pc = "mark" /\ ~Live(s)
    BY <1>1, Facts DEF SyncMark, At, JobOK, Doomed
  <1> DEFINE j == [job[w] EXCEPT !.todoS = @ \ {s}, !.row = r,
                   !.pc = IF r = NoRow THEN @ ELSE "flag"]
  <1>a. j \in JobRec
    BY <1>2, <1>3, <1>4, Facts, JobFields, JobParts DEF SyncPcs, Pcs, StartPcs
  <1>b. /\ j.op = job[w].op /\ j.pc = (IF r = NoRow THEN "mark" ELSE "flag")
        /\ j.ret = job[w].ret /\ j.svc = job[w].svc /\ j.row = r /\ j.inDb = job[w].inDb
        /\ j.notInDb = job[w].notInDb /\ j.todoS = job[w].todoS \ {s}
        /\ j.todoR = job[w].todoR
    BY <1>4, Facts DEF JobRec
  <1>c. job[w].pc = "mark" /\ Put(w, j) /\ UNCHANGED <<svc, row, lost, faults>>
    BY <1>2, <1>3, <1>4 DEF SyncMark, At
  <1> HIDE DEF j
  <1>d. JobOK(j)
    BY <1>2, <1>3, <1>4, <1>b, <1>c, Facts, HostsAssumption DEF JobOK, Remembers,
       Holds, Doomed, Starting, StartPcs, Recorded, Present
  <1>e. job[w].op # "start"
    BY <1>b, <1>c, Facts DEF JobOK, Starting, StartPcs
  <1> QED
    BY <1>a, <1>c, <1>d, <1>e, QuietLemma, HostsAssumption

LEMMA SyncNotReadyInv ==
  ASSUME IInv, NEW w \in Workers, SyncNotReady(w)
  PROVE  IInv'
  <1> DEFINE R == LoadNotReady
  <1>1. \A r \in Rows : StateMia(r) \in BOOLEAN
    BY DEF StateMia
  <1>2. R \subseteq LoadedRec /\ \A e \in R : Recorded(e.row)
    BY <1>1 DEF LoadNotReady, LoadedRec, PresentRows, Present, Recorded
  <1>3. Put(w, [job[w] EXCEPT !.todoR = R, !.expired = FALSE, !.pc = "rows"])
    BY DEF SyncNotReady
  <1> HIDE DEF R
  <1> DEFINE j == [job[w] EXCEPT !.todoR = R, !.expired = FALSE, !.pc = "rows"]
  <1>a. j \in JobRec
    BY <1>2, <1>3, Facts, JobFields, JobParts DEF SyncPcs, Pcs, StartPcs
  <1>b. /\ j.op = job[w].op /\ j.pc = "rows" /\ j.ret = job[w].ret /\ j.svc = job[w].svc
        /\ j.row = job[w].row /\ j.inDb = job[w].inDb /\ j.notInDb = job[w].notInDb
        /\ j.todoS = job[w].todoS /\ j.todoR = R
    BY Facts DEF JobRec
  <1>c. job[w].pc = "mark" /\ Put(w, j) /\ UNCHANGED <<svc, row, lost, faults>>
    BY <1>2, <1>3 DEF SyncNotReady, At
  <1> HIDE DEF j
  <1>d. JobOK(j)
    BY <1>2, <1>3, <1>b, <1>c, Facts, HostsAssumption DEF JobOK, Remembers, Holds,
       Doomed, Starting, StartPcs, Recorded, Present
  <1>e. job[w].op # "start"
    BY <1>b, <1>c, Facts DEF JobOK, Starting, StartPcs
  <1> QED
    BY <1>a, <1>c, <1>d, <1>e, QuietLemma, HostsAssumption

LEMMA SyncRowInv ==
  ASSUME IInv, NEW w \in Workers, SyncRow(w)
  PROVE  IInv'
  <1>1. job[w].pc = "rows" /\ job[w].op # "start"
    BY Facts DEF SyncRow, At, JobOK, Starting, StartPcs
  <1>2. PICK e \in job[w].todoR :
          IF Vanished(w, e) THEN Done(w)
          ELSE IF Seen(w, e, StateMia(e.row)) \/ ~Live(row[e.row].svc)
          THEN Put(w, [job[w] EXCEPT !.todoR = @ \ {e}])
          ELSE Put(w, [CallSyncToDb(w, row[e.row].svc, TRUE, "rows") EXCEPT !.todoR = @ \ {e}])
    BY DEF SyncRow
  <1>3. /\ e.row \in Rows /\ Recorded(e.row)
        /\ row[e.row].svc \in Services /\ Born(row[e.row].svc)
    BY Facts DEF JobOK, Remembers, JobRec, LoadedRec, RowInv, Born
  <1>4. CASE Done(w)
    BY <1>1, <1>4, DoneInv DEF SyncRow
  <1>5. CASE Put(w, [job[w] EXCEPT !.todoR = @ \ {e}])
    <2> DEFINE j == [job[w] EXCEPT !.todoR = @ \ {e}]
    <2>a. j \in JobRec
      BY <1>5, Facts, JobFields, JobParts DEF Pcs, StartPcs, SyncPcs
    <2>b. /\ j.op = job[w].op /\ j.pc = job[w].pc /\ j.ret = job[w].ret
          /\ j.svc = job[w].svc /\ j.row = job[w].row /\ j.inDb = job[w].inDb
          /\ j.notInDb = job[w].notInDb /\ j.todoS = job[w].todoS
          /\ j.todoR = job[w].todoR \ {e}
      BY Facts DEF JobRec
    <2>c. job[w].pc = "rows" /\ Put(w, j) /\ UNCHANGED <<svc, row, lost, faults>>
      BY <1>5 DEF SyncRow, At
    <2> HIDE DEF j
    <2>d. JobOK(j)
      BY <1>5, <2>b, <2>c, Facts, HostsAssumption DEF JobOK, Remembers, Holds,
         Doomed, Starting, StartPcs, Recorded, Present
    <2>e. job[w].op # "start"
      BY <2>b, <2>c, Facts DEF JobOK, Starting, StartPcs
    <2> QED
      BY <2>a, <2>c, <2>d, <2>e, QuietLemma, HostsAssumption
  <1>6. CASE Put(w, [CallSyncToDb(w, row[e.row].svc, TRUE, "rows") EXCEPT !.todoR = @ \ {e}])
    <2>1. CallSyncToDb(w, row[e.row].svc, TRUE, "rows") \in JobRec
      BY <1>3, Facts, JobFields DEF CallSyncToDb, Pcs
    <2> DEFINE j == [CallSyncToDb(w, row[e.row].svc, TRUE, "rows") EXCEPT !.todoR = @ \ {e}]
    <2>a. j \in JobRec
      BY <2>1, JobFields, JobParts
    <2>b. /\ j.op = job[w].op /\ j.pc = "query" /\ j.ret = "rows"
          /\ j.svc = row[e.row].svc /\ j.row = job[w].row /\ j.inDb = job[w].inDb
          /\ j.notInDb = job[w].notInDb /\ j.todoS = job[w].todoS
          /\ j.todoR = job[w].todoR \ {e}
      BY Facts DEF JobRec, CallSyncToDb
    <2>c. job[w].pc = "rows" /\ Put(w, j) /\ UNCHANGED <<svc, row, lost, faults>>
      BY <1>3, <1>6 DEF SyncRow, At
    <2> HIDE DEF j
    <2>d. JobOK(j)
      BY <1>3, <1>6, <2>b, <2>c, Facts, HostsAssumption DEF JobOK, Remembers, Holds,
         Doomed, Starting, StartPcs, Recorded, Present
    <2>e. job[w].op # "start"
      BY <2>b, <2>c, Facts DEF JobOK, Starting, StartPcs
    <2> QED
      BY <2>a, <2>c, <2>d, <2>e, QuietLemma, HostsAssumption
  <1> QED
    BY <1>2, <1>4, <1>5, <1>6

LEMMA SyncNotInDbInv ==
  ASSUME IInv, NEW w \in Workers, SyncNotInDb(w)
  PROVE  IInv'
  <1> DEFINE j == [job[w] EXCEPT !.todoS = job[w].notInDb, !.notInDb = {}, !.pc = "services"]
  <1>a. j \in JobRec
    BY Facts, JobFields, JobParts DEF SyncPcs, Pcs, StartPcs
  <1>b. /\ j.op = job[w].op /\ j.pc = "services" /\ j.ret = job[w].ret
        /\ j.svc = job[w].svc /\ j.row = job[w].row /\ j.inDb = job[w].inDb
        /\ j.notInDb = {} /\ j.todoS = job[w].notInDb /\ j.todoR = job[w].todoR
    BY Facts DEF JobRec
  <1>c. job[w].pc = "rows" /\ Put(w, j) /\ UNCHANGED <<svc, row, lost, faults>>
    BY DEF SyncNotInDb, At
  <1> HIDE DEF j
  <1>d. JobOK(j)
    BY <1>b, <1>c, Facts, HostsAssumption DEF JobOK, Remembers, Holds, Doomed,
       Starting, StartPcs, Recorded, Present
  <1>e. job[w].op # "start"
    BY <1>b, <1>c, Facts DEF JobOK, Starting, StartPcs
  <1> QED
    BY <1>a, <1>c, <1>d, <1>e, QuietLemma, HostsAssumption

LEMMA BeginLsInv ==
  ASSUME IInv, NEW w \in Workers, BeginLs(w)
  PROVE  IInv'
  <1> DEFINE j == [IdleJob EXCEPT !.op = "ls", !.pc = "services", !.todoS = LiveServices]
  <1>a. j \in JobRec
    BY LiveServicesBorn, Facts, NoModelTyped, JobFields, JobParts, IdleTyped DEF Ops,
       SyncOps, SyncPcs, Pcs, StartPcs
  <1>b. /\ j.op = "ls" /\ j.pc = "services" /\ j.ret = "idle" /\ j.svc = NoSvc
        /\ j.row = NoRow /\ j.inDb = {} /\ j.notInDb = {} /\ j.todoS = LiveServices
        /\ j.todoR = {}
    BY Facts DEF JobRec, IdleJob
  <1>c. job[w].pc = "idle" /\ Put(w, j) /\ UNCHANGED <<svc, row, lost, faults>>
    BY LiveServicesBorn DEF BeginLs, At, Begin, Idle
  <1> HIDE DEF j
  <1>d. JobOK(j)
    BY LiveServicesBorn, <1>b, <1>c, Facts, HostsAssumption DEF JobOK, Remembers,
       Holds, Doomed, Starting, StartPcs, Recorded, Present
  <1>e. job[w].op # "start"
    BY <1>b, <1>c, Facts DEF JobOK, Starting, StartPcs
  <1> QED
    BY <1>a, <1>c, <1>d, <1>e, QuietLemma, HostsAssumption

LEMMA SyncServiceInv ==
  ASSUME IInv, NEW w \in Workers, SyncService(w)
  PROVE  IInv'
  <1>1. job[w].pc = "services" /\ job[w].op # "start"
    BY Facts DEF SyncService, At, JobOK, Starting, StartPcs
  <1>2. PICK s \in job[w].todoS :
          \/ Done(w)
          \/ Put(w, [job[w] EXCEPT !.todoS = @ \ {s}])
          \/ Put(w, [CallSyncToDb(w, s, job[w].check, "services") EXCEPT !.todoS = @ \ {s}])
    BY DEF SyncService
  <1>3. s \in Services /\ Born(s)
    BY Facts DEF JobOK, Remembers, JobRec
  <1>4. CASE Done(w)
    BY <1>1, <1>4, DoneInv DEF SyncService
  <1>5. CASE Put(w, [job[w] EXCEPT !.todoS = @ \ {s}])
    <2> DEFINE j == [job[w] EXCEPT !.todoS = @ \ {s}]
    <2>a. j \in JobRec
      BY <1>5, Facts, JobFields, JobParts DEF Pcs, StartPcs, SyncPcs
    <2>b. /\ j.op = job[w].op /\ j.pc = job[w].pc /\ j.ret = job[w].ret
          /\ j.svc = job[w].svc /\ j.row = job[w].row /\ j.inDb = job[w].inDb
          /\ j.notInDb = job[w].notInDb /\ j.todoS = job[w].todoS \ {s}
          /\ j.todoR = job[w].todoR
      BY Facts DEF JobRec
    <2>c. job[w].pc = "services" /\ Put(w, j) /\ UNCHANGED <<svc, row, lost, faults>>
      BY <1>5 DEF SyncService, At
    <2> HIDE DEF j
    <2>d. JobOK(j)
      BY <1>5, <2>b, <2>c, Facts, HostsAssumption DEF JobOK, Remembers, Holds,
         Doomed, Starting, StartPcs, Recorded, Present
    <2>e. job[w].op # "start"
      BY <2>b, <2>c, Facts DEF JobOK, Starting, StartPcs
    <2> QED
      BY <2>a, <2>c, <2>d, <2>e, QuietLemma, HostsAssumption
  <1>6. CASE Put(w, [CallSyncToDb(w, s, job[w].check, "services") EXCEPT !.todoS = @ \ {s}])
    <2>1. job[w].check \in BOOLEAN
      BY Facts DEF JobRec
    <2>2. PICK ck \in BOOLEAN : Put(w, [CallSyncToDb(w, s, ck, "services") EXCEPT !.todoS = @ \ {s}])
      BY <1>6, <2>1
    <2>3. CallSyncToDb(w, s, ck, "services") \in JobRec
      BY <1>3, <2>2, Facts, JobFields DEF CallSyncToDb, Pcs
    <2> DEFINE j == [CallSyncToDb(w, s, ck, "services") EXCEPT !.todoS = @ \ {s}]
    <2>a. j \in JobRec
      BY <1>3, <2>2, Facts, <2>3, JobFields, JobParts DEF Pcs, StartPcs, SyncPcs
    <2>b. /\ j.op = job[w].op /\ j.pc = "query" /\ j.ret = "services" /\ j.svc = s
          /\ j.row = job[w].row /\ j.inDb = job[w].inDb /\ j.notInDb = job[w].notInDb
          /\ j.todoS = job[w].todoS \ {s} /\ j.todoR = job[w].todoR
      BY Facts DEF JobRec, CallSyncToDb
    <2>c. job[w].pc = "services" /\ Put(w, j) /\ UNCHANGED <<svc, row, lost, faults>>
      BY <1>3, <2>2 DEF SyncService, At
    <2> HIDE DEF j
    <2>d. JobOK(j)
      BY <1>3, <2>2, <2>b, <2>c, Facts, HostsAssumption DEF JobOK, Remembers, Holds,
         Doomed, Starting, StartPcs, Recorded, Present
    <2>e. job[w].op # "start"
      BY <2>b, <2>c, Facts DEF JobOK, Starting, StartPcs
    <2> QED
      BY <2>a, <2>c, <2>d, <2>e, QuietLemma, HostsAssumption
  <1> QED
    BY <1>2, <1>4, <1>5, <1>6

LEMMA SyncEndInv ==
  ASSUME IInv, NEW w \in Workers, SyncEnd(w)
  PROVE  IInv'
  <1>1. job[w].pc = "services" /\ job[w].op # "start"
    BY Facts DEF SyncEnd, At, JobOK, Starting, StartPcs
  <1> DEFINE M == Load({r \in PresentRows : IsMia(r)})
             A == Load(PresentRows)
  <1>2. /\ M \subseteq LoadedRec
        /\ \A e \in M : e.row \in Rows /\ Recorded(e.row) /\ IsMia(e.row)
    BY LoadTyped, Facts DEF PresentRows
  <1>3. A \subseteq LoadedRec /\ \A e \in A : Recorded(e.row)
    BY LoadTyped, Facts
  <1>4. \A e \in M : Excused(row[e.row].svc)
    BY <1>2, Facts DEF RowInv, Excused
  <1>5. \/ Done(w)
        \/ Goto(w, "settle")
        \/ Put(w, [job[w] EXCEPT !.pc = "reapdel", !.todoR = M])
        \/ Put(w, [job[w] EXCEPT !.pc = "victims", !.expired = FALSE, !.todoR = A])
    BY DEF SyncEnd
  <1> HIDE DEF M, A
  <1>7. CASE Done(w)
    BY <1>1, <1>7, DoneInv DEF SyncEnd
  <1>8. CASE Goto(w, "settle")
    <2> DEFINE j == [job[w] EXCEPT !.pc = "settle"]
    <2>a. j \in JobRec
      BY <1>8, Facts, JobFields, JobParts DEF SyncPcs, Pcs, StartPcs
    <2>b. /\ j.op = job[w].op /\ j.pc = "settle" /\ j.ret = job[w].ret
          /\ j.svc = job[w].svc /\ j.row = job[w].row /\ j.inDb = job[w].inDb
          /\ j.notInDb = job[w].notInDb /\ j.todoS = job[w].todoS
          /\ j.todoR = job[w].todoR
      BY Facts DEF JobRec
    <2>c. job[w].pc = "services" /\ Put(w, j) /\ UNCHANGED <<svc, row, lost, faults>>
      BY <1>8 DEF SyncEnd, At, Goto
    <2> HIDE DEF j
    <2>d. JobOK(j)
      BY <1>8, <2>b, <2>c, Facts, HostsAssumption DEF JobOK, Remembers, Holds,
         Doomed, Starting, StartPcs, Recorded, Present
    <2>e. job[w].op # "start"
      BY <2>b, <2>c, Facts DEF JobOK, Starting, StartPcs
    <2> QED
      BY <2>a, <2>c, <2>d, <2>e, QuietLemma, HostsAssumption
  <1>9. CASE Put(w, [job[w] EXCEPT !.pc = "reapdel", !.todoR = M])
    <2> DEFINE j == [job[w] EXCEPT !.pc = "reapdel", !.todoR = M]
    <2>a. j \in JobRec
      BY <1>2, <1>4, <1>9, Facts, JobFields, JobParts DEF SyncPcs, Pcs, StartPcs
    <2>b. /\ j.op = job[w].op /\ j.pc = "reapdel" /\ j.ret = job[w].ret
          /\ j.svc = job[w].svc /\ j.row = job[w].row /\ j.inDb = job[w].inDb
          /\ j.notInDb = job[w].notInDb /\ j.todoS = job[w].todoS /\ j.todoR = M
      BY Facts DEF JobRec
    <2>c. job[w].pc = "services" /\ Put(w, j) /\ UNCHANGED <<svc, row, lost, faults>>
      BY <1>2, <1>4, <1>9 DEF SyncEnd, At
    <2> HIDE DEF j
    <2>d. JobOK(j)
      BY <1>2, <1>4, <1>9, <2>b, <2>c, Facts, HostsAssumption DEF JobOK, Remembers,
         Holds, Doomed, Starting, StartPcs, Recorded, Present
    <2>e. job[w].op # "start"
      BY <2>b, <2>c, Facts DEF JobOK, Starting, StartPcs
    <2> QED
      BY <2>a, <2>c, <2>d, <2>e, QuietLemma, HostsAssumption
  <1>10. CASE Put(w, [job[w] EXCEPT !.pc = "victims", !.expired = FALSE, !.todoR = A])
    <2> DEFINE j == [job[w] EXCEPT !.pc = "victims", !.expired = FALSE, !.todoR = A]
    <2>a. j \in JobRec
      BY <1>3, <1>10, Facts, JobFields, JobParts DEF SyncPcs, Pcs, StartPcs
    <2>b. /\ j.op = job[w].op /\ j.pc = "victims" /\ j.ret = job[w].ret
          /\ j.svc = job[w].svc /\ j.row = job[w].row /\ j.inDb = job[w].inDb
          /\ j.notInDb = job[w].notInDb /\ j.todoS = job[w].todoS /\ j.todoR = A
      BY Facts DEF JobRec
    <2>c. job[w].pc = "services" /\ Put(w, j) /\ UNCHANGED <<svc, row, lost, faults>>
      BY <1>3, <1>10 DEF SyncEnd, At
    <2> HIDE DEF j
    <2>d. JobOK(j)
      BY <1>3, <1>10, <2>b, <2>c, Facts, HostsAssumption DEF JobOK, Remembers, Holds,
         Doomed, Starting, StartPcs, Recorded, Present
    <2>e. job[w].op # "start"
      BY <2>b, <2>c, Facts DEF JobOK, Starting, StartPcs
    <2> QED
      BY <2>a, <2>c, <2>d, <2>e, QuietLemma, HostsAssumption
  <1> QED
    BY <1>5, <1>7, <1>8, <1>9, <1>10

LEMMA SettleInv ==
  ASSUME IInv, NEW w \in Workers, Settle(w)
  PROVE  IInv'
  <1>1. job[w].pc = "settle" /\ job[w].op # "start"
    BY Facts DEF Settle, At, JobOK, Starting, StartPcs
  <1>2. CASE Done(w)
    BY <1>1, <1>2, DoneInv DEF Settle
  <1>3. CASE Put(w, [IdleJob EXCEPT !.op = "converge", !.pc = "read1", !.check = TRUE])
    <2> DEFINE j == [IdleJob EXCEPT !.op = "converge", !.pc = "read1", !.check = TRUE]
    <2>a. j \in JobRec
      BY <1>3, Facts, NoModelTyped, JobFields, JobParts, IdleTyped DEF Ops, SyncOps,
         SyncPcs, Pcs, StartPcs
    <2>b. /\ j.op = "converge" /\ j.pc = "read1" /\ j.ret = "idle" /\ j.svc = NoSvc
          /\ j.row = NoRow /\ j.inDb = {} /\ j.notInDb = {} /\ j.todoS = {}
          /\ j.todoR = {}
      BY Facts DEF JobRec, IdleJob
    <2>c. job[w].pc = "settle" /\ Put(w, j) /\ UNCHANGED <<svc, row, lost, faults>>
      BY <1>3 DEF Settle, At
    <2> HIDE DEF j
    <2>d. JobOK(j)
      BY <1>3, <2>b, <2>c, Facts, HostsAssumption DEF JobOK, Remembers, Holds,
         Doomed, Starting, StartPcs, Recorded, Present
    <2>e. job[w].op # "start"
      BY <2>b, <2>c, Facts DEF JobOK, Starting, StartPcs
    <2> QED
      BY <2>a, <2>c, <2>d, <2>e, QuietLemma, HostsAssumption
  <1> QED
    BY <1>2, <1>3 DEF Settle

LEMMA RemoveAllInv ==
  ASSUME IInv, NEW w \in Workers, RemoveAll(w)
  PROVE  IInv'
  <1> DEFINE A == Load(PresentRows)
  <1>1. A \subseteq LoadedRec /\ \A e \in A : Recorded(e.row)
    BY LoadTyped, Facts
  <1>2. Begin(w, [IdleJob EXCEPT !.op = "removeall", !.pc = "victims", !.todoR = A])
    BY DEF RemoveAll
  <1> HIDE DEF A
  <1> DEFINE j == [IdleJob EXCEPT !.op = "removeall", !.pc = "victims", !.todoR = A]
  <1>a. j \in JobRec
    BY <1>1, <1>2, Facts, NoModelTyped, JobFields, JobParts, IdleTyped DEF Ops,
       SyncOps, Pcs, StartPcs, SyncPcs
  <1>b. /\ j.op = "removeall" /\ j.pc = "victims" /\ j.ret = "idle" /\ j.svc = NoSvc
        /\ j.row = NoRow /\ j.inDb = {} /\ j.notInDb = {} /\ j.todoS = {} /\ j.todoR = A
    BY Facts DEF JobRec, IdleJob
  <1>c. job[w].pc = "idle" /\ Put(w, j) /\ UNCHANGED <<svc, row, lost, faults>>
    BY <1>1, <1>2 DEF RemoveAll, At, Begin, Idle
  <1> HIDE DEF j
  <1>d. JobOK(j)
    BY <1>1, <1>2, <1>b, <1>c, Facts, HostsAssumption DEF JobOK, Remembers, Holds,
       Doomed, Starting, StartPcs, Recorded, Present
  <1>e. job[w].op # "start"
    BY <1>b, <1>c, Facts DEF JobOK, Starting, StartPcs
  <1> QED
    BY <1>a, <1>c, <1>d, <1>e, QuietLemma, HostsAssumption

LEMMA VictimInv ==
  ASSUME IInv, NEW w \in Workers, Victim(w)
  PROVE  IInv'
  <1>1. job[w].pc = "victims" /\ job[w].op # "start"
    BY Facts DEF Victim, At, JobOK, Starting, StartPcs
  <1>2. CASE Done(w)
    BY <1>1, <1>2, DoneInv DEF Victim
  <1>3. CASE \E e \in job[w].todoR :
          Put(w, [job[w] EXCEPT !.todoR = @ \ {e}, !.pc = "remove",
                     !.row = e.row, !.svc = row[e.row].svc, !.ret = "victims"])
    <2>1. PICK e \in job[w].todoR :
            Put(w, [job[w] EXCEPT !.todoR = @ \ {e}, !.pc = "remove",
                     !.row = e.row, !.svc = row[e.row].svc, !.ret = "victims"])
      BY <1>3
    <2>2. /\ e.row \in Rows /\ Recorded(e.row)
          /\ row[e.row].svc \in Services /\ Born(row[e.row].svc)
      BY Facts DEF JobOK, Remembers, JobRec, LoadedRec, RowInv, Born
    <2> DEFINE j == [job[w] EXCEPT !.todoR = @ \ {e}, !.pc = "remove",
                     !.row = e.row, !.svc = row[e.row].svc, !.ret = "victims"]
    <2>a. j \in JobRec
      BY <2>1, <2>2, Facts, JobFields, JobParts DEF Pcs, StartPcs, SyncPcs
    <2>b. /\ j.op = job[w].op /\ j.pc = "remove" /\ j.ret = "victims"
          /\ j.svc = row[e.row].svc /\ j.row = e.row /\ j.inDb = job[w].inDb
          /\ j.notInDb = job[w].notInDb /\ j.todoS = job[w].todoS
          /\ j.todoR = job[w].todoR \ {e}
      BY Facts DEF JobRec
    <2>c. job[w].pc = "victims" /\ Put(w, j) /\ UNCHANGED <<svc, row, lost, faults>>
      BY <2>1, <2>2 DEF Victim, At
    <2> HIDE DEF j
    <2>d. JobOK(j)
      BY <2>1, <2>2, <2>b, <2>c, Facts, HostsAssumption DEF JobOK, Remembers, Holds,
         Doomed, Starting, StartPcs, Recorded, Present
    <2>e. job[w].op # "start"
      BY <2>b, <2>c, Facts DEF JobOK, Starting, StartPcs
    <2> QED
      BY <2>a, <2>c, <2>d, <2>e, QuietLemma, HostsAssumption
  <1>4. CASE \E e \in job[w].todoR : Put(w, [job[w] EXCEPT !.todoR = @ \ {e}])
    <2>1. PICK e \in job[w].todoR : Put(w, [job[w] EXCEPT !.todoR = @ \ {e}])
      BY <1>4
    <2> DEFINE j == [job[w] EXCEPT !.todoR = @ \ {e}]
    <2>a. j \in JobRec
      BY <2>1, Facts, JobFields, JobParts DEF Pcs, StartPcs, SyncPcs
    <2>b. /\ j.op = job[w].op /\ j.pc = job[w].pc /\ j.ret = job[w].ret
          /\ j.svc = job[w].svc /\ j.row = job[w].row /\ j.inDb = job[w].inDb
          /\ j.notInDb = job[w].notInDb /\ j.todoS = job[w].todoS
          /\ j.todoR = job[w].todoR \ {e}
      BY Facts DEF JobRec
    <2>c. job[w].pc = "victims" /\ Put(w, j) /\ UNCHANGED <<svc, row, lost, faults>>
      BY <2>1 DEF Victim, At
    <2> HIDE DEF j
    <2>d. JobOK(j)
      BY <2>1, <2>b, <2>c, Facts, HostsAssumption DEF JobOK, Remembers, Holds,
         Doomed, Starting, StartPcs, Recorded, Present
    <2>e. job[w].op # "start"
      BY <2>b, <2>c, Facts DEF JobOK, Starting, StartPcs
    <2> QED
      BY <2>a, <2>c, <2>d, <2>e, QuietLemma, HostsAssumption
  <1> QED
    BY <1>2, <1>3, <1>4 DEF Victim

LEMMA HostStopInv ==
  ASSUME IInv, NEW w \in Workers, HostStop(w)
  PROVE  IInv'
  <1>1. PICK u \in Users :
          Begin(w, [IdleJob EXCEPT !.op = "hoststop", !.pc = "byname", !.user = u])
    BY DEF HostStop
  <1> DEFINE j == [IdleJob EXCEPT !.op = "hoststop", !.pc = "byname", !.user = u]
  <1>a. j \in JobRec
    BY Facts, NoModelTyped, JobFields, JobParts, IdleTyped DEF Ops, SyncOps, Pcs, StartPcs,
       SyncPcs
  <1>b. /\ j.op = "hoststop" /\ j.pc = "byname" /\ j.ret = "idle" /\ j.svc = NoSvc
        /\ j.row = NoRow /\ j.inDb = {} /\ j.notInDb = {} /\ j.todoS = {} /\ j.todoR = {}
    BY DEF IdleJob
  <1>c. job[w].pc = "idle" /\ Put(w, j) /\ UNCHANGED <<svc, row, lost, faults>>
    BY <1>1 DEF HostStop, Begin, Idle
  <1> HIDE DEF j
  <1>d. JobOK(j)
    BY <1>b, HostsAssumption DEF JobOK, Remembers, Holds, Doomed, Starting, StartPcs
  <1>e. job[w].op # "start"
    BY <1>c, Facts DEF JobOK, Starting, StartPcs
  <1> QED
    BY <1>a, <1>c, <1>d, <1>e, QuietLemma

LEMMA HostStopGetInv ==
  ASSUME IInv, NEW w \in Workers, HostStopGet(w)
  PROVE  IInv'
  <1>1. job[w].pc = "byname" /\ job[w].op # "start" /\ UNCHANGED <<svc, row, lost, faults>>
    BY Facts DEF HostStopGet, At, JobOK, Starting, StartPcs
  <1>2. CASE Done(w)
    BY <1>1, <1>2, DoneInv
  <1>3. CASE \E s \in Named(job[w].user) : Put(w, [job[w] EXCEPT !.pc = "bare", !.svc = s])
    <2>1. PICK s \in Named(job[w].user) : Put(w, [job[w] EXCEPT !.pc = "bare", !.svc = s])
      BY <1>3
    <2>2. s \in Services /\ Born(s)
      BY <2>1, Facts, NamedType
    <2> DEFINE j == [job[w] EXCEPT !.pc = "bare", !.svc = s]
    <2>a. j \in JobRec
      BY <2>2, Facts, JobFields, JobParts, PcsHas
    <2>b. /\ j.op = job[w].op /\ j.pc = "bare" /\ j.ret = job[w].ret /\ j.svc = s
          /\ j.row = job[w].row /\ j.inDb = job[w].inDb /\ j.notInDb = job[w].notInDb
          /\ j.todoS = job[w].todoS /\ j.todoR = job[w].todoR
      BY Facts DEF JobRec
    <2> HIDE DEF j
    <2>c. JobOK(j)
      BY <1>1, <2>2, <2>b, Facts, HostsAssumption
         DEF JobOK, Remembers, Holds, Doomed, Starting, StartPcs
    <2> QED
      BY <1>1, <2>1, <2>a, <2>c, QuietLemma DEF j
  <1> QED
    BY <1>2, <1>3 DEF HostStopGet

LEMMA HostStopAllInv ==
  ASSUME IInv, NEW w \in Workers, HostStopAll(w)
  PROVE  IInv'
  <1> DEFINE j == [IdleJob EXCEPT !.op = "stopall", !.pc = "each", !.todoS = LiveServices]
  <1>a. j \in JobRec
    BY LiveServicesBorn, Facts, NoModelTyped, JobFields, JobParts, IdleTyped DEF Ops,
       SyncOps, SyncPcs, Pcs, StartPcs
  <1>b. /\ j.op = "stopall" /\ j.pc = "each" /\ j.ret = "idle" /\ j.svc = NoSvc
        /\ j.row = NoRow /\ j.inDb = {} /\ j.notInDb = {} /\ j.todoS = LiveServices
        /\ j.todoR = {}
    BY DEF IdleJob
  <1>c. job[w].pc = "idle" /\ Put(w, j) /\ UNCHANGED <<svc, row, lost, faults>>
    BY DEF HostStopAll, Begin, Idle
  <1> HIDE DEF j
  <1>d. JobOK(j)
    BY LiveServicesBorn, <1>b, HostsAssumption
       DEF JobOK, Remembers, Holds, Doomed, Starting, StartPcs
  <1>e. job[w].op # "start"
    BY <1>c, Facts DEF JobOK, Starting, StartPcs
  <1> QED
    BY <1>a, <1>c, <1>d, <1>e, QuietLemma

LEMMA HostStopEachInv ==
  ASSUME IInv, NEW w \in Workers, HostStopEach(w)
  PROVE  IInv'
  <1>1. job[w].pc = "each" /\ job[w].op # "start" /\ UNCHANGED <<svc, row, lost, faults>>
    BY Facts DEF HostStopEach, At, JobOK, Starting, StartPcs
  <1>2. CASE job[w].todoS = {}
    BY <1>1, <1>2, DoneInv DEF HostStopEach
  <1>3. CASE job[w].todoS # {}
    <2>0. PICK s \in job[w].todoS : \E r \in FirstOf(RowsOf(s)) :
            Put(w, [job[w] EXCEPT !.todoS = @ \ {s}, !.row = r, !.svc = s, !.ret = "each",
                                  !.pc = IF r = NoRow THEN "bare" ELSE "remove"])
      BY <1>3 DEF HostStopEach
    <2>1. PICK r \in FirstOf(RowsOf(s)) :
            Put(w, [job[w] EXCEPT !.todoS = @ \ {s}, !.row = r, !.svc = s, !.ret = "each",
                                  !.pc = IF r = NoRow THEN "bare" ELSE "remove"])
      BY <2>0
    <2>2. /\ s \in Services /\ Born(s) /\ r \in Rows \cup {NoRow}
          /\ r # NoRow => Present(r) /\ row[r].svc = s
      BY <2>1, Facts, FirstOfType DEF JobOK, Remembers, JobRec
    <2>3. PICK pc \in {"bare", "remove"} : pc = IF r = NoRow THEN "bare" ELSE "remove"
      OBVIOUS
    <2>4. pc \in Pcs /\ "each" \in {"idle", "rows", "services", "recheck", "victims", "each"}
      BY PcsHas
    <2>5. job[w] \in JobRec /\ job[w].todoS \ {s} \in SUBSET Services
      BY Facts, JobParts
    <2> DEFINE j == [job[w] EXCEPT !.todoS = @ \ {s}, !.row = r, !.svc = s, !.ret = "each",
                                   !.pc = pc]
    <2>a. j \in JobRec
      BY <2>2, <2>4, <2>5, JobFields
    <2>b. /\ j.op = job[w].op /\ j.pc = pc /\ j.ret = "each" /\ j.svc = s /\ j.row = r
          /\ j.inDb = job[w].inDb /\ j.notInDb = job[w].notInDb
          /\ j.todoS = job[w].todoS \ {s} /\ j.todoR = job[w].todoR
      BY Facts DEF JobRec
    <2>c. Put(w, j)
      BY <2>1, <2>3
    <2> HIDE DEF j
    <2>d. JobOK(j)
      BY <1>1, <2>2, <2>3, <2>b, Facts, HostsAssumption
         DEF JobOK, Remembers, Holds, Doomed, Starting, StartPcs, Recorded, Present
    <2> QED
      BY <1>1, <2>a, <2>c, <2>d, QuietLemma
  <1> QED
    BY <1>2, <1>3

-----------------------------------------------------------------------------
(* The steps that change the shared state. *)

\* Steps that leave Swarm alone and put their worker where it could be already.
LEMMA RowsLemma ==
  ASSUME IInv, NEW w \in Workers, NEW j \in JobRec, Put(w, j), JobOK(j), svc' = svc,
         SharedTyped', Grows, RowInv', HandsOver(job[w], j)
  PROVE  IInv'
  <1>1. JobOK(j)'
    BY JobKept, Facts
  <1>2. OnlyBirth(j)
    BY DEF OnlyBirth, Live
  <1> QED
    BY <1>1, <1>2, StepLemma

\* Writing one row: what the new row must satisfy.
WritesRow(r, x) ==
  /\ row' = [row EXCEPT ![r] = x]
  /\ svc' = svc
  /\ lost \subseteq lost' /\ lost' \subseteq Services
  /\ faults' \in 0 .. MaxFaults
  /\ x.st # "fresh"
  /\ Born(x.svc)
  /\ Recorded(r) => x.svc = row[r].svc
  /\ x.state = "mia" \/ x.app = "mia" => Missing(x.svc)
  /\ x.st = "deleted" => Excused(x.svc) \/ x.svc \in lost'

LEMMA RowWritten ==
  ASSUME IInv, NEW r \in Rows, NEW x \in RowRec, WritesRow(r, x)
  PROVE  SharedTyped' /\ Grows /\ RowInv'
  <1>1. SharedTyped'
    BY DEF IInv, TypeOK, SharedTyped, WritesRow
  <1>2. Grows
    BY DEF IInv, TypeOK, Grows, WritesRow, Recorded, Born, Live
  <1>3. ASSUME NEW q \in Rows, Recorded(q)'
        PROVE  /\ Born(row[q].svc)'
               /\ IsMia(q)' => Missing(row[q].svc)'
               /\ row'[q].st = "deleted" => Excused(row[q].svc)'
    <2>1. CASE q = r
      BY <2>1 DEF IInv, TypeOK, WritesRow, Born, IsMia, Missing, Excused, Live
    <2>2. CASE q # r
      <3>1. row'[q] = row[q] /\ Recorded(q)
        BY <1>3, <2>2 DEF IInv, TypeOK, WritesRow, Recorded
      <3>2. Born(row[q].svc) /\ (IsMia(q) => Missing(row[q].svc))
            /\ (row[q].st = "deleted" => Excused(row[q].svc))
        BY <3>1 DEF IInv, RowInv
      <3> QED
        BY <3>1, <3>2 DEF WritesRow, Born, IsMia, Missing, Excused, Live
    <2> QED
      BY <2>1, <2>2
  <1> QED
    BY <1>1, <1>2, <1>3 DEF RowInv

LEMMA RowStep ==
  ASSUME IInv, NEW w \in Workers, NEW j \in JobRec, Put(w, j), JobOK(j),
         NEW r \in Rows, NEW x \in RowRec, WritesRow(r, x),
         \A s \in Services : job[w].op = "start" /\ job[w].svc = s =>
           (x.st = "present" /\ x.svc = s) \/ Tracked(s)
  PROVE  IInv'
  <1>1. SharedTyped' /\ Grows /\ RowInv'
    BY RowWritten
  <1>2. svc' = svc /\ row' = [row EXCEPT ![r] = x]
    BY DEF WritesRow
  <1>3. ASSUME NEW s \in Services, job[w].op = "start" /\ job[w].svc = s
        PROVE  Tracked(s)'
    <2>1. CASE x.st = "present" /\ x.svc = s
      BY <1>2, <2>1 DEF IInv, TypeOK, Tracked, RowsOf, PresentRows, Present
    <2>2. CASE Tracked(s) /\ job[w].svc # NoSvc
      <3>1. Born(s)
        BY <1>3, <2>2, Facts DEF JobOK, Remembers
      <3> QED
        BY <1>1, <2>2, <3>1, TrackedKept DEF IInv, TypeOK, SharedTyped
    <2> QED
      BY <1>3, <2>1, <2>2, HostsAssumption
  <1>4. HandsOver(job[w], j)
    BY <1>3 DEF HandsOver
  <1> QED
    BY <1>1, <1>2, <1>4, RowsLemma

\* The two ways a model reaches the table.
LEMMA ApplyWrites ==
  ASSUME TypeOK, RowInv, NEW r \in Rows, Present(r), NEW m \in ModelRec,
         m.state = "mia" \/ m.app = "mia" => Missing(row[r].svc),
         row' = [row EXCEPT ![r] = Apply(r, m)], UNCHANGED <<svc, lost, faults>>
  PROVE  /\ Apply(r, m) \in RowRec /\ WritesRow(r, Apply(r, m))
         /\ Apply(r, m).st = "present" /\ Apply(r, m).svc = row[r].svc
  <1> DEFINE app == IF m.app = "keep" THEN row[r].app ELSE m.app
             x == [row[r] EXCEPT !.state = m.state, !.app = app]
  <1>1. app \in {"unknown", "ready", "mia"} /\ row[r] \in RowRec
    BY DEF TypeOK, RowRec, ModelRec
  <1>2. Apply(r, m) = x
    BY DEF Apply
  <1>3. app = "mia" => m.app = "mia" \/ row[r].app = "mia"
    OBVIOUS
  <1> HIDE DEF app
  <1>4. /\ x \in RowRec /\ x.st = row[r].st /\ x.svc = row[r].svc
        /\ x.state = m.state /\ x.app = app
    BY <1>1 DEF RowRec, ModelRec
  <1>5. row[r].st = "present" /\ Born(row[r].svc) /\ (IsMia(r) => Missing(row[r].svc))
    BY DEF Present, RowInv, Recorded
  <1> HIDE DEF x
  <1>6. WritesRow(r, x)
    BY <1>2, <1>3, <1>4, <1>5 DEF WritesRow, IsMia, TypeOK
  <1> QED
    BY <1>2, <1>4, <1>5, <1>6

LEMMA InsertWrites ==
  ASSUME TypeOK, RowInv, NEW s \in Services, Born(s), NEW m \in ModelRec,
         m.state = "mia" \/ m.app = "mia" => Missing(s),
         Insert(s, m), UNCHANGED <<svc, lost, faults>>
  PROVE  \E r \in Rows : /\ row[r].st = "fresh"
                         /\ NewRow(s, m) \in RowRec /\ WritesRow(r, NewRow(s, m))
                         /\ NewRow(s, m).st = "present" /\ NewRow(s, m).svc = s
  <1>1. PICK r \in Rows : row[r].st = "fresh" /\ row' = [row EXCEPT ![r] = NewRow(s, m)]
    <2>1. NextRow \in FreshRows
      BY DEF Insert, NextRow
    <2> QED
      BY <2>1 DEF Insert, FreshRows
  <1>2. /\ NewRow(s, m) \in RowRec /\ NewRow(s, m).st = "present" /\ NewRow(s, m).svc = s
        /\ NewRow(s, m).state = m.state
        /\ NewRow(s, m).app = "mia" => m.app = "mia"
    BY DEF NewRow, RowRec, ModelRec, TypeOK, SvcRec
  <1>3. WritesRow(r, NewRow(s, m))
    BY <1>1, <1>2 DEF WritesRow, Recorded, TypeOK
  <1> QED
    BY <1>1, <1>2, <1>3

LEMMA DbWriteInv ==
  ASSUME IInv, NEW w \in Workers, DbWrite(w)
  PROVE  IInv'
  <1>1. /\ job[w].pc = "write" /\ job[w].svc \in Services /\ Born(job[w].svc)
        /\ job[w].row \in Rows \cup {NoRow} /\ job[w].m \in ModelRec
        /\ job[w].row # NoRow => row[job[w].row].svc = job[w].svc
        /\ job[w].m.state = "mia" \/ job[w].m.app = "mia" => Missing(job[w].svc)
    BY Facts DEF DbWrite, At, JobOK, Holds, Remembers, Doomed, JobRec
  <1>2. Back(w, TRUE) => \E j \in JobRec : Put(w, j) /\ JobOK(j)
    BY <1>1, Facts, BackLemma, HostsAssumption
  <1>3. CASE /\ job[w].row # NoRow /\ Present(job[w].row)
             /\ row' = [row EXCEPT ![job[w].row] = Apply(job[w].row, job[w].m)]
             /\ Back(w, TRUE)
    <2>1. PICK j \in JobRec : Put(w, j) /\ JobOK(j)
      BY <1>2, <1>3
    <2>2. PICK x \in RowRec : /\ WritesRow(job[w].row, x)
                             /\ x.st = "present" /\ x.svc = job[w].svc
      <3>1. UNCHANGED <<svc, lost, faults>>
        BY DEF DbWrite
      <3>2. PICK r \in Rows : r = job[w].row
        BY <1>1, <1>3
      <3>3. PICK m \in ModelRec : m = job[w].m
        BY <1>1
      <3>4. /\ Present(r) /\ row[r].svc = job[w].svc /\ row' = [row EXCEPT ![r] = Apply(r, m)]
            /\ m.state = "mia" \/ m.app = "mia" => Missing(row[r].svc)
        BY <1>1, <1>3, <3>2, <3>3
      <3>5. PICK x \in RowRec : /\ WritesRow(r, x)
                              /\ x.st = "present" /\ x.svc = row[r].svc
        BY <3>1, <3>4, Facts, ApplyWrites
      <3> QED
        BY <3>2, <3>4, <3>5
    <2> QED
      BY <1>1, <1>3, <2>1, <2>2, RowStep
  <1>4. CASE /\ job[w].row # NoRow /\ ~Present(job[w].row)
             /\ row' = row /\ Done(w)
    <2>1. row[job[w].row].st = "deleted"
      BY <1>1, <1>4, Facts DEF JobOK, Remembers, Recorded, Present, TypeOK, RowRec
    <2>2. Tracked(job[w].svc)
      BY <1>1, <1>4, <2>1, Facts DEF RowInv, Recorded, Tracked
    <2> QED
      BY <1>4, <2>2, DoneInv DEF DbWrite
  <1>5. CASE Insert(job[w].svc, job[w].m) /\ Back(w, TRUE)
    <2>1. PICK j \in JobRec : Put(w, j) /\ JobOK(j)
      BY <1>2, <1>5
    <2> QED
      BY <1>1, <1>5, <2>1, Facts, InsertWrites, RowStep DEF DbWrite
  <1>6. CASE RowsOf(job[w].svc) # {} /\ row' = row /\ Back(w, TRUE)
    BY <1>1, <1>6, BackInv, HostsAssumption DEF DbWrite, Tracked
  <1> QED
    BY <1>3, <1>4, <1>5, <1>6 DEF DbWrite

LEMMA StartCommitInv ==
  ASSUME IInv, NEW w \in Workers, StartCommit(w)
  PROVE  IInv'
  <1>1. /\ job[w].pc = "scommit" /\ job[w].svc \in Services /\ Born(job[w].svc)
        /\ job[w].row \in Rows \cup {NoRow} /\ job[w].m \in ModelRec
        /\ job[w].row # NoRow => row[job[w].row].svc = job[w].svc
        /\ job[w].m.state = "mia" \/ job[w].m.app = "mia" => Missing(job[w].svc)
    BY Facts DEF StartCommit, At, JobOK, Holds, Remembers, Doomed, JobRec
  <1>2. Put(w, IdleJob)
    BY DEF StartCommit, Done
  <1>3. CASE /\ job[w].row # NoRow /\ Present(job[w].row)
             /\ row' = [row EXCEPT ![job[w].row] = Apply(job[w].row, job[w].m)]
    <2>1. PICK x \in RowRec : /\ WritesRow(job[w].row, x)
                             /\ x.st = "present" /\ x.svc = job[w].svc
      <3>1. UNCHANGED <<svc, lost, faults>>
        BY DEF StartCommit
      <3>2. PICK r \in Rows : r = job[w].row
        BY <1>1, <1>3
      <3>3. PICK m \in ModelRec : m = job[w].m
        BY <1>1
      <3>4. /\ Present(r) /\ row[r].svc = job[w].svc /\ row' = [row EXCEPT ![r] = Apply(r, m)]
            /\ m.state = "mia" \/ m.app = "mia" => Missing(row[r].svc)
        BY <1>1, <1>3, <3>2, <3>3
      <3>5. PICK x \in RowRec : /\ WritesRow(r, x)
                              /\ x.st = "present" /\ x.svc = row[r].svc
        BY <3>1, <3>4, Facts, ApplyWrites
      <3> QED
        BY <3>2, <3>4, <3>5
    <2> QED
      BY <1>1, <1>2, <1>3, <2>1, RowStep, IdleTyped, IdleOK
  <1>4. CASE job[w].row # NoRow /\ ~Present(job[w].row) /\ row' = row
    <2>1. row[job[w].row].st = "deleted"
      BY <1>1, <1>4, Facts DEF JobOK, Remembers, Recorded, Present, TypeOK, RowRec
    <2>2. Tracked(job[w].svc)
      BY <1>1, <1>4, <2>1, Facts DEF RowInv, Recorded, Tracked
    <2> QED
      BY <1>4, <2>2, DoneInv DEF StartCommit
  <1>5. CASE Insert(job[w].svc, job[w].m)
    BY <1>1, <1>2, <1>5, Facts, InsertWrites, RowStep, IdleTyped, IdleOK DEF StartCommit
  <1>6. CASE RowsOf(job[w].svc) # {} /\ row' = row
    BY <1>6, DoneInv DEF StartCommit, Tracked
  <1> QED
    BY <1>3, <1>4, <1>5, <1>6 DEF StartCommit

LEMMA StartCreateInv ==
  ASSUME IInv, NEW w \in Workers, StartCreate(w)
  PROVE  IInv'
  <1>1. job[w].pc = "create" /\ job[w].op = "start" /\ job[w].svc = NoSvc /\ job[w].ret = "idle"
    BY Facts DEF StartCreate, At, JobOK, Starting, StartPcs
  <1>2. CASE Goto(w, "conflict") /\ svc' = svc
    <2> DEFINE j == [job[w] EXCEPT !.pc = "conflict"]
    <2>a. j \in JobRec
      BY <1>2, Facts, JobFields, JobParts DEF StartPcs, Pcs, SyncPcs
    <2>b. /\ j.op = job[w].op /\ j.pc = "conflict" /\ j.ret = job[w].ret
          /\ j.svc = job[w].svc /\ j.row = job[w].row /\ j.inDb = job[w].inDb
          /\ j.notInDb = job[w].notInDb /\ j.todoS = job[w].todoS
          /\ j.todoR = job[w].todoR
      BY Facts DEF JobRec
    <2>c. job[w].pc = "create" /\ Put(w, j) /\ UNCHANGED <<svc, row, lost, faults>>
      BY <1>2 DEF StartCreate, At, Goto
    <2> HIDE DEF j
    <2>d. JobOK(j)
      BY <1>2, <2>b, <2>c, Facts, HostsAssumption DEF JobOK, Remembers, Holds,
         Doomed, Starting, StartPcs, Recorded, Present
    <2> QED
      BY <2>a, <2>b, <2>c, <2>d, <1>1, QuietLemma, HostsAssumption
  <1>3. CASE Named(job[w].user) = {}
    <2>1. PICK s \in Services :
            /\ svc[s].st = "unborn"
            /\ svc' = [svc EXCEPT ![s].st = "live", ![s].owner = job[w].user]
            /\ Put(w, [job[w] EXCEPT !.pc = "smodel", !.svc = s])
      BY <1>3 DEF StartCreate
    <2> DEFINE new == [svc[s] EXCEPT !.st = "live", !.owner = job[w].user]
    <2>7. svc[s] \in SvcRec /\ job[w].user \in Users \cup {NoUser}
      BY Facts DEF TypeOK, JobRec
    <2>0. new \in SvcRec /\ new.st = "live"
      BY <2>7 DEF SvcRec
    <2>6. svc' = [svc EXCEPT ![s] = new] /\ row' = row /\ lost' = lost /\ faults' = faults
      BY <1>3, <2>1, <2>7, Facts DEF StartCreate, TypeOK, SvcRec
    <2> HIDE DEF new
    <2>2. SharedTyped'
      BY <2>0, <2>6, Facts DEF TypeOK, SharedTyped
    <2>3. Grows
      BY <2>0, <2>1, <2>6, Facts DEF TypeOK, Grows, Born, Live, Recorded
    <2>4. RowInv'
      <3>1. ASSUME NEW r \in Rows, Recorded(r)
            PROVE  row[r].svc # s /\ row[r].svc \in Services
        BY <2>1, <3>1, Facts DEF RowInv, Born
      <3>2. \A t \in Services : t # s => svc'[t] = svc[t]
        BY <2>1, Facts DEF TypeOK
      <3> QED
        BY <3>1, <3>2, Facts DEF StartCreate, RowInv, Recorded, Born, IsMia, Missing, Excused, Live
    <2>a. PICK j \in JobRec :
            /\ Put(w, j) /\ j.op = job[w].op /\ j.pc = "smodel" /\ j.ret = job[w].ret
            /\ j.svc = s /\ j.row = job[w].row /\ j.inDb = job[w].inDb
            /\ j.notInDb = job[w].notInDb /\ j.todoS = job[w].todoS
            /\ j.todoR = job[w].todoR
      <3> DEFINE k == [job[w] EXCEPT !.pc = "smodel", !.svc = s]
      <3>1. k \in JobRec
        BY <2>1, Facts, JobFields, JobParts DEF StartPcs, Pcs, SyncPcs
      <3>2. /\ k.op = job[w].op /\ k.pc = "smodel" /\ k.ret = job[w].ret
            /\ k.svc = s /\ k.row = job[w].row /\ k.inDb = job[w].inDb
            /\ k.notInDb = job[w].notInDb /\ k.todoS = job[w].todoS
            /\ k.todoR = job[w].todoR
        BY Facts DEF JobRec
      <3>3. Put(w, k)
        BY <2>1
      <3> HIDE DEF k
      <3> QED
        BY <3>1, <3>2, <3>3
    <2>5. svc'[s].st = "live"
      BY <2>0, <2>6, Facts DEF TypeOK
    <2>d. JobOK(j)'
      <3>1. Remembers(j)'
        <4>1. \A t \in j.inDb \cup j.notInDb \cup j.todoS : Born(t) /\ t \in Services
          BY <2>a, Facts DEF JobOK, Remembers, JobRec
        <4>2. \A t \in Services : Born(t) => Born(t)'
          BY <2>3 DEF Grows, Born
        <4> QED
          BY <2>5, <2>a, <2>6, <4>1, <4>2, Facts DEF JobOK, Remembers, Born, Recorded
      <3> QED
        BY <1>1, <2>a, <3>1, Facts, HostsAssumption
           DEF JobOK, Holds, Doomed, Starting, StartPcs
    <2>e. OnlyBirth(j)
      BY <1>1, <2>1, <2>a, Facts DEF OnlyBirth, Live, TypeOK
    <2>f. HandsOver(job[w], j)
      BY <1>1, HostsAssumption DEF HandsOver
    <2> QED
      BY <2>2, <2>3, <2>4, <2>a, <2>d, <2>e, <2>f, StepLemma
  <1> QED
    BY <1>2, <1>3 DEF StartCreate

LEMMA SyncFlagInv ==
  ASSUME IInv, NEW w \in Workers, SyncFlag(w)
  PROVE  IInv'
  <1>1. job[w].pc = "flag" /\ job[w].op # "start"
    BY Facts DEF SyncFlag, At, JobOK, Starting, StartPcs
  <1>2. job[w].row \in Rows /\ ~Live(row[job[w].row].svc)
    BY <1>1, Facts DEF JobOK, Holds, Doomed, JobRec
  <1>3. CASE Present(job[w].row)
    <2> DEFINE j == [job[w] EXCEPT !.pc = "mark", !.row = NoRow]
               r == job[w].row
               x == [row[r] EXCEPT !.state = "mia", !.app = "mia"]
    <2>a. j \in JobRec
      BY <1>3, Facts, JobFields, JobParts DEF SyncPcs, Pcs, StartPcs
    <2>b. /\ j.op = job[w].op /\ j.pc = "mark" /\ j.ret = job[w].ret
          /\ j.svc = job[w].svc /\ j.row = NoRow /\ j.inDb = job[w].inDb
          /\ j.notInDb = job[w].notInDb /\ j.todoS = job[w].todoS
          /\ j.todoR = job[w].todoR
      BY Facts DEF JobRec
    <2>c. Put(w, j) /\ row' = [row EXCEPT ![r] = x] /\ UNCHANGED <<svc, lost, faults>>
      BY <1>3, <1>2, Facts DEF SyncFlag, TypeOK, RowRec
    <2> HIDE DEF j
    <2>d. JobOK(j)
      BY <1>1, <2>b, <2>c, Facts, HostsAssumption
         DEF JobOK, Remembers, Holds, Doomed, Starting, StartPcs
    <2>0. r \in Rows /\ row[r] \in RowRec
      BY <1>2, Facts DEF TypeOK
    <2>1. /\ x \in RowRec /\ x.st = "present" /\ x.svc = row[r].svc
      BY <1>3, <2>0 DEF RowRec, Present
    <2>2. WritesRow(r, x)
      BY <1>2, <1>3, <2>1, <2>c, Facts
         DEF WritesRow, RowInv, Recorded, Present, Missing, Live, TypeOK
    <2> QED
      BY <1>1, <1>2, <2>1, <2>2, <2>a, <2>c, <2>d, RowStep
  <1>4. CASE ~Present(job[w].row)
    BY <1>1, <1>4, DoneInv DEF SyncFlag
  <1> QED
    BY <1>3, <1>4

\* As long as no row changes, what RowInv says of a service stays true.
LEMMA RowInvKept ==
  ASSUME RowInv, Grows, row' = row
  PROVE  RowInv'
  <1>1. ASSUME NEW r \in Rows, Recorded(r)'
        PROVE  /\ Born(row[r].svc)'
               /\ IsMia(r)' => Missing(row[r].svc)'
               /\ row'[r].st = "deleted" => Excused(row[r].svc)'
    <2>1. /\ row[r].svc \in Services /\ Born(row[r].svc)
          /\ IsMia(r)' => Missing(row[r].svc)
          /\ row'[r].st = "deleted" => Excused(row[r].svc)
      BY <1>1 DEF RowInv, Born, Recorded, IsMia
    <2>2. PICK s \in Services : s = row[r].svc
      BY <2>1
    <2>3. Born(s)' /\ (Missing(s) => Missing(s)') /\ (Excused(s) => Excused(s)')
      BY <2>1, <2>2, MissingKept
    <2> QED
      BY <2>1, <2>2, <2>3
  <1> QED
    BY <1>1 DEF RowInv

\* A service taken out of Swarm, whatever it was before.
Removes(s) ==
  /\ svc' = [svc EXCEPT ![s].st = "gone", ![s].task = "none", ![s].stale = FALSE]
  /\ row' = row /\ lost' = lost /\ faults' = faults

LEMMA ServiceRemoved ==
  ASSUME TypeOK, NEW s \in Services, Removes(s)
  PROVE  /\ SharedTyped' /\ Grows /\ Excused(s)'
         /\ \A t \in Services : Live(t)' => Live(t)
  <1> DEFINE x == [svc[s] EXCEPT !.st = "gone", !.task = "none", !.stale = FALSE]
  <1>1. svc[s] \in SvcRec
    BY DEF TypeOK
  <1>2. x \in SvcRec /\ x.st = "gone"
    BY <1>1 DEF SvcRec
  <1>3. svc' = [svc EXCEPT ![s] = x]
    BY <1>1 DEF Removes, TypeOK, SvcRec
  <1> HIDE DEF x
  <1> QED
    BY <1>2, <1>3
       DEF Removes, TypeOK, SharedTyped, Grows, Born, Live, Recorded, Excused, Missing

LEMMA StopBareInv ==
  ASSUME IInv, NEW w \in Workers, StopBare(w)
  PROVE  IInv'
  <1>1. /\ job[w].pc = "bare" /\ job[w].op # "start" /\ job[w].svc \in Services
        /\ job[w].svc # NoSvc
    BY Facts, HostsAssumption DEF StopBare, At, JobOK, Starting, StartPcs, Holds, JobRec
  <1>2. PICK j \in JobRec : Put(w, j) /\ JobOK(j)
    BY <1>1, Facts, BackLemma DEF StopBare
  <1>3. PICK s \in Services : s = job[w].svc
    BY <1>1
  <1>4. SharedTyped' /\ Grows /\ \A t \in Services : Live(t)' => Live(t)
    <2>1. CASE Removes(s)
      BY <2>1, ServiceRemoved, Facts
    <2>2. CASE svc' = svc /\ Fault /\ row' = row /\ lost' = lost
      BY <2>2, Facts, HostsAssumption
         DEF TypeOK, SharedTyped, Grows, Fault, Born, Recorded, Live
    <2> QED
      BY <1>3, <2>1, <2>2 DEF StopBare, Removes
  <1>5. RowInv' /\ JobOK(j)'
    BY <1>2, <1>4, RowInvKept, JobKept, Facts DEF StopBare
  <1>6. HandsOver(job[w], j) /\ OnlyBirth(j)
    BY <1>1, <1>4 DEF HandsOver, OnlyBirth
  <1> QED
    BY <1>2, <1>4, <1>5, <1>6, StepLemma

LEMMA StopServiceInv ==
  ASSUME IInv, NEW w \in Workers, StopService(w)
  PROVE  IInv'
  <1>1. /\ job[w].pc = "remove" /\ job[w].op # "start" /\ job[w].row # NoRow
        /\ job[w].svc \in Services /\ Born(job[w].svc) /\ job[w].svc # NoSvc
        /\ row[job[w].row].svc = job[w].svc
    BY Facts, HostsAssumption
       DEF StopService, At, JobOK, Starting, StartPcs, Holds, Remembers, JobRec
  <1>2. PICK old \in JobRec : old = job[w]
    BY Facts
  <1>3. PICK s \in Services : s = job[w].svc
    BY <1>1
  <1>4. row' = row
    BY DEF StopService
  <1>5. SharedTyped' /\ Grows /\ Excused(s)' /\ \A t \in Services : Live(t)' => Live(t)
    <2>1. CASE Removes(s)
      BY <2>1, ServiceRemoved, Facts
    <2>2. CASE lost' = lost \cup {s} /\ Fault /\ svc' = svc
      BY <1>4, <2>2, Facts, HostsAssumption
         DEF TypeOK, SharedTyped, Grows, Born, Live, Recorded, Excused, Fault
    <2> QED
      BY <1>3, <2>1, <2>2 DEF StopService, Removes
  <1>6. RowInv'
    BY <1>4, <1>5, RowInvKept, Facts
  <1>7. JobOK(old)'
    BY <1>2, <1>5, Facts, JobKept
  <1>8. PICK j \in JobRec :
          /\ Put(w, j) /\ j.op = old.op /\ j.pc = "rowdel" /\ j.ret = old.ret
          /\ j.svc = s /\ j.row = old.row /\ j.inDb = old.inDb
          /\ j.notInDb = old.notInDb /\ j.todoS = old.todoS /\ j.todoR = old.todoR
    <2> DEFINE k == [old EXCEPT !.pc = "rowdel"]
    <2>1. k \in JobRec
      BY JobFields, JobParts DEF Pcs, StartPcs, SyncPcs
    <2>2. /\ k.op = old.op /\ k.pc = "rowdel" /\ k.ret = old.ret /\ k.svc = s
          /\ k.row = old.row /\ k.inDb = old.inDb /\ k.notInDb = old.notInDb
          /\ k.todoS = old.todoS /\ k.todoR = old.todoR
      BY <1>2, <1>3 DEF JobRec
    <2>3. Put(w, k)
      BY <1>2 DEF StopService, Goto
    <2> HIDE DEF k
    <2> QED
      BY <2>1, <2>2, <2>3
  <1>9. JobOK(j)'
    BY <1>1, <1>2, <1>3, <1>4, <1>5, <1>7, <1>8
       DEF JobOK, Remembers, Holds, Doomed, Starting, StartPcs
  <1>10. HandsOver(job[w], j) /\ OnlyBirth(j)
    BY <1>1, <1>5 DEF HandsOver, OnlyBirth
  <1> QED
    BY <1>5, <1>6, <1>8, <1>9, <1>10, StepLemma

LEMMA RowDeleteInv ==
  ASSUME IInv, NEW w \in Workers, RowDelete(w)
  PROVE  IInv'
  <1>1. /\ job[w].pc = "rowdel" /\ job[w].op # "start" /\ job[w].svc # NoSvc
        /\ job[w].row \in Rows /\ Recorded(job[w].row)
        /\ row[job[w].row].svc = job[w].svc /\ Excused(job[w].svc)
    BY Facts DEF RowDelete, At, JobOK, Starting, StartPcs, Holds, Doomed, Remembers, JobRec
  <1>2. PICK j \in JobRec : Put(w, j) /\ JobOK(j)
    BY <1>1, Facts, BackLemma DEF RowDelete
  <1>3. svc' = svc /\ lost' = lost
    BY DEF RowDelete
  <1>4. CASE row' = [row EXCEPT ![job[w].row].st = "deleted"] /\ faults' = faults
    <2> DEFINE r == job[w].row
               x == [row[r] EXCEPT !.st = "deleted"]
    <2>1. row[r] \in RowRec
      BY <1>1, Facts DEF TypeOK
    <2>2. x \in RowRec /\ x.st = "deleted" /\ x.svc = row[r].svc
          /\ x.state = row[r].state /\ x.app = row[r].app
      BY <2>1 DEF RowRec
    <2>3. row' = [row EXCEPT ![r] = x]
      BY <1>4
    <2>4. Born(row[r].svc) /\ (IsMia(r) => Missing(row[r].svc))
      BY <1>1, Facts DEF RowInv
    <2> HIDE DEF x
    <2>5. WritesRow(r, x)
      BY <1>1, <1>3, <1>4, <2>2, <2>3, <2>4, Facts DEF WritesRow, TypeOK, IsMia
    <2> QED
      BY <1>1, <1>2, <2>2, <2>5, RowStep
  <1>5. CASE row' = row /\ Fault
    <2>1. SharedTyped' /\ Grows
      BY <1>3, <1>5, Facts, HostsAssumption
         DEF TypeOK, SharedTyped, Grows, Fault, Born, Recorded, Live
    <2>2. HandsOver(job[w], j)
      BY <1>1 DEF HandsOver
    <2> QED
      BY <1>2, <1>3, <1>5, <2>1, <2>2, RowInvKept, RowsLemma, Facts
  <1> QED
    BY <1>4, <1>5 DEF RowDelete

LEMMA ReapCommitInv ==
  ASSUME IInv, NEW w \in Workers, ReapCommit(w)
  PROVE  IInv'
  <1>1. /\ job[w].pc = "reapdel" /\ job[w].op # "start"
        /\ \A e \in job[w].todoR :
             e.row \in Rows /\ Recorded(e.row) /\ Excused(row[e.row].svc)
    BY Facts
       DEF ReapCommit, At, JobOK, Starting, StartPcs, Remembers, Doomed, JobRec, LoadedRec
  <1> DEFINE D == {r \in Rows : \E e \in job[w].todoR : e.row = r}
  <1>2. \A r \in D : Recorded(r) /\ Excused(row[r].svc)
    BY <1>1
  <1>3. /\ row' = [r \in Rows |-> IF r \in D THEN [row[r] EXCEPT !.st = "deleted"] ELSE row[r]]
        /\ Put(w, IdleJob) /\ UNCHANGED <<svc, lost, faults>>
    BY DEF ReapCommit, Done
  <1> HIDE DEF D
  <1>4. ASSUME NEW r \in Rows
        PROVE  /\ row'[r] \in RowRec /\ row'[r].svc = row[r].svc
               /\ row'[r].state = row[r].state /\ row'[r].app = row[r].app
               /\ row'[r].st = IF r \in D THEN "deleted" ELSE row[r].st
    <2>1. row[r] \in RowRec
      BY Facts DEF TypeOK
    <2> QED
      BY <1>3, <2>1 DEF RowRec
  <1>5. SharedTyped'
    BY <1>3, <1>4, Facts DEF TypeOK, SharedTyped
  <1>6. Grows
    BY <1>3, <1>4 DEF Grows, Recorded, Born, Live
  <1>7. RowInv'
    <2>1. ASSUME NEW r \in Rows, Recorded(r)'
          PROVE  /\ Born(row[r].svc)
                 /\ IsMia(r)' => Missing(row[r].svc)
                 /\ row'[r].st = "deleted" => Excused(row[r].svc)
      BY <1>2, <1>4, <2>1, Facts DEF RowInv, Recorded, IsMia
    <2> QED
      BY <1>3, <1>4, <2>1 DEF RowInv, Born, Missing, Excused, Live
  <1>8. HandsOver(job[w], IdleJob)
    BY <1>1 DEF HandsOver
  <1> QED
    BY <1>3, <1>5, <1>6, <1>7, <1>8, RowsLemma, IdleTyped, IdleOK

LEMMA CutInv ==
  ASSUME IInv, NEW w \in Workers, Cut(w)
  PROVE  IInv'
  <1>1. PICK j \in JobRec : Put(w, j) /\ JobOK(j)
    <2>1. CASE Done(w)
      BY <2>1, IdleTyped, IdleOK DEF Done
    <2>2. CASE job[w].ret \in {"rows", "services"} /\ Raise(w)
      BY <2>2, IdleTyped, IdleOK, BackLemma, Facts DEF Raise, Done
    <2> QED
      BY <2>1, <2>2 DEF Cut
  <1>2. /\ job[w].op = "start" => lost' = lost \cup ({job[w].svc} \ {NoSvc})
        /\ job[w].op # "start" => lost' = lost
        /\ job[w].svc \in Services \cup {NoSvc}
        /\ svc' = svc /\ row' = row /\ Fault
    BY Facts DEF Cut, JobRec
  <1>3. SharedTyped' /\ Grows
    BY <1>2, Facts, HostsAssumption
       DEF TypeOK, SharedTyped, Grows, Fault, Born, Recorded, Live
  <1>4. HandsOver(job[w], j)
    BY <1>2, HostsAssumption DEF HandsOver, Tracked, Excused
  <1> QED
    BY <1>1, <1>2, <1>3, <1>4, RowInvKept, RowsLemma, Facts

\* The steps of nobody: Swarm's, the nodes' and the admin's single deletions.
LEMMA WorldLemma ==
  ASSUME IInv, UNCHANGED job, SharedTyped', Grows, RowInv',
         \A s \in Services : Live(s)' => Live(s)
  PROVE  IInv'
  <1>1. TypeOK /\ RowInv /\ SharedTyped /\ LiveTracked
    BY DEF IInv, TypeOK, SharedTyped
  <1>2. TypeOK'
    BY <1>1 DEF TypeOK, SharedTyped
  <1>3. ASSUME NEW w \in Workers
        PROVE  JobOK(job[w])'
    <2>1. PICK j \in JobRec : j = job[w] /\ JobOK(j)
      BY Facts
    <2>2. JobOK(j)'
      BY <1>1, <2>1, JobKept
    <2> QED
      BY <2>1, <2>2 DEF JobOK, Remembers, Holds, Doomed, Starting
  <1>4. LiveTracked'
    <2>1. SUFFICES ASSUME NEW s \in Services, Live(s)'
                   PROVE  Tracked(s)' \/ BeingRecorded(s)'
      BY DEF LiveTracked, LiveServices, Tracked, Excused, Missing
    <2>2. Live(s) /\ (Tracked(s) \/ BeingRecorded(s))
      BY <1>1, <2>1 DEF LiveTracked, LiveServices, Tracked, Excused, Missing
    <2>3. CASE Tracked(s)
      BY <1>1, <2>2, <2>3, TrackedKept DEF Born, Live
    <2>4. CASE BeingRecorded(s)
      BY <2>4 DEF BeingRecorded
    <2> QED
      BY <2>2, <2>3, <2>4
  <1> QED
    BY <1>2, <1>3, <1>4 DEF IInv

LEMMA DeleteHostInv ==
  ASSUME IInv, NEW r \in Rows, DeleteHost(r)
  PROVE  IInv'
  <1> DEFINE x == [row[r] EXCEPT !.st = "deleted"]
  <1>1. row[r] \in RowRec /\ Recorded(r)
    BY Facts DEF DeleteHost, Present, Recorded, IInv, TypeOK
  <1>2. x \in RowRec /\ x.st = "deleted" /\ x.svc = row[r].svc
        /\ x.state = row[r].state /\ x.app = row[r].app
    BY <1>1 DEF RowRec
  <1>3. /\ row' = [row EXCEPT ![r] = x] /\ lost' = lost \cup {row[r].svc}
        /\ UNCHANGED <<svc, job, faults>>
    BY DEF DeleteHost
  <1>4. Born(row[r].svc) /\ (IsMia(r) => Missing(row[r].svc))
    BY <1>1 DEF IInv, RowInv
  <1> HIDE DEF x
  <1>5. WritesRow(r, x)
    BY <1>1, <1>2, <1>3, <1>4 DEF WritesRow, IInv, TypeOK, IsMia, Born
  <1>6. SharedTyped' /\ Grows /\ RowInv'
    BY <1>2, <1>5, RowWritten
  <1> QED
    BY <1>3, <1>6, WorldLemma DEF Live

LEMMA SwarmInv ==
  ASSUME IInv, NEW s \in Services, Swarm(s)
  PROVE  IInv'
  <1>1. svc[s] \in SvcRec
    BY DEF IInv, TypeOK
  <1>2. PICK x \in SvcRec :
          /\ svc' = [svc EXCEPT ![s] = x] /\ x.st = svc[s].st
          /\ x.stale = svc[s].stale \/ x.stale
    <2>1. CASE TaskStarts(s) \/ NodeReachable(s)
      <3> DEFINE x == [svc[s] EXCEPT !.task = "running"]
      <3>1. x \in SvcRec /\ x.st = svc[s].st /\ x.stale = svc[s].stale
        BY <1>1 DEF SvcRec
      <3>2. svc' = [svc EXCEPT ![s] = x]
        BY <2>1 DEF TaskStarts, NodeReachable
      <3> HIDE DEF x
      <3> QED
        BY <3>1, <3>2
    <2>2. CASE NodeUnreachable(s)
      <3> DEFINE x == [svc[s] EXCEPT !.task = "unreach"]
      <3>1. x \in SvcRec /\ x.st = svc[s].st /\ x.stale = svc[s].stale
        BY <1>1 DEF SvcRec
      <3>2. svc' = [svc EXCEPT ![s] = x]
        BY <2>2 DEF NodeUnreachable
      <3> HIDE DEF x
      <3> QED
        BY <3>1, <3>2
    <2>3. CASE NodeRemoved(s)
      <3> DEFINE x == [svc[s] EXCEPT !.task = "none", !.stale = TRUE]
      <3>1. x \in SvcRec /\ x.st = svc[s].st /\ x.stale
        BY <1>1 DEF SvcRec
      <3>2. svc' = [svc EXCEPT ![s] = x]
        BY <1>1, <2>3 DEF NodeRemoved, IInv, TypeOK, SvcRec
      <3> HIDE DEF x
      <3> QED
        BY <3>1, <3>2
    <2> QED
      BY <2>1, <2>2, <2>3 DEF Swarm
  <1>3. UNCHANGED <<row, job, lost, faults>>
    BY DEF Swarm, TaskStarts, NodeReachable, NodeUnreachable, NodeRemoved
  <1>4. SharedTyped'
    BY <1>2, <1>3 DEF IInv, TypeOK, SharedTyped
  <1>5. Grows /\ \A t \in Services : Live(t)' => Live(t)
    BY <1>2, <1>3 DEF IInv, TypeOK, Grows, Born, Live, Recorded
  <1> QED
    BY <1>3, <1>4, <1>5, RowInvKept, WorldLemma DEF IInv

-----------------------------------------------------------------------------
(* The theorems. *)

LEMMA InitInv == Init => IInv
  <1> SUFFICES ASSUME Init PROVE IInv
    OBVIOUS
  <1>1. TypeOK
    BY IdleTyped, HostsAssumption DEF Init, TypeOK, SvcRec, RowRec
  <1>2. RowInv
    BY DEF Init, RowInv, Recorded
  <1>3. \A w \in Workers : JobOK(job[w])
    BY IdleOK DEF Init
  <1>4. LiveTracked
    BY DEF Init, LiveTracked, LiveServices, Live
  <1> QED
    BY <1>1, <1>2, <1>3, <1>4 DEF IInv

LEMMA StutterInv ==
  ASSUME IInv, UNCHANGED vars
  PROVE  IInv'
  BY RowInvKept, WorldLemma
     DEF IInv, TypeOK, SharedTyped, Grows, vars, Born, Live, Recorded

LEMMA NextInv == IInv /\ [Next]_vars => IInv'
  <1> SUFFICES ASSUME IInv, [Next]_vars PROVE IInv'
    OBVIOUS
  <1>1. CASE \E w \in Workers : Request(w) \/ BeginSync(w)
    BY <1>1, StartClassInv, StopHostInv, OpenHostInv, IsReadyInv, BeginLsInv,
       RemoveAllInv, BeginSyncInv, HostStopInv, HostStopAllInv DEF Request
  <1>2. CASE \E w \in Workers : Step(w)
    <2>1. PICK w \in Workers : Step(w)
      BY <1>2
    <2> QED
      BY <2>1, DbQueryInv, DbModelInv, DbWriteInv, StartLookupInv, StartExistingInv,
         StartCreateInv, StartConflictInv, StartModelInv, StartFindInv, StartCommitInv,
         StopServiceInv, RowDeleteInv, OpenGetInv, CheckReadyInv, SyncReadInv,
         SyncMarkInv, SyncFlagInv, SyncNotReadyInv, SyncRowInv, SyncNotInDbInv,
         SyncServiceInv, SyncEndInv, SettleInv, ReapCommitInv, VictimInv,
         HostStopGetInv, HostStopEachInv, StopBareInv DEF Step
  <1>3. CASE \E w \in Workers : Cut(w)
    BY <1>3, CutInv
  <1>4. CASE \E s \in Services : Swarm(s)
    BY <1>4, SwarmInv
  <1>5. CASE \E r \in Rows : DeleteHost(r)
    BY <1>5, DeleteHostInv
  <1>6. CASE UNCHANGED vars
    BY <1>6, StutterInv
  <1> QED
    BY <1>1, <1>2, <1>3, <1>4, <1>5, <1>6 DEF Next

\* What the proofs say of the inductive invariant itself.
THEOREM Inductive == Spec => []IInv
  BY InitInv, NextInv, PTL DEF Spec

\* No sequence of requests, sync passes, crashes and Swarm events takes the
\* table, the services or a worker's locals out of their types.
THEOREM TypeCorrect == Spec => []TypeOK
  <1>1. IInv => TypeOK
    BY DEF IInv
  <1> QED
    BY <1>1, Inductive, PTL

\* sync() never marks MIA a service that Swarm still has.
THEOREM MissingGone == Spec => []MissingAreGone
  <1>1. IInv => MissingAreGone
    BY Facts DEF IInv, JobOK, Doomed, MissingAreGone, At, LiveServices
  <1> QED
    BY <1>1, Inductive, PTL

\* No interleaving of starts, stops, syncs, reaps and purges loses a host.
THEOREM HostsTracked == Spec => []LiveTracked
  <1>1. IInv => LiveTracked
    BY DEF IInv
  <1> QED
    BY <1>1, Inductive, PTL

\* The few steps that change what Swarm runs.
LEMMA SwarmChanges ==
  ASSUME [Next]_vars, svc' # svc
  PROVE  \/ \E w \in Workers : StopService(w) \/ StopBare(w) \/ StartCreate(w)
         \/ \E s \in Services : Swarm(s)
  <1>1. ASSUME NEW w \in Workers, Request(w) \/ BeginSync(w) \/ Cut(w)
        PROVE  svc' = svc
    BY <1>1, Zenon
       DEF Request, StartClass, StopHost, OpenHost, IsReady, BeginLs, RemoveAll, HostStop,
           HostStopAll, BeginSync, Cut
  <1>2. ASSUME NEW w \in Workers, Step(w)
        PROVE  svc' = svc \/ StopService(w) \/ StopBare(w) \/ StartCreate(w)
    BY <1>2, Zenon
       DEF Step, DbQuery, DbModel, DbWrite, StartLookup, StartExisting, StartConflict,
           StartModel, StartFind, StartCommit, RowDelete, OpenGet, CheckReady, SyncRead,
           SyncMark, SyncFlag, SyncNotReady, SyncRow, SyncNotInDb, SyncService, SyncEnd,
           Settle, ReapCommit, Victim, HostStopGet, HostStopEach
  <1>3. \A r \in Rows : DeleteHost(r) => svc' = svc
    BY DEF DeleteHost
  <1> QED
    BY <1>1, <1>2, <1>3 DEF Next, vars

\* Only a stop takes a service out of Swarm: the service of the row it was asked to
\* stop or, when `host stop` finds no row, the one it has looked up or listed.
THEOREM StopsOwn == Spec => StopsOnlyItsOwn
  <1> DEFINE Stops(s, w) == \/ At(w, "remove") /\ row[job[w].row].svc = s
                            \/ At(w, "bare") /\ job[w].svc = s
             Own == \A s \in Services : Live(s) /\ ~Live(s)' => \E w \in Workers : Stops(s, w)
  <1>1. ASSUME IInv, [Next]_vars
        PROVE  Own
    <2>1. SUFFICES ASSUME NEW s \in Services, Live(s), ~Live(s)'
                   PROVE  \E w \in Workers : Stops(s, w)
      OBVIOUS
    <2>2. svc \in [Services -> SvcRec]
      BY <1>1 DEF IInv, TypeOK
    <2>3. ASSUME NEW w \in Workers, StopService(w)
          PROVE  Stops(s, w)
      <3>1. /\ At(w, "remove") /\ job[w].svc \in Services
            /\ row[job[w].row].svc = job[w].svc
        BY <1>1, <2>3, Facts DEF StopService, At, JobOK, Holds, JobRec
      <3>2. job[w].svc = s
        BY <2>1, <2>2, <2>3, <3>1 DEF StopService, Live, SvcRec
      <3> QED
        BY <3>1, <3>2
    <2>8. ASSUME NEW w \in Workers, StopBare(w)
          PROVE  Stops(s, w)
      <3>1. At(w, "bare") /\ job[w].svc \in Services
        BY <1>1, <2>8, Facts DEF StopBare, At, JobOK, Holds, JobRec
      <3>2. job[w].svc = s
        BY <2>1, <2>2, <2>8, <3>1 DEF StopBare, Live, SvcRec
      <3> QED
        BY <3>1, <3>2
    <2>4. ASSUME NEW w \in Workers, StartCreate(w)
          PROVE  FALSE
      BY <2>1, <2>2, <2>4 DEF StartCreate, Live, SvcRec
    <2>5. ASSUME NEW t \in Services, Swarm(t)
          PROVE  FALSE
      BY <2>1, <2>2, <2>5
         DEF Swarm, TaskStarts, NodeReachable, NodeUnreachable, NodeRemoved, Live, SvcRec
    <2>6. svc' # svc
      <3> SUFFICES ASSUME svc' = svc PROVE FALSE
        OBVIOUS
      <3> QED
        BY <2>1 DEF Live
    <2>7. \/ \E w \in Workers : StopService(w) \/ StopBare(w) \/ StartCreate(w)
          \/ \E t \in Services : Swarm(t)
      BY <1>1, <2>6, SwarmChanges
    <2> QED
      BY <2>3, <2>4, <2>5, <2>7, <2>8
  <1> QED
    BY <1>1, Inductive, PTL DEF Spec, StopsOnlyItsOwn
=============================================================================
