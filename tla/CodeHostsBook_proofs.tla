------------------------ MODULE CodeHostsBook_proofs ------------------------
(***************************************************************************)
(* CodeHosts keeps the book of hosts (HostBook), for every value of the       *)
(* constants.  Most steps only move a worker and change nothing in the book;  *)
(* a start takes a host up, gives it up or enters it; and the few writes to   *)
(* the table and to Swarm are one action of the book each.                   *)
(***************************************************************************)
EXTENDS CodeHosts_proofs

-----------------------------------------------------------------------------
(* The parts of the book. *)

\* The unique key of code_host.service_id, as the table's writers keep it.
OneRow == \A r, q \in PresentRows : row[r].svc = row[q].svc => r = q

LEMMA FateOf ==
  ASSUME TypeOK, NEW s \in Services
  PROVE  /\ Live(s) <=> Fate(s) \in {"up", "adrift"}
         /\ Fate(s) = "unborn" <=> svc[s].st = "unborn"
         /\ Fate(s) # "unborn" => (Missing(s) <=> Fate(s) \in {"adrift", "gone"})
  BY DEF Fate, Live, Missing, TypeOK, SvcRec

\* The book's words for what the table's writers know.
LEMMA BookWords ==
  ASSUME TypeOK, NEW s \in Services, Born(s)
  PROVE  /\ Missing(s) => Book!Missing(s)
         /\ Excused(s) => Book!Written(s)
         /\ Tracked(s) => Book!Written(s) \/ s \in DbServices
  BY FateOf DEF Book!Missing, Book!Written, Excused, Tracked, Born, DbServices

LEMMA SwarmKept ==
  ASSUME svc' = svc
  PROVE  /\ [s \in Services |-> Fate(s)]' = [s \in Services |-> Fate(s)]
         /\ [s \in Services |-> svc[s].owner]' = [s \in Services |-> svc[s].owner]
  BY DEF Fate, Live

LEMMA TableKept ==
  ASSUME row' = row
  PROVE  /\ Entered' = Entered /\ DbServices' = DbServices /\ Marked' = Marked
         /\ OneRow => OneRow'
  BY DEF Entered, DbServices, Marked, RowsOf, PresentRows, Present, IsMia, OneRow

Claims(j, s) == j.op = "start" /\ j.svc = s

\* What a worker's step does to the hosts in the hands of starts.
LEMMA HandMoves ==
  ASSUME TypeOK, NEW w \in Workers, NEW j, Put(w, j)
  PROVE  /\ (\A s \in Services : Claims(j, s) <=> Claims(job[w], s)) => InHand' = InHand
         /\ \A s \in Services :
              (\A t \in Services : Claims(job[w], t) => t = s)
              /\ (\A t \in Services : Claims(j, t) <=> t = s) => InHand' = InHand \cup {s}
         /\ \A s \in Services :
              (\A t \in Services : Claims(job[w], t) <=> t = s)
              /\ (\A t \in Services : ~Claims(j, t)) => InHand' \in {InHand, InHand \ {s}}
  <1>1. /\ job'[w] = j
        /\ \A v \in Workers : v # w => job'[v] = job[v]
    BY DEF Put, TypeOK
  <1>2. /\ InHand = {s \in Services : \E v \in Workers : Claims(job[v], s)}
        /\ InHand' = {s \in Services : \E v \in Workers : Claims(job'[v], s)}
    BY DEF InHand, BeingRecorded, Claims
  <1>3. /\ InHand' = {s \in Services : Claims(j, s) \/ \E v \in Workers \ {w} : Claims(job[v], s)}
        /\ InHand = {s \in Services : Claims(job[w], s) \/ \E v \in Workers \ {w} : Claims(job[v], s)}
    BY <1>1, <1>2, Zenon
  <1> QED
    BY <1>3, Zenon

LEMMA Unmoved ==
  ASSUME UNCHANGED <<svc, row, lost>>, InHand' = InHand
  PROVE  UNCHANGED Book!vars
  BY SwarmKept, TableKept DEF Book!vars

\* Every start is for a user.
Asked == \A w \in Workers : job[w].op = "start" => job[w].user \in Users

LEMMA AskedMoves ==
  ASSUME TypeOK, Asked, NEW w \in Workers, NEW j, Put(w, j),
         j.op = "start" => j.user \in Users
  PROVE  Asked'
  BY DEF Asked, Put, TypeOK

-----------------------------------------------------------------------------
(* Steps that move a worker only. *)

Quiet == UNCHANGED <<svc, row, lost>>

\* Whatever a worker that starts nothing reads changes nothing in the book.
LEMMA Moves ==
  ASSUME IInv, Asked, NEW w \in Workers, NEW j, Put(w, j), Quiet,
         job[w].op # "start", j.op # "start"
  PROVE  UNCHANGED Book!vars /\ Asked'
  BY HandMoves, AskedMoves, Unmoved, Facts DEF Quiet, Claims, Asked

\* So does a start that keeps what it has.
LEMMA Carries ==
  ASSUME IInv, Asked, NEW w \in Workers, NEW j, Put(w, j), Quiet, j.op = job[w].op,
         j.svc = job[w].svc, j.user = job[w].user
  PROVE  UNCHANGED Book!vars /\ Asked'
  BY HandMoves, AskedMoves, Unmoved, Facts DEF Quiet, Claims, Asked

\* A start works at its own steps and in sync_to_db() only, and has no service
\* before run() or a lookup gave it one.
LEMMA AtStart ==
  ASSUME IInv, NEW w \in Workers, job[w].op = "start"
  PROVE  /\ job[w].pc \in StartPcs \cup {"query", "model", "write"} /\ job[w].ret = "idle"
         /\ job[w].pc \in {"lookup", "existing", "create", "conflict"} => job[w].svc = NoSvc
         /\ job[w].svc # NoSvc => job[w].svc \in Services /\ Born(job[w].svc)
  BY Facts DEF JobOK, Starting, Remembers, Born

LEMMA NotStarting ==
  ASSUME IInv, NEW w \in Workers,
         job[w].pc \in {"idle", "mark", "flag", "rows", "services", "settle", "read1", "read2",
                        "reapdel", "remove", "rowdel", "get", "recheck", "victims",
                        "byname", "each", "bare"}
  PROVE  job[w].op # "start"
  BY AtStart DEF StartPcs

LEMMA IdleIsNone == IdleJob.op = "none" /\ IdleJob.svc = NoSvc
  BY DEF IdleJob

\* Done, for a start that has nothing in hand and for everything else.
LEMMA DoneMoves ==
  ASSUME IInv, Asked, NEW w \in Workers, Done(w), Quiet, job[w].op = "start" => job[w].svc = NoSvc
  PROVE  UNCHANGED Book!vars /\ Asked'
  <1>1. Put(w, IdleJob)
    BY DEF Done
  <1> QED
    BY <1>1, IdleIsNone, HandMoves, AskedMoves, Unmoved, Facts, HostsAssumption DEF Quiet, Claims

LEMMA BackPuts ==
  ASSUME IInv, NEW w \in Workers, NEW c \in BOOLEAN, Back(w, c), job[w].op # "start"
  PROVE  \E j : Put(w, j) /\ j.op # "start"
  <1>1. CASE job[w].ret = "idle"
    BY <1>1, IdleIsNone DEF Back, Done
  <1>2. CASE job[w].ret # "idle"
    <2>1. PICK k : k = IF job[w].ret = "recheck" THEN job[w].svc ELSE NoSvc
      OBVIOUS
    <2> DEFINE j == [job[w] EXCEPT !.pc = job[w].ret, !.ret = "idle", !.m = NoModel,
                       !.row = NoRow, !.svc = k, !.expired = @ \/ c]
    <2>2. Put(w, j)
      BY <1>2, <2>1 DEF Back
    <2>3. j.op = job[w].op
      BY Facts DEF JobRec
    <2> HIDE DEF j
    <2> QED
      BY <2>2, <2>3
  <1> QED
    BY <1>1, <1>2

LEMMA BackMoves ==
  ASSUME IInv, Asked, NEW w \in Workers, NEW c \in BOOLEAN, Back(w, c), Quiet, job[w].op # "start"
  PROVE  UNCHANGED Book!vars /\ Asked'
  BY BackPuts, Moves

LEMMA RequestMoves ==
  ASSUME IInv, Asked, NEW w \in Workers, Request(w) \/ BeginSync(w)
  PROVE  UNCHANGED Book!vars /\ Asked'
  <1>1. job[w].op # "start" /\ Quiet
    BY NotStarting
       DEF Request, BeginSync, StartClass, StopHost, OpenHost, IsReady, BeginLs, RemoveAll,
           HostStop, HostStopAll, Begin, Idle, Quiet
  <1>2. CASE StartClass(w)
    <2>1. PICK u \in Users : Put(w, [IdleJob EXCEPT !.op = "start", !.pc = "lookup", !.user = u])
      BY <1>2 DEF StartClass, Begin
    <2>2. /\ [IdleJob EXCEPT !.op = "start", !.pc = "lookup", !.user = u].svc = NoSvc
          /\ [IdleJob EXCEPT !.op = "start", !.pc = "lookup", !.user = u].user = u
      BY DEF IdleJob
    <2>3. PICK j : Put(w, j) /\ j.svc = NoSvc /\ j.user \in Users
      BY <2>1, <2>2
    <2> QED
      BY <1>1, <2>3, HandMoves, AskedMoves, Unmoved, Facts, HostsAssumption DEF Quiet, Claims
  <1>3. CASE StopHost(w)
    BY <1>1, <1>3, Moves DEF StopHost, Begin, IdleJob
  <1>4. CASE OpenHost(w)
    BY <1>1, <1>4, Moves DEF OpenHost, Begin, IdleJob
  <1>5. CASE IsReady(w)
    <2>1. PICK j : Put(w, j) /\ j.op = "ready"
      <3>1. PICK r \in PresentRows :
              Put(w, [CallSyncToDb(w, row[r].svc, FALSE, "recheck") EXCEPT !.op = "ready"])
        BY <1>5 DEF IsReady, Begin
      <3>2. [CallSyncToDb(w, row[r].svc, FALSE, "recheck") EXCEPT !.op = "ready"].op = "ready"
        BY Facts DEF CallSyncToDb, JobRec
      <3> QED
        BY <3>1, <3>2
    <2> QED
      BY <1>1, <2>1, Moves
  <1>6. CASE BeginLs(w)
    BY <1>1, <1>6, Moves DEF BeginLs, Begin, IdleJob
  <1>7. CASE RemoveAll(w)
    BY <1>1, <1>7, Moves DEF RemoveAll, Begin, IdleJob
  <1>8. CASE BeginSync(w)
    <2>1. PICK op \in SyncOps :
            Put(w, [IdleJob EXCEPT !.op = op, !.pc = "read1", !.check = TRUE])
      BY <1>8 DEF BeginSync
    <2>2. [IdleJob EXCEPT !.op = op, !.pc = "read1", !.check = TRUE].op = op
      BY DEF IdleJob
    <2> QED
      BY <1>1, <2>1, <2>2, Moves DEF SyncOps
  <1>9. CASE HostStop(w)
    BY <1>1, <1>9, Moves DEF HostStop, Begin, IdleJob
  <1>10. CASE HostStopAll(w)
    BY <1>1, <1>10, Moves DEF HostStopAll, Begin, IdleJob
  <1> QED
    BY <1>2, <1>3, <1>4, <1>5, <1>6, <1>7, <1>8, <1>9, <1>10 DEF Request

\* Whatever fields a step sets, short of op, the kind of the job is kept.
SameOp(w, k) == \E j : Put(w, j) /\ j.op = k.op

LEMMA OpKept ==
  ASSUME NEW w, NEW k \in JobRec
  PROVE  /\ (\E x : Put(w, [k EXCEPT !.pc = x])) => SameOp(w, k)
         /\ (\E x : Put(w, [k EXCEPT !.todoS = x])) => SameOp(w, k)
         /\ (\E x : Put(w, [k EXCEPT !.todoR = x])) => SameOp(w, k)
         /\ (\E x, y : Put(w, [k EXCEPT !.inDb = x, !.pc = y])) => SameOp(w, k)
         /\ (\E x, y, z, u : Put(w, [k EXCEPT !.notInDb = x, !.inDb = y, !.todoS = z, !.pc = u])) => SameOp(w, k)
         /\ (\E x, y, z : Put(w, [k EXCEPT !.todoS = x, !.row = y, !.pc = z])) => SameOp(w, k)
         /\ (\E x, y, z : Put(w, [k EXCEPT !.todoR = x, !.expired = y, !.pc = z])) => SameOp(w, k)
         /\ (\E x, y, z : Put(w, [k EXCEPT !.todoS = x, !.notInDb = y, !.pc = z])) => SameOp(w, k)
         /\ (\E x, y : Put(w, [k EXCEPT !.pc = x, !.todoR = y])) => SameOp(w, k)
         /\ (\E x, y, z : Put(w, [k EXCEPT !.pc = x, !.expired = y, !.todoR = z])) => SameOp(w, k)
         /\ (\E x, y, z, u, v : Put(w, [k EXCEPT !.todoR = x, !.pc = y, !.row = z, !.svc = u, !.ret = v])) => SameOp(w, k)
         /\ (\E x, y, z, u : Put(w, [k EXCEPT !.pc = x, !.svc = y, !.check = z, !.ret = u])) => SameOp(w, k)
         /\ (\E x, y, z, u, t : Put(w, [[k EXCEPT !.pc = x, !.svc = y, !.check = z, !.ret = u] EXCEPT !.todoS = t])) => SameOp(w, k)
         /\ (\E x, y, z, u, t : Put(w, [[k EXCEPT !.pc = x, !.svc = y, !.check = z, !.ret = u] EXCEPT !.todoR = t])) => SameOp(w, k)
         /\ (\E x, y : Put(w, [k EXCEPT !.pc = x, !.svc = y])) => SameOp(w, k)
         /\ (\E x, y, z, u, v : Put(w, [k EXCEPT !.todoS = x, !.row = y, !.svc = z, !.ret = u, !.pc = v])) => SameOp(w, k)
  <1>1. ASSUME NEW x, Put(w, [k EXCEPT !.pc = x]) PROVE SameOp(w, k)
    <2>1. [k EXCEPT !.pc = x].op = k.op
      BY DEF JobRec
    <2> QED
      BY <1>1, <2>1, Zenon DEF SameOp
  <1>2. ASSUME NEW x, Put(w, [k EXCEPT !.todoS = x]) PROVE SameOp(w, k)
    <2>1. [k EXCEPT !.todoS = x].op = k.op
      BY DEF JobRec
    <2> QED
      BY <1>2, <2>1, Zenon DEF SameOp
  <1>3. ASSUME NEW x, Put(w, [k EXCEPT !.todoR = x]) PROVE SameOp(w, k)
    <2>1. [k EXCEPT !.todoR = x].op = k.op
      BY DEF JobRec
    <2> QED
      BY <1>3, <2>1, Zenon DEF SameOp
  <1>4. ASSUME NEW x, NEW y, Put(w, [k EXCEPT !.inDb = x, !.pc = y]) PROVE SameOp(w, k)
    <2>1. [k EXCEPT !.inDb = x, !.pc = y].op = k.op
      BY DEF JobRec
    <2> QED
      BY <1>4, <2>1, Zenon DEF SameOp
  <1>5. ASSUME NEW x, NEW y, NEW z, NEW u, Put(w, [k EXCEPT !.notInDb = x, !.inDb = y, !.todoS = z, !.pc = u]) PROVE SameOp(w, k)
    <2>1. [k EXCEPT !.notInDb = x, !.inDb = y, !.todoS = z, !.pc = u].op = k.op
      BY DEF JobRec
    <2> QED
      BY <1>5, <2>1, Zenon DEF SameOp
  <1>6. ASSUME NEW x, NEW y, NEW z, Put(w, [k EXCEPT !.todoS = x, !.row = y, !.pc = z]) PROVE SameOp(w, k)
    <2>1. [k EXCEPT !.todoS = x, !.row = y, !.pc = z].op = k.op
      BY DEF JobRec
    <2> QED
      BY <1>6, <2>1, Zenon DEF SameOp
  <1>7. ASSUME NEW x, NEW y, NEW z, Put(w, [k EXCEPT !.todoR = x, !.expired = y, !.pc = z]) PROVE SameOp(w, k)
    <2>1. [k EXCEPT !.todoR = x, !.expired = y, !.pc = z].op = k.op
      BY DEF JobRec
    <2> QED
      BY <1>7, <2>1, Zenon DEF SameOp
  <1>8. ASSUME NEW x, NEW y, NEW z, Put(w, [k EXCEPT !.todoS = x, !.notInDb = y, !.pc = z]) PROVE SameOp(w, k)
    <2>1. [k EXCEPT !.todoS = x, !.notInDb = y, !.pc = z].op = k.op
      BY DEF JobRec
    <2> QED
      BY <1>8, <2>1, Zenon DEF SameOp
  <1>9. ASSUME NEW x, NEW y, Put(w, [k EXCEPT !.pc = x, !.todoR = y]) PROVE SameOp(w, k)
    <2>1. [k EXCEPT !.pc = x, !.todoR = y].op = k.op
      BY DEF JobRec
    <2> QED
      BY <1>9, <2>1, Zenon DEF SameOp
  <1>10. ASSUME NEW x, NEW y, NEW z, Put(w, [k EXCEPT !.pc = x, !.expired = y, !.todoR = z]) PROVE SameOp(w, k)
    <2>1. [k EXCEPT !.pc = x, !.expired = y, !.todoR = z].op = k.op
      BY DEF JobRec
    <2> QED
      BY <1>10, <2>1, Zenon DEF SameOp
  <1>11. ASSUME NEW x, NEW y, NEW z, NEW u, NEW v, Put(w, [k EXCEPT !.todoR = x, !.pc = y, !.row = z, !.svc = u, !.ret = v]) PROVE SameOp(w, k)
    <2>1. [k EXCEPT !.todoR = x, !.pc = y, !.row = z, !.svc = u, !.ret = v].op = k.op
      BY DEF JobRec
    <2> QED
      BY <1>11, <2>1, Zenon DEF SameOp
  <1>12. ASSUME NEW x, NEW y, NEW z, NEW u, Put(w, [k EXCEPT !.pc = x, !.svc = y, !.check = z, !.ret = u]) PROVE SameOp(w, k)
    <2>1. [k EXCEPT !.pc = x, !.svc = y, !.check = z, !.ret = u].op = k.op
      BY DEF JobRec
    <2> QED
      BY <1>12, <2>1, Zenon DEF SameOp
  <1>13. ASSUME NEW x, NEW y, NEW z, NEW u, NEW t, Put(w, [[k EXCEPT !.pc = x, !.svc = y, !.check = z, !.ret = u] EXCEPT !.todoS = t]) PROVE SameOp(w, k)
    <2>1. [[k EXCEPT !.pc = x, !.svc = y, !.check = z, !.ret = u] EXCEPT !.todoS = t].op = k.op
      BY DEF JobRec
    <2> QED
      BY <1>13, <2>1, Zenon DEF SameOp
  <1>14. ASSUME NEW x, NEW y, NEW z, NEW u, NEW t, Put(w, [[k EXCEPT !.pc = x, !.svc = y, !.check = z, !.ret = u] EXCEPT !.todoR = t]) PROVE SameOp(w, k)
    <2>1. [[k EXCEPT !.pc = x, !.svc = y, !.check = z, !.ret = u] EXCEPT !.todoR = t].op = k.op
      BY DEF JobRec
    <2> QED
      BY <1>14, <2>1, Zenon DEF SameOp
  <1>15. ASSUME NEW x, NEW y, Put(w, [k EXCEPT !.pc = x, !.svc = y]) PROVE SameOp(w, k)
    <2>1. [k EXCEPT !.pc = x, !.svc = y].op = k.op
      BY DEF JobRec
    <2> QED
      BY <1>15, <2>1, Zenon DEF SameOp
  <1>16. ASSUME NEW x, NEW y, NEW z, NEW u, NEW v, Put(w, [k EXCEPT !.todoS = x, !.row = y, !.svc = z, !.ret = u, !.pc = v]) PROVE SameOp(w, k)
    <2>1. [k EXCEPT !.todoS = x, !.row = y, !.svc = z, !.ret = u, !.pc = v].op = k.op
      BY DEF JobRec
    <2> QED
      BY <1>16, <2>1, Zenon DEF SameOp
  <1> QED
    BY <1>1, <1>2, <1>3, <1>4, <1>5, <1>6, <1>7, <1>8, <1>9, <1>10, <1>11, <1>12, <1>13, <1>14,
       <1>15, <1>16, Zenon

LEMMA OnwardMoves ==
  ASSUME IInv, Asked, NEW w \in Workers, Quiet, job[w].op # "start", Done(w) \/ SameOp(w, job[w])
  PROVE  UNCHANGED Book!vars /\ Asked'
  BY DoneMoves, Moves DEF SameOp

LEMMA SyncMoves ==
  ASSUME IInv, Asked, NEW w \in Workers,
         \/ SyncRead(w) \/ SyncMark(w) \/ SyncNotReady(w) \/ SyncRow(w) \/ SyncNotInDb(w)
         \/ SyncService(w) \/ SyncEnd(w) \/ Settle(w) \/ Victim(w) \/ OpenGet(w) \/ CheckReady(w)
         \/ HostStopGet(w) \/ HostStopEach(w)
  PROVE  UNCHANGED Book!vars /\ Asked'
  <1>0. PICK k \in JobRec : k = job[w]
    BY Facts
  <1>1. Quiet /\ job[w].op # "start"
    BY NotStarting
       DEF Quiet, SyncRead, SyncMark, SyncNotReady, SyncRow, SyncNotInDb, SyncService, SyncEnd,
           Settle, Victim, OpenGet, CheckReady, HostStopGet, HostStopEach, At
  <1>2. CASE SyncRead(w)
    <2>1. \/ \E x, y : Put(w, [k EXCEPT !.inDb = x, !.pc = y])
          \/ \E x, y, z, u : Put(w, [k EXCEPT !.notInDb = x, !.inDb = y, !.todoS = z, !.pc = u])
      BY <1>0, <1>2, Zenon DEF SyncRead
    <2>2. Done(w) \/ SameOp(w, k)
      BY <2>1, OpKept, Zenon
    <2> QED
      BY <1>0, <1>1, <2>2, OnwardMoves
  <1>3. CASE SyncMark(w)
    <2>1. \E x, y, z : Put(w, [k EXCEPT !.todoS = x, !.row = y, !.pc = z])
      BY <1>0, <1>3, Zenon DEF SyncMark
    <2>2. Done(w) \/ SameOp(w, k)
      BY <2>1, OpKept, Zenon
    <2> QED
      BY <1>0, <1>1, <2>2, OnwardMoves
  <1>4. CASE SyncNotReady(w)
    <2>1. \E x, y, z : Put(w, [k EXCEPT !.todoR = x, !.expired = y, !.pc = z])
      BY <1>0, <1>4, Zenon DEF SyncNotReady
    <2>2. Done(w) \/ SameOp(w, k)
      BY <2>1, OpKept, Zenon
    <2> QED
      BY <1>0, <1>1, <2>2, OnwardMoves
  <1>5. CASE SyncRow(w)
    <2>1. \/ Done(w)
          \/ \E x : Put(w, [k EXCEPT !.todoR = x])
          \/ \E x, y, z, u, t : Put(w, [[k EXCEPT !.pc = x, !.svc = y, !.check = z, !.ret = u]
                                          EXCEPT !.todoR = t])
      BY <1>0, <1>5, Zenon DEF SyncRow, CallSyncToDb
    <2>2. Done(w) \/ SameOp(w, k)
      BY <2>1, OpKept, Zenon
    <2> QED
      BY <1>0, <1>1, <2>2, OnwardMoves
  <1>6. CASE SyncNotInDb(w)
    <2>1. \E x, y, z : Put(w, [k EXCEPT !.todoS = x, !.notInDb = y, !.pc = z])
      BY <1>0, <1>6, Zenon DEF SyncNotInDb
    <2>2. Done(w) \/ SameOp(w, k)
      BY <2>1, OpKept, Zenon
    <2> QED
      BY <1>0, <1>1, <2>2, OnwardMoves
  <1>7. CASE SyncService(w)
    <2>1. \/ Done(w)
          \/ \E x : Put(w, [k EXCEPT !.todoS = x])
          \/ \E x, y, z, u, t : Put(w, [[k EXCEPT !.pc = x, !.svc = y, !.check = z, !.ret = u]
                                          EXCEPT !.todoS = t])
      <3>1. PICK s \in job[w].todoS :
              CASE Live(s) ->
                     Put(w, [CallSyncToDb(w, s, job[w].check, "services")
                              EXCEPT !.todoS = @ \ {s}])
                [] ~Live(s) /\ job[w].op # "ls" -> Put(w, [job[w] EXCEPT !.todoS = @ \ {s}])
                [] OTHER -> Done(w)
        BY <1>7, Zenon DEF SyncService
      <3>2. CASE Live(s)
        BY <1>0, <3>1, <3>2, Zenon DEF CallSyncToDb
      <3>3. CASE ~Live(s) /\ job[w].op # "ls"
        BY <1>0, <3>1, <3>3, Zenon
      <3>4. CASE ~Live(s) /\ job[w].op = "ls"
        BY <3>1, <3>4, Zenon
      <3> QED
        BY <3>2, <3>3, <3>4
    <2>2. Done(w) \/ SameOp(w, k)
      BY <2>1, OpKept, Zenon
    <2> QED
      BY <1>0, <1>1, <2>2, OnwardMoves
  <1>8. CASE SyncEnd(w)
    <2>1. \/ Done(w)
          \/ \E x : Put(w, [k EXCEPT !.pc = x])
          \/ \E x, y : Put(w, [k EXCEPT !.pc = x, !.todoR = y])
          \/ \E x, y, z : Put(w, [k EXCEPT !.pc = x, !.expired = y, !.todoR = z])
      BY <1>0, <1>8, Zenon DEF SyncEnd, Goto
    <2>2. Done(w) \/ SameOp(w, k)
      BY <2>1, OpKept, Zenon
    <2> QED
      BY <1>0, <1>1, <2>2, OnwardMoves
  <1>9. CASE Settle(w)
    BY <1>1, <1>9, DoneMoves, Moves DEF Settle, IdleJob
  <1>10. CASE Victim(w)
    <2>1. \/ Done(w)
          \/ \E x : Put(w, [k EXCEPT !.todoR = x])
          \/ \E x, y, z, u, v : Put(w, [k EXCEPT !.todoR = x, !.pc = y, !.row = z, !.svc = u,
                                                 !.ret = v])
      BY <1>0, <1>10, Zenon DEF Victim
    <2>2. Done(w) \/ SameOp(w, k)
      BY <2>1, OpKept, Zenon
    <2> QED
      BY <1>0, <1>1, <2>2, OnwardMoves
  <1>11. CASE OpenGet(w)
    <2>1. Done(w) \/ \E x : Put(w, [k EXCEPT !.pc = x])
      BY <1>0, <1>11, Zenon DEF OpenGet, Goto
    <2>2. Done(w) \/ SameOp(w, k)
      BY <2>1, OpKept, Zenon
    <2> QED
      BY <1>0, <1>1, <2>2, OnwardMoves
  <1>12. CASE CheckReady(w)
    <2>1. Done(w) \/ \E s, c : Put(w, CallSyncToDb(w, s, c, "idle"))
      BY <1>12 DEF CheckReady
    <2>2. \/ Done(w)
          \/ \E x, y, z, u : Put(w, [k EXCEPT !.pc = x, !.svc = y, !.check = z, !.ret = u])
      BY <1>0, <2>1, Zenon DEF CallSyncToDb
    <2>3. Done(w) \/ SameOp(w, k)
      BY <2>2, OpKept, Zenon
    <2> QED
      BY <1>0, <1>1, <2>3, OnwardMoves
  <1>13. CASE HostStopGet(w)
    <2>1. Done(w) \/ \E x, y : Put(w, [k EXCEPT !.pc = x, !.svc = y])
      BY <1>0, <1>13, Zenon DEF HostStopGet
    <2>2. Done(w) \/ SameOp(w, k)
      BY <2>1, OpKept, Zenon
    <2> QED
      BY <1>0, <1>1, <2>2, OnwardMoves
  <1>14. CASE HostStopEach(w)
    <2>1. \/ Done(w)
          \/ \E x, y, z, u, v : Put(w, [k EXCEPT !.todoS = x, !.row = y, !.svc = z, !.ret = u,
                                                 !.pc = v])
      BY <1>0, <1>14, Zenon DEF HostStopEach
    <2>2. Done(w) \/ SameOp(w, k)
      BY <2>1, OpKept, Zenon
    <2> QED
      BY <1>0, <1>1, <2>2, OnwardMoves
  <1> QED
    BY <1>2, <1>3, <1>4, <1>5, <1>6, <1>7, <1>8, <1>9, <1>10, <1>11, <1>12, <1>13, <1>14

-----------------------------------------------------------------------------
(* Starts, until they write. *)

BookStep == Book!Next \/ UNCHANGED Book!vars

LEMMA DoneHand ==
  ASSUME IInv, NEW w \in Workers, Done(w), NEW s \in Services, job[w].op = "start", job[w].svc = s
  PROVE  InHand' \in {InHand, InHand \ {s}}
  <1>1. Put(w, IdleJob) /\ \A t \in Services : ~Claims(IdleJob, t)
    BY IdleIsNone DEF Done, Claims
  <1>2. \A t \in Services : Claims(job[w], t) <=> t = s
    BY DEF Claims
  <1> QED
    BY <1>1, <1>2, HandMoves, Facts

LEMMA GivesUp ==
  ASSUME IInv, Asked, NEW w \in Workers, Done(w), Quiet,
         job[w].op = "start" => job[w].svc = NoSvc \/ Tracked(job[w].svc)
  PROVE  BookStep /\ Asked'
  <1>0. Asked'
    <2>1. Put(w, IdleJob)
      BY DEF Done
    <2> QED
      BY <2>1, AskedMoves, IdleIsNone, Facts
  <1>1. CASE job[w].op = "start" /\ job[w].svc # NoSvc
    <2>1. PICK s \in Services : s = job[w].svc /\ Born(s) /\ Tracked(s)
      BY <1>1, AtStart
    <2>2. InHand' \in {InHand, InHand \ {s}}
      BY <1>1, <2>1, DoneHand
    <2>3. Book!Written(s) \/ s \in DbServices
      BY <2>1, BookWords, Facts
    <2>4. CASE InHand' = InHand \ {s}
      <3>1. Book!GiveUp(s)
        BY <2>3, <2>4, SwarmKept, TableKept DEF Book!GiveUp, Quiet
      <3> QED
        BY <1>0, <3>1 DEF BookStep, Book!Next
    <2> QED
      BY <1>0, <2>2, <2>4, Unmoved DEF BookStep, Quiet
  <1>2. CASE ~(job[w].op = "start" /\ job[w].svc # NoSvc)
    BY <1>2, DoneMoves DEF BookStep
  <1> QED
    BY <1>1, <1>2

LEMMA TakesUp ==
  ASSUME IInv, Asked, NEW w \in Workers, job[w].op = "start", job[w].svc = NoSvc, Quiet,
         NEW s \in Services, Live(s), NEW j, Put(w, j), j.op = "start", j.svc = s,
         j.user = job[w].user
  PROVE  BookStep /\ Asked'
  <1>1. /\ \A t \in Services : ~Claims(job[w], t)
        /\ \A t \in Services : Claims(j, t) <=> t = s
    BY HostsAssumption DEF Claims
  <1>2. InHand' = InHand \cup {s}
    BY <1>1, HandMoves, Facts
  <1>3. Book!Running(s)
    BY FateOf, Facts DEF Book!Running
  <1>4. Book!TakeUp(s)
    BY <1>2, <1>3, SwarmKept, TableKept DEF Book!TakeUp, Quiet
  <1>5. Asked'
    BY AskedMoves, Facts DEF Asked
  <1> QED
    BY <1>4, <1>5 DEF BookStep, Book!Next

LEMMA StartMoves ==
  ASSUME IInv, Asked, NEW w \in Workers,
         \/ StartLookup(w) \/ StartExisting(w) \/ StartConflict(w) \/ StartModel(w) \/ StartFind(w)
  PROVE  BookStep /\ Asked'
  <1>0. PICK k \in JobRec : k = job[w]
    BY Facts
  <1>1. Quiet /\ k.op = "start" /\ k.svc \in Services \cup {NoSvc}
    BY <1>0, Facts
       DEF Quiet, StartLookup, StartExisting, StartConflict, StartModel, StartFind, At, JobOK,
           Starting, StartPcs, JobRec
  <1>2. ASSUME NEW x, Put(w, [k EXCEPT !.pc = x])
        PROVE  BookStep /\ Asked'
    <2>1. /\ [k EXCEPT !.pc = x].op = k.op /\ [k EXCEPT !.pc = x].svc = k.svc
          /\ [k EXCEPT !.pc = x].user = k.user
      BY DEF JobRec
    <2> QED
      BY <1>0, <1>1, <1>2, <2>1, Carries DEF BookStep
  <1>3. ASSUME NEW s \in Named(job[w].user), k.svc = NoSvc, NEW c,
               Put(w, CallSyncToDb(w, s, c, "idle"))
        PROVE  BookStep /\ Asked'
    <2>1. s \in Services /\ Live(s)
      BY DEF Named, LiveServices
    <2>2. /\ CallSyncToDb(w, s, c, "idle").op = k.op
          /\ CallSyncToDb(w, s, c, "idle").svc = s
          /\ CallSyncToDb(w, s, c, "idle").user = k.user
      BY <1>0 DEF CallSyncToDb, JobRec
    <2> QED
      BY <1>0, <1>1, <1>3, <2>1, <2>2, TakesUp
  <1>4. CASE StartLookup(w)
    <2>1. k.svc = NoSvc
      BY <1>0, <1>1, <1>4, AtStart DEF StartLookup, At
    <2>2. \/ \E s \in Named(job[w].user) : Put(w, CallSyncToDb(w, s, TRUE, "idle"))
          \/ Put(w, [k EXCEPT !.pc = "existing"])
      BY <1>0, <1>4, Zenon DEF StartLookup, Goto
    <2> QED
      BY <1>2, <1>3, <2>1, <2>2
  <1>5. CASE StartExisting(w)
    <2>1. k.svc = NoSvc
      BY <1>0, <1>1, <1>5, AtStart DEF StartExisting, At
    <2>2. Done(w) \/ Put(w, [k EXCEPT !.pc = "create"])
      BY <1>0, <1>5, Zenon DEF StartExisting, Goto
    <2> QED
      BY <1>0, <1>1, <1>2, <2>1, <2>2, GivesUp
  <1>6. CASE StartConflict(w)
    <2>1. k.svc = NoSvc
      BY <1>0, <1>1, <1>6, AtStart DEF StartConflict, At
    <2>2. CASE Done(w)
      BY <1>0, <1>1, <2>1, <2>2, GivesUp
    <2>3. CASE \E s \in Named(job[w].user) : Put(w, [job[w] EXCEPT !.pc = "smodel", !.svc = s])
      <3>1. PICK s \in Named(job[w].user) : Put(w, [k EXCEPT !.pc = "smodel", !.svc = s])
        BY <1>0, <2>3
      <3>2. s \in Services /\ Live(s)
        BY DEF Named, LiveServices
      <3>3. /\ [k EXCEPT !.pc = "smodel", !.svc = s].op = k.op
            /\ [k EXCEPT !.pc = "smodel", !.svc = s].svc = s
            /\ [k EXCEPT !.pc = "smodel", !.svc = s].user = k.user
        BY DEF JobRec
      <3> QED
        BY <1>0, <1>1, <2>1, <3>1, <3>2, <3>3, TakesUp
    <2> QED
      BY <1>6, <2>2, <2>3 DEF StartConflict
  <1>7. CASE StartModel(w)
    <2>1. CASE Live(job[w].svc)
      <3>1. PICK st : Put(w, [k EXCEPT !.pc = "sfind", !.m = [state |-> st, app |-> "keep"]])
        BY <1>0, <1>7, <2>1, Zenon DEF StartModel
      <3>2. PICK m : m = [state |-> st, app |-> "keep"]
        OBVIOUS
      <3>3. /\ [k EXCEPT !.pc = "sfind", !.m = m].op = k.op
            /\ [k EXCEPT !.pc = "sfind", !.m = m].svc = k.svc
            /\ [k EXCEPT !.pc = "sfind", !.m = m].user = k.user
        BY DEF JobRec
      <3> QED
        BY <1>0, <1>1, <3>1, <3>2, <3>3, Carries DEF BookStep
    <2>2. CASE ~Live(job[w].svc)
      BY <1>0, <1>1, <1>7, <2>2, GivesUp DEF StartModel, Tracked, Excused, Missing
    <2> QED
      BY <2>1, <2>2
  <1>8. CASE StartFind(w)
    <2>1. PICK r : Put(w, [k EXCEPT !.pc = "scommit", !.row = r])
      BY <1>0, <1>8, Zenon DEF StartFind
    <2>2. /\ [k EXCEPT !.pc = "scommit", !.row = r].op = k.op
          /\ [k EXCEPT !.pc = "scommit", !.row = r].svc = k.svc
          /\ [k EXCEPT !.pc = "scommit", !.row = r].user = k.user
      BY DEF JobRec
    <2> QED
      BY <1>0, <1>1, <2>1, <2>2, Carries DEF BookStep
  <1> QED
    BY <1>4, <1>5, <1>6, <1>7, <1>8

LEMMA DbQueryMoves ==
  ASSUME IInv, Asked, NEW w \in Workers, DbQuery(w)
  PROVE  BookStep /\ Asked'
  <1>0. PICK k \in JobRec : k = job[w]
    BY Facts
  <1>1. PICK r : Put(w, [k EXCEPT !.pc = "model", !.row = r])
    BY <1>0, Zenon DEF DbQuery
  <1>2. /\ [k EXCEPT !.pc = "model", !.row = r].op = k.op
        /\ [k EXCEPT !.pc = "model", !.row = r].svc = k.svc
        /\ [k EXCEPT !.pc = "model", !.row = r].user = k.user
    BY DEF JobRec
  <1> QED
    BY <1>0, <1>1, <1>2, Carries DEF BookStep, DbQuery, Quiet

LEMMA DbModelMoves ==
  ASSUME IInv, Asked, NEW w \in Workers, DbModel(w)
  PROVE  BookStep /\ Asked'
  <1>0. PICK k \in JobRec : k = job[w]
    BY Facts
  <1>1. Quiet
    BY DEF DbModel, Quiet
  <1>2. CASE Live(job[w].svc)
    <2>1. PICK m : Put(w, [k EXCEPT !.pc = "write", !.m = m])
      BY <1>0, <1>2, Zenon DEF DbModel
    <2>2. /\ [k EXCEPT !.pc = "write", !.m = m].op = k.op
          /\ [k EXCEPT !.pc = "write", !.m = m].svc = k.svc
          /\ [k EXCEPT !.pc = "write", !.m = m].user = k.user
      BY DEF JobRec
    <2> QED
      BY <1>0, <1>1, <2>1, <2>2, Carries DEF BookStep
  <1>3. CASE ~Live(job[w].svc) /\ job[w].op \in SyncOps
    BY <1>1, <1>3, BackMoves DEF DbModel, Raise, BookStep, SyncOps
  <1>4. CASE ~Live(job[w].svc) /\ job[w].op \notin SyncOps
    BY <1>1, <1>4, GivesUp DEF DbModel, Raise, Tracked, Excused, Missing
  <1> QED
    BY <1>2, <1>3, <1>4

-----------------------------------------------------------------------------
(* Writing the table. *)

\* A row is inserted where there is none, or updated where there is one.
LEMMA RowEnters ==
  ASSUME IInv, IInv', OneRow, NEW r \in Rows, NEW x \in RowRec, WritesRow(r, x),
         x.st = "present", lost' = lost,
         Present(r) \/ (row[r].st = "fresh" /\ RowsOf(x.svc) = {}),
         InHand' \in {InHand, InHand \ {x.svc}}
  PROVE  BookStep /\ OneRow'
  <1>1. PICK s \in Services : s = x.svc /\ Born(s)
    BY DEF WritesRow, Born
  <1>2. /\ row' = [row EXCEPT ![r] = x] /\ svc' = svc
        /\ row'[r] = x /\ \A q \in Rows : q # r => row'[q] = row[q]
    BY Facts DEF WritesRow, IInv, TypeOK
  <1>3. /\ \A q \in Rows : Present(q) /\ row[q].svc = s => q = r
        /\ Present(r) => row[r].svc = s
    BY <1>1 DEF OneRow, PresentRows, RowsOf, WritesRow, Recorded, Present
  <1>4. OneRow'
    BY <1>1, <1>2, <1>3 DEF OneRow, PresentRows, Present
  <1>5. Entered' = Entered \cup {s}
    <2>1. \A q \in Rows : row[q].st # "fresh" => row'[q].st # "fresh" /\ row'[q].svc = row[q].svc
      BY <1>2 DEF WritesRow, Recorded
    <2>2. \A q \in Rows : row'[q].st # "fresh" => row'[q].svc = s \/ (row[q].st # "fresh" /\ row'[q].svc = row[q].svc)
      BY <1>1, <1>2
    <2> QED
      BY <1>1, <1>2, <2>1, <2>2 DEF Entered
  <1>6. RowsOf(s)' = {r} /\ \A t \in Services : t # s => RowsOf(t)' = RowsOf(t)
    BY <1>1, <1>2, <1>3 DEF RowsOf, PresentRows, Present
  <1>7. DbServices' = DbServices \cup {s}
    BY <1>6 DEF DbServices
  <1>8. /\ IsMia(r)' => Missing(s)
        /\ \A q \in Rows : q # r => IsMia(q)' = IsMia(q)
    BY <1>1, <1>2 DEF WritesRow, IsMia
  <1>9. \A t \in Services : t # s => (t \in Marked' <=> t \in Marked)
    <2>1. \A t \in Services : t # s => \A q \in RowsOf(t) : q \in Rows /\ q # r
      BY <1>2, <1>6, <1>1 DEF RowsOf, PresentRows, Present
    <2> QED
      BY <1>6, <1>8, <2>1 DEF Marked
  <1>10. s \in Marked' <=> IsMia(r)'
    BY <1>6 DEF Marked
  <1>11. Marked' = Marked \ {s} \/ (Missing(s) /\ Marked' = Marked \cup {s})
    BY <1>8, <1>9, <1>10 DEF Marked
  <1>12. /\ Missing(s) => Book!Missing(s)
         /\ [t \in Services |-> Fate(t)][s] # "unborn"
    BY <1>1, BookWords, FateOf, Facts DEF Born, IInv
  <1>13. Book!Enter(s)
    BY <1>1, <1>2, <1>5, <1>7, <1>11, <1>12, SwarmKept DEF Book!Enter
  <1> QED
    BY <1>4, <1>13 DEF BookStep, Book!Next

\* One commit deletes the rows D.
Deletes(D) ==
  \A r \in Rows : /\ row'[r].svc = row[r].svc /\ row'[r].state = row[r].state
                  /\ row'[r].app = row[r].app
                  /\ row'[r].st = IF r \in D THEN "deleted" ELSE row[r].st

\* The hosts those rows are of.
HostsOf(D) == {s \in Services : \E r \in D : Present(r) /\ row[r].svc = s}

LEMMA RowsStruck ==
  ASSUME TypeOK, OneRow, NEW D \in SUBSET Rows, \A r \in D : Recorded(r),
         Deletes(D)
  PROVE  /\ HostsOf(D) \in SUBSET DbServices /\ OneRow' /\ Entered' = Entered
         /\ DbServices' = DbServices \ HostsOf(D) /\ Marked' = Marked \ HostsOf(D)
  <1> DEFINE H == HostsOf(D)
  <1>h. H = {s \in Services : \E r \in D : Present(r) /\ row[r].svc = s}
    BY DEF HostsOf
  <1> HIDE DEF H
  <1>1. \A r \in Rows : /\ Present(r)' <=> Present(r) /\ r \notin D
                        /\ IsMia(r)' = IsMia(r)
                        /\ row'[r].st # "fresh" <=> row[r].st # "fresh"
    BY DEF Present, IsMia, Recorded, Deletes
  <1>2. OneRow'
    BY <1>1 DEF OneRow, PresentRows, Deletes
  <1>3. Entered' = Entered
    BY <1>1 DEF Entered, Deletes
  <1>4. \A s \in Services : RowsOf(s)' = IF s \in H THEN {} ELSE RowsOf(s)
    <2>1. ASSUME NEW s \in Services, s \in H
          PROVE  RowsOf(s)' = {}
      <3>1. PICK r \in D : Present(r) /\ row[r].svc = s
        BY <1>h, <2>1
      <3>2. \A q \in Rows : Present(q) /\ row[q].svc = s => q = r
        BY <3>1 DEF OneRow, PresentRows
      <3> QED
        BY <1>1, <3>2, <3>1 DEF RowsOf, PresentRows, Deletes
    <2>2. ASSUME NEW s \in Services, s \notin H
          PROVE  RowsOf(s)' = RowsOf(s)
      <3>1. \A q \in Rows : Present(q) /\ row[q].svc = s => q \notin D
        BY <1>h, <2>2
      <3> QED
        BY <1>1, <3>1 DEF RowsOf, PresentRows, Deletes
    <2> QED
      BY <2>1, <2>2
  <1>5. H \subseteq DbServices
    BY <1>h DEF DbServices, RowsOf, PresentRows
  <1>6. DbServices' = DbServices \ H
    BY <1>4 DEF DbServices
  <1>7. Marked' = Marked \ H
    <2>1. \A s \in Services : \A q \in RowsOf(s) : q \in Rows
      BY DEF RowsOf, PresentRows
    <2> QED
      BY <1>1, <1>4, <2>1 DEF Marked
  <1> QED
    BY <1>2, <1>3, <1>5, <1>6, <1>7 DEF H

\* Rows that may go, go.
LEMMA Strikes ==
  ASSUME IInv, OneRow, NEW D \in SUBSET Rows, \A r \in D : Recorded(r) /\ Excused(row[r].svc),
         Deletes(D),
         svc' = svc, lost' = lost, InHand' = InHand
  PROVE  BookStep /\ OneRow'
  <1>1. PICK H : H = HostsOf(D)
    OBVIOUS
  <1>2. /\ H \in SUBSET DbServices /\ OneRow'
        /\ Entered' = Entered /\ DbServices' = DbServices \ H /\ Marked' = Marked \ H
    <2>1. TypeOK /\ \A r \in D : Recorded(r)
      BY DEF IInv
    <2> QED
      BY <1>1, <2>1, RowsStruck
  <1>3. \A s \in H : Book!Written(s)
    <2>1. SUFFICES ASSUME NEW s \in H
                   PROVE  Book!Written(s)
      OBVIOUS
    <2>2. s \in Services /\ Born(s) /\ Excused(s)
      BY <1>1 DEF IInv, RowInv, HostsOf
    <2> QED
      BY <2>2, BookWords DEF IInv
  <1>4. Book!Strike(H)
    BY <1>2, <1>3, SwarmKept DEF Book!Strike
  <1> QED
    BY <1>2, <1>4 DEF BookStep, Book!Next

-----------------------------------------------------------------------------
(* The steps that write. *)

BookInv == OneRow /\ Asked

LEMMA DonePuts ==
  ASSUME IInv, Asked, NEW w \in Workers, Done(w)
  PROVE  /\ Asked'
         /\ job[w].op # "start" => InHand' = InHand
         /\ \A s \in Services : job[w].svc = s => InHand' \in {InHand, InHand \ {s}}
  <1>1. Put(w, IdleJob) /\ \A t \in Services : ~Claims(IdleJob, t)
    BY IdleIsNone DEF Done, Claims
  <1>2. Asked'
    BY <1>1, IdleIsNone, AskedMoves, Facts
  <1>3. job[w].op # "start" => InHand' = InHand
    BY <1>1, HandMoves, Facts DEF Claims
  <1> QED
    BY <1>2, <1>3, DoneHand

\* Where sync_to_db() returns to, the start it was part of has ended.
LEMMA BackHand ==
  ASSUME IInv, Asked, NEW w \in Workers, NEW c \in BOOLEAN, Back(w, c)
  PROVE  /\ Asked'
         /\ job[w].op # "start" => InHand' = InHand
         /\ \A s \in Services : job[w].svc = s => InHand' \in {InHand, InHand \ {s}}
  <1>1. CASE job[w].op = "start"
    BY <1>1, AtStart, DonePuts DEF Back
  <1>2. CASE job[w].op # "start"
    <2>1. PICK j : Put(w, j) /\ j.op # "start"
      BY <1>2, BackPuts
    <2> QED
      BY <1>2, <2>1, HandMoves, AskedMoves, Facts DEF Claims
  <1> QED
    BY <1>1, <1>2

\* A model for service s reaches the table.
LEMMA ModelEnters ==
  ASSUME IInv, IInv', OneRow, NEW s \in Services, Born(s), NEW m \in ModelRec,
         m.state = "mia" \/ m.app = "mia" => Missing(s),
         UNCHANGED <<svc, lost, faults>>, InHand' \in {InHand, InHand \ {s}},
         \/ \E r \in Rows : /\ Present(r) /\ row[r].svc = s
                            /\ row' = [row EXCEPT ![r] = Apply(r, m)]
         \/ RowsOf(s) = {} /\ Insert(s, m)
  PROVE  BookStep /\ OneRow'
  <1>1. CASE \E r \in Rows : /\ Present(r) /\ row[r].svc = s
                             /\ row' = [row EXCEPT ![r] = Apply(r, m)]
    <2>1. PICK r \in Rows : /\ Present(r) /\ row[r].svc = s
                            /\ row' = [row EXCEPT ![r] = Apply(r, m)]
      BY <1>1
    <2>2. PICK x \in RowRec : WritesRow(r, x) /\ x.st = "present" /\ x.svc = s
      BY <2>1, ApplyWrites DEF IInv
    <2> QED
      BY <2>1, <2>2, RowEnters
  <1>2. CASE RowsOf(s) = {} /\ Insert(s, m)
    <2>1. PICK r \in Rows : /\ row[r].st = "fresh"
                            /\ NewRow(s, m) \in RowRec /\ WritesRow(r, NewRow(s, m))
                            /\ NewRow(s, m).st = "present" /\ NewRow(s, m).svc = s
      BY <1>2, InsertWrites DEF IInv
    <2> QED
      BY <1>2, <2>1, RowEnters
  <1> QED
    BY <1>1, <1>2

LEMMA DbWriteMoves ==
  ASSUME IInv, IInv', BookInv, NEW w \in Workers, DbWrite(w)
  PROVE  BookStep /\ BookInv'
  <1>1. /\ job[w].pc = "write" /\ job[w].svc \in Services /\ Born(job[w].svc)
        /\ job[w].row \in Rows \cup {NoRow} /\ job[w].m \in ModelRec
        /\ job[w].row # NoRow => row[job[w].row].svc = job[w].svc
        /\ job[w].m.state = "mia" \/ job[w].m.app = "mia" => Missing(job[w].svc)
    BY Facts DEF DbWrite, At, JobOK, Holds, Remembers, Doomed, JobRec
  <1>2. PICK s \in Services, m \in ModelRec : s = job[w].svc /\ m = job[w].m
    BY <1>1
  <1>3. UNCHANGED <<svc, lost, faults>> /\ OneRow /\ Asked
    BY DEF DbWrite, BookInv
  <1>4. Back(w, TRUE) => Asked' /\ InHand' \in {InHand, InHand \ {s}}
    BY <1>2, <1>3, BackHand
  <1>5. CASE /\ job[w].row # NoRow /\ Present(job[w].row)
             /\ row' = [row EXCEPT ![job[w].row] = Apply(job[w].row, job[w].m)]
             /\ Back(w, TRUE)
    <2>1. \E r \in Rows : /\ Present(r) /\ row[r].svc = s
                          /\ row' = [row EXCEPT ![r] = Apply(r, m)]
      BY <1>1, <1>2, <1>5
    <2> QED
      BY <1>1, <1>2, <1>3, <1>4, <1>5, <2>1, ModelEnters DEF BookInv
  <1>6. CASE /\ job[w].row # NoRow /\ ~Present(job[w].row)
             /\ row' = row /\ Done(w)
    <2>1. row[job[w].row].st = "deleted"
      BY <1>1, <1>6, Facts DEF JobOK, Remembers, Recorded, Present, TypeOK, RowRec
    <2>2. Tracked(job[w].svc)
      BY <1>1, <1>6, <2>1, Facts DEF RowInv, Recorded, Tracked
    <2> QED
      BY <1>3, <1>6, <2>2, GivesUp, TableKept DEF BookInv, Quiet
  <1>7. CASE RowsOf(job[w].svc) = {} /\ Insert(job[w].svc, job[w].m) /\ Back(w, TRUE)
    BY <1>1, <1>2, <1>3, <1>4, <1>7, ModelEnters DEF BookInv
  <1>8. CASE RowsOf(job[w].svc) # {} /\ row' = row /\ Back(w, TRUE)
    <2>1. CASE job[w].op = "start"
      <3>1. Done(w)
        BY <1>3, <1>8, <2>1, AtStart DEF Back
      <3> QED
        BY <1>3, <1>8, <3>1, GivesUp, TableKept DEF BookInv, Quiet, Tracked
    <2>2. CASE job[w].op # "start"
      BY <1>3, <1>8, <2>2, BackMoves, TableKept DEF BookInv, Quiet, BookStep
    <2> QED
      BY <2>1, <2>2
  <1> QED
    BY <1>5, <1>6, <1>7, <1>8 DEF DbWrite

LEMMA StartCommitMoves ==
  ASSUME IInv, IInv', BookInv, NEW w \in Workers, StartCommit(w)
  PROVE  BookStep /\ BookInv'
  <1>1. /\ job[w].pc = "scommit" /\ job[w].svc \in Services /\ Born(job[w].svc)
        /\ job[w].row \in Rows \cup {NoRow} /\ job[w].m \in ModelRec
        /\ job[w].row # NoRow => row[job[w].row].svc = job[w].svc
        /\ job[w].m.state = "mia" \/ job[w].m.app = "mia" => Missing(job[w].svc)
    BY Facts DEF StartCommit, At, JobOK, Holds, Remembers, Doomed, JobRec
  <1>2. PICK s \in Services, m \in ModelRec : s = job[w].svc /\ m = job[w].m
    BY <1>1
  <1>3. UNCHANGED <<svc, lost, faults>> /\ OneRow /\ Asked /\ Done(w)
    BY DEF StartCommit, BookInv
  <1>4. Asked' /\ InHand' \in {InHand, InHand \ {s}}
    BY <1>2, <1>3, DonePuts
  <1>5. CASE /\ job[w].row # NoRow /\ Present(job[w].row)
             /\ row' = [row EXCEPT ![job[w].row] = Apply(job[w].row, job[w].m)]
    <2>1. \E r \in Rows : /\ Present(r) /\ row[r].svc = s
                          /\ row' = [row EXCEPT ![r] = Apply(r, m)]
      BY <1>1, <1>2, <1>5
    <2> QED
      BY <1>1, <1>2, <1>3, <1>4, <2>1, ModelEnters DEF BookInv
  <1>6. CASE job[w].row # NoRow /\ ~Present(job[w].row) /\ row' = row
    <2>1. row[job[w].row].st = "deleted"
      BY <1>1, <1>6, Facts DEF JobOK, Remembers, Recorded, Present, TypeOK, RowRec
    <2>2. Tracked(job[w].svc)
      BY <1>1, <1>6, <2>1, Facts DEF RowInv, Recorded, Tracked
    <2> QED
      BY <1>3, <1>6, <2>2, GivesUp, TableKept DEF BookInv, Quiet
  <1>7. CASE RowsOf(job[w].svc) = {} /\ Insert(job[w].svc, job[w].m)
    BY <1>1, <1>2, <1>3, <1>4, <1>7, ModelEnters DEF BookInv
  <1>8. CASE RowsOf(job[w].svc) # {} /\ row' = row
    BY <1>3, <1>8, GivesUp, TableKept DEF BookInv, Quiet, Tracked
  <1> QED
    BY <1>5, <1>6, <1>7, <1>8 DEF StartCommit

LEMMA SyncFlagMoves ==
  ASSUME IInv, IInv', BookInv, NEW w \in Workers, SyncFlag(w)
  PROVE  BookStep /\ BookInv'
  <1>1. /\ job[w].op # "start" /\ job[w].row \in Rows /\ ~Live(row[job[w].row].svc)
        /\ UNCHANGED <<svc, lost, faults>> /\ OneRow /\ Asked
    BY NotStarting, Facts DEF SyncFlag, At, JobOK, Holds, Doomed, JobRec, BookInv
  <1>2. PICK k \in JobRec : k = job[w]
    BY Facts
  <1>3. CASE ~Present(job[w].row)
    BY <1>1, <1>3, DoneMoves, TableKept DEF SyncFlag, Quiet, BookInv, BookStep
  <1>4. CASE Present(job[w].row)
    <2> DEFINE r == job[w].row
               x == [row[r] EXCEPT !.state = "mia", !.app = "mia"]
    <2>1. row[r] \in RowRec /\ row[r].st = "present" /\ Born(row[r].svc) /\ Missing(row[r].svc)
      BY <1>1, <1>4, Facts DEF TypeOK, Present, RowInv, Recorded, Missing
    <2>2. /\ x \in RowRec /\ x.st = "present" /\ x.svc = row[r].svc
          /\ row' = [row EXCEPT ![r] = x]
      BY <1>1, <1>4, <2>1 DEF SyncFlag, RowRec
    <2>3. WritesRow(r, x)
      BY <1>1, <2>1, <2>2, Facts DEF WritesRow, TypeOK
    <2>4. Put(w, [k EXCEPT !.pc = "mark", !.row = NoRow])
      BY <1>2, <1>4, Zenon DEF SyncFlag
    <2>5. [k EXCEPT !.pc = "mark", !.row = NoRow].op = k.op
      BY DEF JobRec
    <2>6. InHand' = InHand /\ Asked'
      BY <1>1, <1>2, <2>4, <2>5, HandMoves, AskedMoves, Facts DEF Claims
    <2> HIDE DEF x
    <2> QED
      BY <1>1, <1>4, <2>2, <2>3, <2>6, RowEnters DEF BookInv
  <1> QED
    BY <1>3, <1>4

LEMMA RowDeleteMoves ==
  ASSUME IInv, BookInv, NEW w \in Workers, RowDelete(w)
  PROVE  BookStep /\ BookInv'
  <1>1. /\ job[w].op # "start" /\ job[w].row \in Rows /\ Recorded(job[w].row)
        /\ Excused(row[job[w].row].svc) /\ svc' = svc /\ lost' = lost /\ OneRow /\ Asked
    BY NotStarting, Facts DEF RowDelete, At, JobOK, Holds, Doomed, Remembers, JobRec, BookInv
  <1>2. InHand' = InHand /\ Asked'
    BY <1>1, BackHand DEF RowDelete
  <1>3. CASE row' = [row EXCEPT ![job[w].row].st = "deleted"]
    <2> DEFINE D == {job[w].row}
    <2>1. Deletes(D)
      BY <1>1, <1>3, Facts DEF Deletes, TypeOK, RowRec
    <2>2. D \in SUBSET Rows /\ \A r \in D : Recorded(r) /\ Excused(row[r].svc)
      BY <1>1
    <2> HIDE DEF D
    <2> QED
      BY <1>1, <1>2, <2>1, <2>2, Strikes DEF BookInv
  <1>4. CASE row' = row
    BY <1>1, <1>2, <1>4, Unmoved, TableKept DEF BookInv, BookStep
  <1> QED
    BY <1>3, <1>4 DEF RowDelete

LEMMA ReapCommitMoves ==
  ASSUME IInv, BookInv, NEW w \in Workers, ReapCommit(w)
  PROVE  BookStep /\ BookInv'
  <1>1. /\ job[w].op # "start" /\ svc' = svc /\ lost' = lost /\ OneRow /\ Asked /\ Done(w)
        /\ \A e \in job[w].todoR : e.row \in Rows /\ Recorded(e.row) /\ Excused(row[e.row].svc)
    BY NotStarting, Facts
       DEF ReapCommit, At, JobOK, Doomed, Remembers, JobRec, LoadedRec, BookInv
  <1>2. InHand' = InHand /\ Asked'
    BY <1>1, DonePuts
  <1>3. PICK D : D = {r \in Rows : \E e \in job[w].todoR : e.row = r}
    OBVIOUS
  <1>4. row' = [r \in Rows |-> IF r \in D THEN [row[r] EXCEPT !.st = "deleted"] ELSE row[r]]
    BY <1>3 DEF ReapCommit
  <1>5. Deletes(D)
    BY <1>4, Facts DEF Deletes, TypeOK, RowRec
  <1>6. D \in SUBSET Rows /\ \A r \in D : Recorded(r) /\ Excused(row[r].svc)
    BY <1>1, <1>3
  <1> QED
    BY <1>1, <1>2, <1>5, <1>6, Strikes DEF BookInv

\* An admin's deletion excuses the host it strikes off.
LEMMA DeleteHostMoves ==
  ASSUME IInv, BookInv, NEW r \in Rows, DeleteHost(r)
  PROVE  BookStep /\ BookInv'
  <1>1. PICK s \in Services : s = row[r].svc
    BY Facts DEF DeleteHost, Present, IInv, RowInv, Recorded, Born
  <1>2. /\ row' = [row EXCEPT ![r].st = "deleted"] /\ lost' = lost \cup {s}
        /\ svc' = svc /\ job' = job /\ Present(r) /\ Recorded(r) /\ OneRow /\ Asked /\ TypeOK
    BY <1>1 DEF DeleteHost, BookInv, Present, Recorded, IInv
  <1>3. Deletes({r})
    BY <1>2 DEF Deletes, TypeOK, RowRec
  <1>4. HostsOf({r}) = {s}
    BY <1>1, <1>2 DEF HostsOf
  <1>5. /\ s \in DbServices /\ OneRow' /\ Entered' = Entered
        /\ DbServices' = DbServices \ {s} /\ Marked' = Marked \ {s}
    <2>1. {r} \in SUBSET Rows /\ \A q \in {r} : Recorded(q)
      BY <1>2
    <2> QED
      BY <1>2, <1>3, <1>4, <2>1, RowsStruck
  <1>6. InHand' = InHand /\ Asked'
    BY <1>2 DEF InHand, BeingRecorded, Asked
  <1>7. Book!Disown(s)
    BY <1>2, <1>5, <1>6, SwarmKept DEF Book!Disown
  <1> QED
    BY <1>5, <1>6, <1>7 DEF BookStep, Book!Next, BookInv

LEMMA LosesOne ==
  ASSUME NEW s \in Services, s \in InHand \cup Entered, svc' = svc, row' = row,
         lost' = lost \cup {s}, InHand' \in {InHand, InHand \ {s}}
  PROVE  BookStep
  <1>1. Book!Lose(s)
    BY SwarmKept, TableKept DEF Book!Lose
  <1> QED
    BY <1>1 DEF BookStep, Book!Next

LEMMA CutMoves ==
  ASSUME IInv, BookInv, NEW w \in Workers, Cut(w)
  PROVE  BookStep /\ BookInv'
  <1>1. svc' = svc /\ row' = row /\ OneRow /\ Asked
    BY DEF Cut, BookInv
  <1>2. CASE job[w].op = "start" /\ job[w].svc # NoSvc
    <2>1. PICK s \in Services : s = job[w].svc
      BY <1>2, AtStart
    <2>2. Done(w)
      BY <1>2, AtStart DEF Cut, Raise, SyncOps
    <2>3. InHand' \in {InHand, InHand \ {s}} /\ Asked'
      BY <1>1, <2>1, <2>2, DonePuts
    <2>4. s \in InHand
      BY <1>2, <2>1 DEF InHand, BeingRecorded
    <2>5. lost' = lost \cup {s}
      BY <1>2, <2>1 DEF Cut
    <2> QED
      BY <1>1, <2>3, <2>4, <2>5, LosesOne, TableKept DEF BookInv
  <1>3. CASE job[w].op = "start" /\ job[w].svc = NoSvc
    <2>1. Done(w) /\ Quiet
      BY <1>3, AtStart DEF Cut, Raise, SyncOps, Quiet
    <2> QED
      BY <1>1, <1>3, <2>1, DoneMoves, TableKept DEF BookInv, BookStep
  <1>4. CASE job[w].op # "start"
    <2>1. Quiet
      BY <1>4 DEF Cut, Quiet
    <2> QED
      BY <1>1, <1>4, <2>1, DoneMoves, BackMoves, TableKept DEF Cut, Raise, BookInv, BookStep
  <1> QED
    BY <1>2, <1>3, <1>4

\* A service is taken out of Swarm, unless it was gone already.
LEMMA ServiceGone ==
  ASSUME TypeOK, OneRow, NEW s \in Services, Born(s), Removes(s), InHand' = InHand
  PROVE  BookStep /\ OneRow'
  <1> DEFINE x == [svc[s] EXCEPT !.st = "gone", !.task = "none", !.stale = FALSE]
  <1>1. /\ x.st = "gone" /\ x.stale = FALSE /\ x.owner = svc[s].owner
        /\ svc' = [svc EXCEPT ![s] = x] /\ row' = row /\ lost' = lost
    BY DEF Removes, TypeOK, SvcRec
  <1> HIDE DEF x
  <1>2. /\ svc'[s] = x /\ \A t \in Services : t # s => svc'[t] = svc[t]
    BY <1>1 DEF TypeOK
  <1>3. [t \in Services |-> svc[t].owner]' = [t \in Services |-> svc[t].owner]
    BY <1>1, <1>2
  <1>4. [t \in Services |-> Fate(t)]' = [[t \in Services |-> Fate(t)] EXCEPT ![s] = "gone"]
    <2>1. \A t \in Services : Fate(t)' = IF t = s THEN "gone" ELSE Fate(t)
      BY <1>1, <1>2 DEF Fate, Live
    <2> QED
      BY <2>1, Zenon
  <1>5. CASE Live(s)
    <2>1. Book!Running(s)
      BY <1>5, FateOf DEF Book!Running
    <2>2. Book!TakeDown(s)
      BY <1>1, <1>3, <1>4, <2>1, TableKept DEF Book!TakeDown
    <2> QED
      BY <1>1, <2>2, TableKept DEF BookStep, Book!Next
  <1>6. CASE ~Live(s)
    <2>1. Fate(s) = "gone"
      BY <1>6 DEF Fate, Live, Born, TypeOK, SvcRec
    <2>2. [t \in Services |-> Fate(t)]' = [t \in Services |-> Fate(t)]
      BY <1>4, <2>1
    <2> QED
      BY <1>1, <1>3, <2>2, TableKept DEF BookStep, Book!vars
  <1> QED
    BY <1>5, <1>6

LEMMA StopServiceMoves ==
  ASSUME IInv, BookInv, NEW w \in Workers, StopService(w)
  PROVE  BookStep /\ BookInv'
  <1>0. PICK k \in JobRec : k = job[w]
    BY Facts
  <1>1. /\ k.op # "start" /\ k.row \in Rows /\ Recorded(k.row)
        /\ row[k.row].svc = k.svc /\ row' = row /\ OneRow /\ Asked /\ TypeOK
    BY <1>0, NotStarting, Facts, HostsAssumption
       DEF StopService, At, JobOK, Holds, Remembers, JobRec, BookInv
  <1>2. PICK s \in Services : s = k.svc /\ Born(s)
    BY <1>1, Facts DEF RowInv, Born
  <1>3. InHand' = InHand /\ Asked'
    <2>1. Put(w, [k EXCEPT !.pc = "rowdel"])
      BY <1>0, Zenon DEF StopService, Goto
    <2>2. [k EXCEPT !.pc = "rowdel"].op = k.op
      BY DEF JobRec
    <2> QED
      BY <1>0, <1>1, <2>1, <2>2, HandMoves, AskedMoves DEF Claims
  <1>4. s \in Entered
    BY <1>1, <1>2 DEF Entered, Recorded
  <1>5. CASE Removes(s)
    BY <1>1, <1>2, <1>3, <1>5, ServiceGone DEF BookInv
  <1>6. CASE lost' = lost \cup {s} /\ svc' = svc
    BY <1>1, <1>3, <1>4, <1>6, LosesOne, TableKept DEF BookInv
  <1> QED
    BY <1>0, <1>2, <1>5, <1>6 DEF StopService, Removes

LEMMA StopBareMoves ==
  ASSUME IInv, BookInv, NEW w \in Workers, StopBare(w)
  PROVE  BookStep /\ BookInv'
  <1>1. /\ job[w].pc = "bare" /\ job[w].op # "start" /\ row' = row /\ lost' = lost
        /\ OneRow /\ Asked /\ TypeOK /\ Back(w, FALSE)
    BY NotStarting, Facts DEF StopBare, At, BookInv
  <1>2. PICK s \in Services : s = job[w].svc /\ Born(s)
    BY <1>1, Facts DEF JobOK, Holds, Remembers, Born
  <1>3. InHand' = InHand /\ Asked'
    BY <1>1, BackHand
  <1>4. CASE Removes(s)
    BY <1>1, <1>2, <1>3, <1>4, ServiceGone DEF BookInv
  <1>5. CASE svc' = svc
    BY <1>1, <1>3, <1>5, Unmoved, TableKept DEF BookStep, BookInv
  <1> QED
    BY <1>1, <1>2, <1>4, <1>5 DEF StopBare, Removes

\* A service that has yet to be created has not lost a node.
Unaged == \A s \in Services : svc[s].st = "unborn" => ~svc[s].stale

LEMMA StartCreateMoves ==
  ASSUME IInv, BookInv, Unaged, NEW w \in Workers, StartCreate(w)
  PROVE  BookStep /\ BookInv'
  <1>0. PICK k \in JobRec : k = job[w]
    BY Facts
  <1>1. /\ k.op = "start" /\ k.svc = NoSvc /\ k.user \in Users
        /\ row' = row /\ lost' = lost /\ OneRow /\ Asked /\ TypeOK
    BY <1>0, Facts DEF StartCreate, At, JobOK, Starting, StartPcs, BookInv, Asked
  <1>2. CASE Goto(w, "conflict") /\ svc' = svc
    <2>1. Put(w, [k EXCEPT !.pc = "conflict"])
      BY <1>0, <1>2, Zenon DEF Goto
    <2>2. /\ [k EXCEPT !.pc = "conflict"].op = k.op /\ [k EXCEPT !.pc = "conflict"].svc = k.svc
          /\ [k EXCEPT !.pc = "conflict"].user = k.user
      BY DEF JobRec
    <2> QED
      BY <1>0, <1>1, <1>2, <2>1, <2>2, Carries, TableKept DEF BookInv, BookStep, Quiet
  <1>3. CASE Named(job[w].user) = {}
    <2>1. PICK s \in Services :
            /\ svc[s].st = "unborn"
            /\ svc' = [svc EXCEPT ![s].st = "live", ![s].owner = k.user]
            /\ Put(w, [k EXCEPT !.pc = "smodel", !.svc = s])
      BY <1>0, <1>3 DEF StartCreate
    <2> DEFINE x == [svc[s] EXCEPT !.st = "live", !.owner = k.user]
    <2>2. /\ x.st = "live" /\ x.owner = k.user /\ x.stale = svc[s].stale
          /\ svc' = [svc EXCEPT ![s] = x]
      BY <1>1, <2>1 DEF TypeOK, SvcRec
    <2> HIDE DEF x
    <2>3. /\ svc'[s] = x /\ \A t \in Services : t # s => svc'[t] = svc[t]
      BY <1>1, <2>2 DEF TypeOK
    <2>4. [t \in Services |-> svc[t].owner]' = [[t \in Services |-> svc[t].owner] EXCEPT ![s] = k.user]
      <3>1. \A t \in Services : svc'[t].owner = IF t = s THEN k.user ELSE svc[t].owner
        BY <2>2, <2>3
      <3> QED
        BY <3>1, Zenon
    <2>5. ~svc[s].stale
      BY <2>1 DEF Unaged
    <2>6. [t \in Services |-> Fate(t)]' = [[t \in Services |-> Fate(t)] EXCEPT ![s] = "up"]
      <3>1. \A t \in Services : Fate(t)' = IF t = s THEN "up" ELSE Fate(t)
        BY <2>2, <2>3, <2>5 DEF Fate, Live
      <3> QED
        BY <3>1, Zenon
    <2>7. Fate(s) = "unborn"
      BY <2>1 DEF Fate, Live
    <2>8. \A t \in Services : Book!Running(t) => svc[t].owner # k.user
      BY <1>0, <1>1, <1>3, FateOf DEF Book!Running, Named, LiveServices
    <2>9. /\ [k EXCEPT !.pc = "smodel", !.svc = s].op = k.op
          /\ [k EXCEPT !.pc = "smodel", !.svc = s].svc = s
          /\ [k EXCEPT !.pc = "smodel", !.svc = s].user = k.user
      BY DEF JobRec
    <2>10. PICK j : Put(w, j) /\ j.op = "start" /\ j.svc = s /\ j.user = k.user
      BY <1>1, <2>1, <2>9
    <2>11. /\ \A t \in Services : ~Claims(k, t)
           /\ \A t \in Services : Claims(j, t) <=> t = s
      BY <1>1, <2>10, HostsAssumption DEF Claims
    <2>12. InHand' = InHand \cup {s} /\ Asked'
      BY <1>0, <1>1, <2>10, <2>11, HandMoves, AskedMoves
    <2>13. Book!Start(s, k.user)
      BY <1>1, <2>4, <2>6, <2>7, <2>8, <2>12, TableKept DEF Book!Start
    <2> QED
      BY <1>1, <2>12, <2>13, TableKept DEF BookStep, Book!Next, BookInv
  <1> QED
    BY <1>2, <1>3 DEF StartCreate

LEMMA SwarmMoves ==
  ASSUME IInv, BookInv, NEW s \in Services, Swarm(s)
  PROVE  BookStep /\ BookInv'
  <1>1. svc[s] \in SvcRec /\ TypeOK /\ OneRow /\ Asked /\ UNCHANGED <<row, job, lost, faults>>
    BY DEF IInv, TypeOK, BookInv, Swarm, TaskStarts, NodeReachable, NodeUnreachable, NodeRemoved
  <1>2. PICK x \in SvcRec :
          /\ svc' = [svc EXCEPT ![s] = x] /\ x.st = svc[s].st /\ x.owner = svc[s].owner
          /\ x.stale = svc[s].stale \/ (Live(s) /\ x.stale)
    <2>1. CASE TaskStarts(s) \/ NodeReachable(s) \/ NodeUnreachable(s)
      <3>1. PICK t \in {"running", "unreach"} : svc' = [svc EXCEPT ![s].task = t]
        BY <2>1 DEF TaskStarts, NodeReachable, NodeUnreachable
      <3> DEFINE x == [svc[s] EXCEPT !.task = t]
      <3>2. /\ x \in SvcRec /\ x.st = svc[s].st /\ x.owner = svc[s].owner
            /\ x.stale = svc[s].stale
        BY <1>1 DEF SvcRec
      <3>3. svc' = [svc EXCEPT ![s] = x]
        BY <3>1
      <3> HIDE DEF x
      <3> QED
        BY <3>2, <3>3
    <2>2. CASE NodeRemoved(s)
      <3> DEFINE x == [svc[s] EXCEPT !.task = "none", !.stale = TRUE]
      <3>1. x \in SvcRec /\ x.st = svc[s].st /\ x.owner = svc[s].owner /\ x.stale
        BY <1>1 DEF SvcRec
      <3>2. svc' = [svc EXCEPT ![s] = x] /\ Live(s)
        BY <1>1, <2>2 DEF NodeRemoved, TypeOK, SvcRec
      <3> HIDE DEF x
      <3> QED
        BY <3>1, <3>2
    <2> QED
      BY <2>1, <2>2 DEF Swarm
  <1>3. svc'[s] = x /\ \A t \in Services : t # s => svc'[t] = svc[t]
    BY <1>1, <1>2 DEF TypeOK
  <1>4. [t \in Services |-> svc[t].owner]' = [t \in Services |-> svc[t].owner]
    BY <1>2, <1>3
  <1>5. InHand' = InHand /\ Asked' /\ OneRow'
    BY <1>1, TableKept DEF InHand, BeingRecorded, Asked
  <1>6. CASE x.stale = svc[s].stale
    <2>1. [t \in Services |-> Fate(t)]' = [t \in Services |-> Fate(t)]
      BY <1>2, <1>3, <1>6 DEF Fate, Live
    <2> QED
      BY <1>1, <1>4, <1>5, <2>1, TableKept DEF BookStep, Book!vars, BookInv
  <1>7. CASE x.stale # svc[s].stale
    <2>1. Live(s) /\ x.stale /\ ~svc[s].stale
      BY <1>1, <1>2, <1>7 DEF SvcRec
    <2>2. [t \in Services |-> Fate(t)]' = [[t \in Services |-> Fate(t)] EXCEPT ![s] = "adrift"]
      <3>1. \A t \in Services : Fate(t)' = IF t = s THEN "adrift" ELSE Fate(t)
        BY <1>2, <1>3, <2>1 DEF Fate, Live
      <3> QED
        BY <3>1, Zenon
    <2>3. Fate(s) = "up"
      BY <2>1 DEF Fate
    <2>4. Book!SetAdrift(s)
      BY <1>1, <1>4, <1>5, <2>2, <2>3, TableKept DEF Book!SetAdrift
    <2> QED
      BY <1>5, <2>4 DEF BookStep, Book!Next, BookInv
  <1> QED
    BY <1>6, <1>7

LEMMA UnagedKept ==
  ASSUME IInv, Unaged, [Next]_vars
  PROVE  Unaged'
  <1>0. svc \in [Services -> SvcRec]
    BY DEF IInv, TypeOK
  <1>1. CASE svc' = svc
    BY <1>1 DEF Unaged
  <1>2. ASSUME NEW w \in Workers, StopService(w), svc' # svc
        PROVE  Unaged'
    BY <1>0, <1>2 DEF StopService, Unaged, SvcRec
  <1>3. ASSUME NEW w \in Workers, StartCreate(w), svc' # svc
        PROVE  Unaged'
    BY <1>0, <1>3, ZenonT(30) DEF StartCreate, Unaged, SvcRec
  <1>4. ASSUME NEW s \in Services, Swarm(s)
        PROVE  Unaged'
    BY <1>0, <1>4
       DEF Swarm, TaskStarts, NodeReachable, NodeUnreachable, NodeRemoved, Live, SvcRec, Unaged
  <1>5. ASSUME NEW w \in Workers, StopBare(w)
        PROVE  Unaged'
    BY <1>0, <1>5 DEF StopBare, Unaged, SvcRec
  <1> QED
    BY <1>1, <1>2, <1>3, <1>4, <1>5, SwarmChanges

-----------------------------------------------------------------------------
(* The refinement. *)

LEMMA BookInit ==
  ASSUME Init
  PROVE  Book!Init /\ BookInv /\ Unaged
  <1>1. /\ \A s \in Services : Fate(s) = "unborn" /\ svc[s].owner = NoUser
        /\ \A r \in Rows : ~Present(r) /\ row[r].st = "fresh"
        /\ \A w \in Workers : job[w].op = "none"
        /\ lost = {}
    BY DEF Init, Fate, Live, Present, IdleJob
  <1>2. Entered = {} /\ DbServices = {} /\ Marked = {} /\ InHand = {}
    BY <1>1 DEF Entered, DbServices, Marked, InHand, BeingRecorded, RowsOf, PresentRows
  <1>3. /\ [s \in Services |-> Fate(s)] = [s \in Services |-> "unborn"]
        /\ [s \in Services |-> svc[s].owner] = [s \in Services |-> NoUser]
    BY <1>1, Zenon
  <1>4. BookInv /\ Unaged
    BY <1>1 DEF BookInv, OneRow, Asked, PresentRows, Unaged, Init
  <1> QED
    BY <1>1, <1>2, <1>3, <1>4 DEF Book!Init

\* Every step of the system is a step of the book, or none.
LEMMA BookNext ==
  ASSUME IInv, IInv', BookInv, Unaged, [Next]_vars
  PROVE  BookStep /\ BookInv'
  <1>0. OneRow /\ Asked
    BY DEF BookInv
  <1>1. ASSUME NEW w \in Workers, Request(w) \/ BeginSync(w)
        PROVE  BookStep /\ BookInv'
    <2>1. row' = row
      BY <1>1 DEF Request, BeginSync, StartClass, StopHost, OpenHost, IsReady, BeginLs, RemoveAll,
                  HostStop, HostStopAll
    <2> QED
      BY <1>0, <1>1, <2>1, RequestMoves, TableKept DEF BookStep, BookInv
  <1>2. ASSUME NEW w \in Workers,
               \/ SyncRead(w) \/ SyncMark(w) \/ SyncNotReady(w) \/ SyncRow(w) \/ SyncNotInDb(w)
               \/ SyncService(w) \/ SyncEnd(w) \/ Settle(w) \/ Victim(w) \/ OpenGet(w)
               \/ CheckReady(w) \/ HostStopGet(w) \/ HostStopEach(w)
        PROVE  BookStep /\ BookInv'
    <2>1. row' = row
      BY <1>2 DEF SyncRead, SyncMark, SyncNotReady, SyncRow, SyncNotInDb, SyncService, SyncEnd,
                  Settle, Victim, OpenGet, CheckReady, HostStopGet, HostStopEach
    <2> QED
      BY <1>0, <1>2, <2>1, SyncMoves, TableKept DEF BookStep, BookInv
  <1>3. ASSUME NEW w \in Workers,
               \/ StartLookup(w) \/ StartExisting(w) \/ StartConflict(w) \/ StartModel(w)
               \/ StartFind(w) \/ DbQuery(w) \/ DbModel(w)
        PROVE  BookStep /\ BookInv'
    <2>1. row' = row
      BY <1>3 DEF StartLookup, StartExisting, StartConflict, StartModel, StartFind, DbQuery, DbModel
    <2> QED
      BY <1>0, <1>3, <2>1, StartMoves, DbQueryMoves, DbModelMoves, TableKept DEF BookInv
  <1>4. ASSUME NEW w \in Workers,
               \/ DbWrite(w) \/ StartCommit(w) \/ SyncFlag(w) \/ RowDelete(w) \/ ReapCommit(w)
               \/ StopService(w) \/ StartCreate(w) \/ StopBare(w) \/ Cut(w)
        PROVE  BookStep /\ BookInv'
    BY <1>4, DbWriteMoves, StartCommitMoves, SyncFlagMoves, RowDeleteMoves, ReapCommitMoves,
       StopServiceMoves, StopBareMoves, StartCreateMoves, CutMoves
  <1>5. ASSUME NEW s \in Services, Swarm(s)
        PROVE  BookStep /\ BookInv'
    BY <1>5, SwarmMoves
  <1>6. ASSUME NEW r \in Rows, DeleteHost(r)
        PROVE  BookStep /\ BookInv'
    BY <1>6, DeleteHostMoves
  <1>7. CASE UNCHANGED vars
    <2>1. UNCHANGED <<svc, row, lost>> /\ InHand' = InHand /\ Asked'
      BY <1>0, <1>7 DEF vars, InHand, BeingRecorded, Asked
    <2> QED
      BY <1>0, <2>1, Unmoved, TableKept DEF BookStep, BookInv
  <1> QED
    BY <1>1, <1>2, <1>3, <1>4, <1>5, <1>6, <1>7 DEF Next, Step

\* However starts, stops, sync passes, reaps, purges, crashes and Swarm events
\* interleave, what they do to the table and to the services is what the book of
\* hosts allows.
THEOREM ImplementsBook == Spec => KeepsBook
  <1>1. Init => Book!Init /\ BookInv /\ Unaged
    BY BookInit
  <1>2. IInv /\ IInv' /\ BookInv /\ Unaged /\ [Next]_vars =>
          [Book!Next]_(Book!vars) /\ BookInv' /\ Unaged'
    BY BookNext, UnagedKept DEF BookStep
  <1> QED
    BY <1>1, <1>2, Inductive, PTL DEF Spec, KeepsBook, Book!Spec
=============================================================================
