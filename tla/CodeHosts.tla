------------------------------ MODULE CodeHosts ------------------------------
(***************************************************************************)
(* The code-host registry: CodeServerManager (cs_docker/csmanager.py), the  *)
(* routes and CLI commands that call it, the `code_host` table, and the     *)
(* Docker Swarm services the table mirrors.                                 *)
(*                                                                          *)
(* A worker is one request, CLI command or cron job: a single Python thread *)
(* with its own SQLAlchemy session.  Between two calls to Docker or to the  *)
(* database any other worker may run, so every such call is one action, and *)
(* what the handler holds in between are the fields of job[w].              *)
(*                                                                          *)
(* User.clean_username makes every username a slug, so the slugify() calls  *)
(* of define_cs_container and get_by_username change nothing: a service's   *)
(* name and its username label are its owner's username, and "the service   *)
(* named u" is "the live service owned by u".                               *)
(***************************************************************************)
EXTENDS Integers, FiniteSets

CONSTANTS
  Users,      \* accounts that start hosts
  Services,   \* Swarm service ids, each used once: the bound on creations
  Rows,       \* primary keys of code_host, each used once: the bound on inserts
  Workers,    \* concurrent requests, commands and cron jobs
  Sweepers,   \* the workers that only ever run sync passes (a cron'd dbsync)
  NoUser, NoSvc, NoRow,
  Kinds,      \* the requests, commands and Swarm events that may happen
  MaxFaults   \* the bound on Docker/DB failures and killed workers

SyncOps == {"sync", "converge", "reap", "purge"}
Ops == SyncOps \cup {"none", "start", "stop", "open", "ready", "ls", "removeall", "hoststop", "stopall"}
AllKinds == Ops \cup {"delete", "unreach", "noderm"}

ASSUME HostsAssumption ==
  /\ Sweepers \subseteq Workers
  /\ MaxFaults \in Nat
  /\ Kinds \subseteq AllKinds
  /\ NoUser \notin Users
  /\ NoSvc \notin Services
  /\ NoRow \notin Rows

VARIABLES
  svc,        \* Swarm: the services and what their tasks look like
  row,        \* the code_host table
  job,        \* what each worker is doing
  lost,       \* history: services whose removal failed or whose start was cut off
  faults      \* failures so far

vars == <<svc, row, job, lost, faults>>

-----------------------------------------------------------------------------
(* Types. *)

\* A service's current task: none with a container yet, one on a node that
\* answers, one on a node the SSH tunnel cannot reach.  `stale` is set when a
\* task Swarm still lists ran on a node that has been removed from the Swarm.
SvcRec == [st: {"unborn", "live", "gone"}, owner: Users \cup {NoUser},
           task: {"none", "running", "unreach"}, stale: BOOLEAN]

\* state: "pending" stands for every Docker state but running.
\* app: "unknown" is the column default.
RowRec == [st: {"fresh", "present", "deleted"}, svc: Services \cup {NoSvc},
           user: Users \cup {NoUser}, state: {"pending", "running", "mia"},
           app: {"unknown", "ready", "mia"}]

\* What to_model() computed; app "keep" when app_state is not in its kwargs.
ModelRec == [state: {"pending", "running", "mia"}, app: {"keep", "ready", "mia"}]

\* An ORM object loaded by a query: its key and what the loop's own MIA test
\* said then (the service_id of a row never changes).
LoadedRec == [row: Rows, mia: BOOLEAN]

StartPcs == {"lookup", "existing", "create", "conflict", "smodel", "sfind", "scommit"}
SyncPcs  == {"read1", "read2", "mark", "flag", "rows", "services", "settle",
             "reapread", "reapdel"}
Pcs == StartPcs \cup SyncPcs \cup {"idle", "query", "model", "write", "remove",
         "rowdel", "get", "recheck", "victims", "byname", "each", "bare"}

JobRec == [op: Ops, pc: Pcs, ret: {"idle", "rows", "services", "recheck", "victims", "each"},
           user: Users \cup {NoUser}, svc: Services \cup {NoSvc},
           row: Rows \cup {NoRow}, m: ModelRec, check: BOOLEAN, expired: BOOLEAN,
           inDb: SUBSET Services, notInDb: SUBSET Services,
           todoS: SUBSET Services, todoR: SUBSET LoadedRec]

TypeOK ==
  /\ svc \in [Services -> SvcRec]
  /\ row \in [Rows -> RowRec]
  /\ job \in [Workers -> JobRec]
  /\ lost \subseteq Services
  /\ faults \in 0 .. MaxFaults

NoModel == [state |-> "pending", app |-> "keep"]

IdleJob == [op |-> "none", pc |-> "idle", ret |-> "idle", user |-> NoUser,
            svc |-> NoSvc, row |-> NoRow, m |-> NoModel, check |-> FALSE,
            expired |-> FALSE, inDb |-> {}, notInDb |-> {}, todoS |-> {}, todoR |-> {}]

Init ==
  /\ svc = [s \in Services |->
              [st |-> "unborn", owner |-> NoUser, task |-> "none", stale |-> FALSE]]
  /\ row = [r \in Rows |-> [st |-> "fresh", svc |-> NoSvc, user |-> NoUser,
                            state |-> "pending", app |-> "unknown"]]
  /\ job = [w \in Workers |-> IdleJob]
  /\ lost = {}
  /\ faults = 0

-----------------------------------------------------------------------------
(* Reading Swarm and the table. *)

Live(s) == svc[s].st = "live"
LiveServices == {s \in Services : Live(s)}

Present(r) == row[r].st = "present"
PresentRows == {r \in Rows : Present(r)}
RowsOf(s) == {r \in PresentRows : row[r].svc = s}
DbServices == {s \in Services : RowsOf(s) # {}}

\* CodeHost.is_mia
IsMia(r) == row[r].state = "mia" \/ row[r].app = "mia"

\* The query sync() makes for the hosts it re-reads, and its test of those it
\* skips: of the state alone.
NotReady(r) == row[r].state # "running" \/ row[r].app # "ready"
StateMia(r) == row[r].state = "mia"

\* unsettled_hosts()
Unsettled == {r \in PresentRows : ~IsMia(r) /\ row[r].app # "ready"}

Load(R) == {[row |-> r, mia |-> IsMia(r)] : r \in R}
LoadNotReady == {[row |-> r, mia |-> StateMia(r)] : r \in {q \in PresentRows : NotReady(q)}}

\* Service.status: the state of the first container-bearing task.  When the
\* only such task ran on a removed node, it is whatever Swarm last recorded.
Status(s) ==
  CASE svc[s].task # "none" -> {"running"}
    [] svc[s].task = "none" /\ svc[s].stale -> {"running", "pending"}
    [] OTHER -> {"pending"}

\* is_ready: an HTTP probe of the public URL, which can only succeed when
\* some container serves it.
Answers(s) == IF svc[s].task = "none" THEN {FALSE} ELSE BOOLEAN

\* Mutant: whatever has no container the code can reach is taken for MIA.
ModelsHasty(s, check) ==
  LET mia == svc[s].task # "running"
  IN  {[state |-> IF mia THEN "mia" ELSE st,
        app   |-> IF check /\ ok THEN "ready" ELSE IF mia THEN "mia" ELSE "keep"]
         : st \in Status(s), ok \in Answers(s)}

\* to_model(), then sync_to_db()'s readiness override.  The container is found
\* only through its node; with none found, a task on a removed node means MIA.
Models(s, check) ==
  LET mia == svc[s].task # "running" /\ svc[s].stale
  IN  {[state |-> IF mia THEN "mia" ELSE st,
        app   |-> IF check /\ ok THEN "ready" ELSE IF mia THEN "mia" ELSE "keep"]
         : st \in Status(s), ok \in Answers(s)}

-----------------------------------------------------------------------------
(* Writing the table. *)

Apply(r, m) == [row[r] EXCEPT !.state = m.state,
                              !.app = IF m.app = "keep" THEN @ ELSE m.app]

\* Mutant: the column default of app_state is lost.
NewRowNoDefault(s, m) == [st |-> "present", svc |-> s, user |-> svc[s].owner,
                          state |-> m.state, app |-> m.app]

NewRow(s, m) == [st |-> "present", svc |-> s, user |-> svc[s].owner, state |-> m.state,
                 app |-> IF m.app = "keep" THEN "unknown" ELSE m.app]

\* The key of a new row is the next of its sequence.
FreshRows == {r \in Rows : row[r].st = "fresh"}
NextRow == CHOOSE r \in FreshRows : TRUE

Insert(s, m) ==
  /\ FreshRows # {}
  /\ row' = [row EXCEPT ![NextRow] = NewRow(s, m)]

\* query.filter_by(service_id=s).first(): a matching row, or none.
FirstOf(R) == IF R = {} THEN {NoRow} ELSE R

-----------------------------------------------------------------------------
(* Moving a worker. *)

Put(w, j) == job' = [job EXCEPT ![w] = j]
Idle(w) == job[w].pc = "idle"
At(w, pc) == job[w].pc = pc
Goto(w, pc) == Put(w, [job[w] EXCEPT !.pc = pc])
Done(w) == Put(w, IdleJob)

\* Return from a subroutine to job[w].ret, its own locals cleared.
Back(w, committed) ==
  LET j == job[w]
      kept == IF j.ret = "recheck" THEN j.svc ELSE NoSvc
  IN  IF j.ret = "idle" THEN Done(w)
      ELSE Put(w, [j EXCEPT !.pc = j.ret, !.ret = "idle", !.m = NoModel, !.row = NoRow,
                            !.svc = kept, !.expired = @ \/ committed])

\* An exception: sync() swallows it and takes the next host, others end in it.
Raise(w) == IF job[w].op \in SyncOps THEN Back(w, FALSE) ELSE Done(w)

\* sync_to_db() called on service s, to come back at ret.
CallSyncToDb(w, s, check, ret) ==
  [job[w] EXCEPT !.pc = "query", !.svc = s, !.check = check, !.ret = ret]

Fault == faults < MaxFaults /\ faults' = faults + 1

-----------------------------------------------------------------------------
(* CSMService.sync_to_db(): query, to_model, commit. *)

DbQuery(w) ==
  /\ At(w, "query")
  /\ \E r \in FirstOf(RowsOf(job[w].svc)) :
       Put(w, [job[w] EXCEPT !.pc = "model", !.row = r])
  /\ UNCHANGED <<svc, row, lost, faults>>

\* A removed service has no tasks to list: NotFound leaves to_model().
DbModel(w) ==
  /\ At(w, "model")
  /\ IF Live(job[w].svc)
     THEN \E m \in Models(job[w].svc, job[w].check) :
            Put(w, [job[w] EXCEPT !.pc = "write", !.m = m])
     ELSE Raise(w)
  /\ UNCHANGED <<svc, row, lost, faults>>

\* An update of a row deleted meanwhile is a StaleDataError that leaves the
\* session unusable, which ends the caller; a duplicate insert is rolled back.
DbWrite(w) ==
  /\ At(w, "write")
  /\ LET r == job[w].row  s == job[w].svc IN
     \/ /\ r # NoRow /\ Present(r)
        /\ row' = [row EXCEPT ![r] = Apply(r, job[w].m)]
        /\ Back(w, TRUE)
     \/ /\ r # NoRow /\ ~Present(r)
        /\ row' = row
        /\ Done(w)
     \/ /\ r = NoRow /\ RowsOf(s) = {}
        /\ Insert(s, job[w].m)
        /\ Back(w, TRUE)
     \/ /\ r = NoRow /\ RowsOf(s) # {}
        /\ row' = row
        /\ Back(w, TRUE)
  /\ UNCHANGED <<svc, lost, faults>>

-----------------------------------------------------------------------------
(* Starting a host: start_class(), then CodeServerManager.new_cs(). *)

Begin(w, j) ==
  /\ Idle(w) /\ w \notin Sweepers /\ j.op \in Kinds
  /\ Put(w, j)

\* start_class refuses a user who has a row; such a request changes nothing.
StartClass(w) ==
  /\ \E u \in Users :
       /\ \A r \in PresentRows : row[r].user # u
       /\ Begin(w, [IdleJob EXCEPT !.op = "start", !.pc = "lookup", !.user = u])
  /\ UNCHANGED <<svc, row, lost, faults>>

Named(u) == {s \in LiveServices : svc[s].owner = u}

\* get_by_username: an unrecorded live service is recorded, not recreated.
StartLookup(w) ==
  /\ At(w, "lookup")
  /\ IF Named(job[w].user) # {}
     THEN \E s \in Named(job[w].user) :
            Put(w, CallSyncToDb(w, s, TRUE, "idle"))
     ELSE Goto(w, "existing")
  /\ UNCHANGED <<svc, row, lost, faults>>

\* A row of that service name ends new_cs with that row.
StartExisting(w) ==
  /\ At(w, "existing")
  /\ IF \E r \in PresentRows : row[r].user = job[w].user
     THEN Done(w) ELSE Goto(w, "create")
  /\ UNCHANGED <<svc, row, lost, faults>>

\* run(): Swarm answers 409 when the name is taken.
StartCreate(w) ==
  /\ At(w, "create")
  /\ IF Named(job[w].user) # {}
     THEN Goto(w, "conflict") /\ svc' = svc
     ELSE \E s \in Services :
            /\ svc[s].st = "unborn"
            /\ svc' = [svc EXCEPT ![s].st = "live", ![s].owner = job[w].user]
            /\ Put(w, [job[w] EXCEPT !.pc = "smodel", !.svc = s])
  /\ UNCHANGED <<row, lost, faults>>

\* _get_by_username_raw: the service that won may be gone again.
StartConflict(w) ==
  /\ At(w, "conflict")
  /\ IF Named(job[w].user) # {}
     THEN \E s \in Named(job[w].user) :
            Put(w, [job[w] EXCEPT !.pc = "smodel", !.svc = s])
     ELSE Done(w)
  /\ UNCHANGED <<svc, row, lost, faults>>

\* to_model(no_container=True) reads only the status.
StartModel(w) ==
  /\ At(w, "smodel")
  /\ IF Live(job[w].svc)
     THEN \E st \in Status(job[w].svc) :
            Put(w, [job[w] EXCEPT !.pc = "sfind", !.m = [state |-> st, app |-> "keep"]])
     ELSE Done(w)
  /\ UNCHANGED <<svc, row, lost, faults>>

StartFind(w) ==
  /\ At(w, "sfind")
  /\ \E r \in FirstOf(RowsOf(job[w].svc)) :
       Put(w, [job[w] EXCEPT !.pc = "scommit", !.row = r])
  /\ UNCHANGED <<svc, row, lost, faults>>

\* The reused row, or a new one.  A stale update and a duplicate service_id
\* both leave new_cs as exceptions and change nothing.
StartCommit(w) ==
  /\ At(w, "scommit")
  /\ LET r == job[w].row  s == job[w].svc IN
     \/ /\ r # NoRow /\ Present(r)
        /\ row' = [row EXCEPT ![r] = Apply(r, job[w].m)]
     \/ /\ r # NoRow /\ ~Present(r)
        /\ row' = row
     \/ /\ r = NoRow /\ RowsOf(s) = {}
        /\ Insert(s, job[w].m)
     \/ /\ r = NoRow /\ RowsOf(s) # {}
        /\ row' = row
  /\ Done(w)
  /\ UNCHANGED <<svc, lost, faults>>

-----------------------------------------------------------------------------
(* Stopping: stop_host(), reached from the stop routes, remove_students, the *)
(* purge, the shutdown and `host stop`, which also stops services without a  *)
(* row.  The push of the student's repository touches none of this state and *)
(* never prevents the rest.                                                  *)

\* The row is loaded once; the service id it held then is the one removed.
StopHost(w) ==
  /\ \E r \in PresentRows :
       Begin(w, [IdleJob EXCEPT !.op = "stop", !.pc = "remove", !.row = r,
                                !.svc = row[r].svc])
  /\ UNCHANGED <<svc, row, lost, faults>>

\* Mutant: the service is looked up by name, as stop_cs() does.
StopServiceByName(w) ==
  /\ At(w, "remove")
  /\ Goto(w, "rowdel")
  /\ svc' = [s \in Services |-> IF Live(s) /\ svc[s].owner = row[job[w].row].user
                                THEN [svc[s] EXCEPT !.st = "gone"] ELSE svc[s]]
  /\ UNCHANGED <<row, lost, faults>>

\* Mutant: the service is looked up and not removed.
StopServiceForgotten(w) ==
  /\ At(w, "remove")
  /\ Goto(w, "rowdel")
  /\ UNCHANGED <<svc, row, lost, faults>>

\* self.get() and service.stop(): a service already gone counts as stopped.
\* A failure is recorded in the StopResult and the row goes all the same.
StopService(w) ==
  /\ At(w, "remove")
  /\ Goto(w, "rowdel")
  /\ \/ /\ svc' = [svc EXCEPT ![job[w].svc].st = "gone", ![job[w].svc].task = "none",
                              ![job[w].svc].stale = FALSE]
        /\ UNCHANGED <<lost, faults>>
     \/ /\ Live(job[w].svc)
        /\ lost' = lost \cup {job[w].svc}
        /\ Fault
        /\ svc' = svc
  /\ row' = row

\* DELETE by primary key.  A row already deleted is only a warning; a failed
\* commit is rolled back and the row stays.
RowDelete(w) ==
  /\ At(w, "rowdel")
  /\ Back(w, TRUE)
  /\ \/ /\ row' = [row EXCEPT ![job[w].row].st = "deleted"]
        /\ faults' = faults
     \/ /\ row' = row
        /\ Fault
  /\ UNCHANGED <<svc, lost>>

\* `host stop NAME`: with a row of that name it is a StopHost.
HostStop(w) ==
  /\ \E u \in Users :
       /\ \A r \in PresentRows : row[r].user # u
       /\ Begin(w, [IdleJob EXCEPT !.op = "hoststop", !.pc = "byname", !.user = u])
  /\ UNCHANGED <<svc, row, lost, faults>>

\* Without one, the service of that name is stopped; none is an error.
HostStopGet(w) ==
  /\ At(w, "byname")
  /\ IF Named(job[w].user) # {}
     THEN \E s \in Named(job[w].user) : Put(w, [job[w] EXCEPT !.pc = "bare", !.svc = s])
     ELSE Done(w)
  /\ UNCHANGED <<svc, row, lost, faults>>

\* `host stop --all`: each service Swarm lists is stopped by its row, or without one.
HostStopAll(w) ==
  /\ Begin(w, [IdleJob EXCEPT !.op = "stopall", !.pc = "each", !.todoS = LiveServices])
  /\ LiveServices # {}
  /\ UNCHANGED <<svc, row, lost, faults>>

HostStopEach(w) ==
  /\ At(w, "each")
  /\ IF job[w].todoS = {} THEN Done(w)
     ELSE \E s \in job[w].todoS : \E r \in FirstOf(RowsOf(s)) :
            Put(w, [job[w] EXCEPT !.todoS = @ \ {s}, !.row = r, !.svc = s, !.ret = "each",
                                  !.pc = IF r = NoRow THEN "bare" ELSE "remove"])
  /\ UNCHANGED <<svc, row, lost, faults>>

\* s.stop(), whether or not its row has been written since.  A failure is printed, or ends
\* the command.
StopBare(w) ==
  /\ At(w, "bare")
  /\ Back(w, FALSE)
  /\ \/ /\ svc' = [svc EXCEPT ![job[w].svc].st = "gone", ![job[w].svc].task = "none",
                              ![job[w].svc].stale = FALSE]
        /\ faults' = faults
     \/ svc' = svc /\ Fault
  /\ UNCHANGED <<row, lost>>

\* admin delete_host, in one step of a free worker, drops the row and leaves the
\* service running.
DeleteHost(r) ==
  /\ "delete" \in Kinds
  /\ \E w \in Workers \ Sweepers : Idle(w)
  /\ Present(r)
  /\ row' = [row EXCEPT ![r].st = "deleted"]
  /\ lost' = lost \cup {row[r].svc}
  /\ UNCHANGED <<svc, job, faults>>

\* open_host: a row whose service is gone is deleted on the way.
OpenHost(w) ==
  /\ \E r \in PresentRows :
       Begin(w, [IdleJob EXCEPT !.op = "open", !.pc = "get", !.row = r,
                                !.svc = row[r].svc])
  /\ UNCHANGED <<svc, row, lost, faults>>

OpenGet(w) ==
  /\ At(w, "get")
  /\ IF Live(job[w].svc) THEN Done(w) ELSE Goto(w, "rowdel")
  /\ UNCHANGED <<svc, row, lost, faults>>

\* /host/is_ready: sync_to_db(), then check_ready().
IsReady(w) ==
  /\ \E r \in PresentRows :
       /\ Live(row[r].svc)
       /\ Begin(w, [CallSyncToDb(w, row[r].svc, FALSE, "recheck") EXCEPT !.op = "ready"])
  /\ UNCHANGED <<svc, row, lost, faults>>

CheckReady(w) ==
  /\ At(w, "recheck")
  /\ LET s == job[w].svc
         again(check) == Put(w, CallSyncToDb(w, s, check, "idle"))
     IN \/ RowsOf(s) = {} /\ Done(w)
        \/ \E r \in RowsOf(s), st \in Status(s), ok \in Answers(s) :
             CASE st = "running" /\ row[r].state # "running" -> again(FALSE)
               [] ~(st = "running" /\ row[r].state # "running")
                  /\ ok /\ row[r].app # "ready" -> again(TRUE)
               [] OTHER -> Done(w)
  /\ UNCHANGED <<svc, row, lost, faults>>

-----------------------------------------------------------------------------
(* sync(), and the commands built on it. *)

BeginSync(w) ==
  /\ Idle(w)
  /\ \E op \in SyncOps :
       /\ IF w \in Sweepers THEN op = "sync" ELSE op \in Kinds
       /\ Put(w, [IdleJob EXCEPT !.op = op, !.pc = "read1", !.check = TRUE])
  /\ UNCHANGED <<svc, row, lost, faults>>

\* Mutant: Swarm is listed before the table is read.
SyncReadSwarmFirst(w) ==
  /\ \/ /\ At(w, "read1")
        /\ Put(w, [job[w] EXCEPT !.notInDb = LiveServices, !.pc = "read2"])
     \/ /\ At(w, "read2")
        /\ Put(w, [job[w] EXCEPT !.notInDb = @ \ DbServices,
                                 !.todoS = DbServices \ job[w].notInDb, !.pc = "mark"])
  /\ UNCHANGED <<svc, row, lost, faults>>

\* First the table, then Swarm.
SyncRead(w) ==
  /\ \/ /\ At(w, "read1")
        /\ Put(w, [job[w] EXCEPT !.inDb = DbServices, !.pc = "read2"])
     \/ /\ At(w, "read2")
        /\ Put(w, [job[w] EXCEPT !.notInDb = LiveServices \ job[w].inDb, !.inDb = {},
                                 !.todoS = job[w].inDb \ LiveServices, !.pc = "mark"])
  /\ UNCHANGED <<svc, row, lost, faults>>

\* One missing service: its row is loaded, then written and committed.
SyncMark(w) ==
  /\ At(w, "mark")
  /\ \E s \in job[w].todoS : \E r \in FirstOf(RowsOf(s)) :
       Put(w, [job[w] EXCEPT !.todoS = @ \ {s},
                             !.row = r, !.pc = IF r = NoRow THEN @ ELSE "flag"])
  /\ UNCHANGED <<svc, row, lost, faults>>

\* Mutant: the MIA mark is never committed.
SyncFlagUncommitted(w) ==
  /\ At(w, "flag")
  /\ Put(w, [job[w] EXCEPT !.pc = "mark", !.row = NoRow])
  /\ UNCHANGED <<svc, row, lost, faults>>

\* The commit of a row deleted since it was loaded raises out of sync().
SyncFlag(w) ==
  /\ At(w, "flag")
  /\ IF Present(job[w].row)
     THEN /\ row' = [row EXCEPT ![job[w].row].state = "mia", ![job[w].row].app = "mia"]
          /\ Put(w, [job[w] EXCEPT !.pc = "mark", !.row = NoRow])
     ELSE Done(w) /\ row' = row
  /\ UNCHANGED <<svc, lost, faults>>

SyncNotReady(w) ==
  /\ At(w, "mark")
  /\ job[w].todoS = {}
  /\ Put(w, [job[w] EXCEPT !.todoR = LoadNotReady,
                           !.expired = FALSE, !.pc = "rows"])
  /\ UNCHANGED <<svc, row, lost, faults>>

\* Once a commit has expired the loaded rows, reading ch.state outside the
\* try re-reads the row, and raises if it has been deleted.
Vanished(w, e) == job[w].expired /\ ~Present(e.row)
Seen(w, e, now) == IF job[w].expired THEN now ELSE e.mia

SyncRow(w) ==
  /\ At(w, "rows")
  /\ \E e \in job[w].todoR :
       IF Vanished(w, e) THEN Done(w)
       ELSE IF Seen(w, e, StateMia(e.row)) \/ ~Live(row[e.row].svc)
       THEN Put(w, [job[w] EXCEPT !.todoR = @ \ {e}])
       ELSE Put(w, [CallSyncToDb(w, row[e.row].svc, TRUE, "rows")
                     EXCEPT !.todoR = @ \ {e}])
  /\ UNCHANGED <<svc, row, lost, faults>>

\* Mutant: the services Swarm has and the table lacks are counted only.
SyncNotInDbCounted(w) ==
  /\ At(w, "rows")
  /\ job[w].todoR = {}
  /\ Put(w, [job[w] EXCEPT !.notInDb = {}, !.pc = "services"])
  /\ UNCHANGED <<svc, row, lost, faults>>

SyncNotInDb(w) ==
  /\ At(w, "rows")
  /\ job[w].todoR = {}
  /\ Put(w, [job[w] EXCEPT !.todoS = job[w].notInDb, !.notInDb = {},
                           !.pc = "services"])
  /\ UNCHANGED <<svc, row, lost, faults>>

\* `host ls`: every service Swarm lists is written to the table.
BeginLs(w) ==
  /\ Begin(w, [IdleJob EXCEPT !.op = "ls", !.pc = "services", !.todoS = LiveServices])
  /\ LiveServices # {}
  /\ UNCHANGED <<svc, row, lost, faults>>

\* One service: in sync() an exception skips it, in `host ls` it is the end.
SyncService(w) ==
  /\ At(w, "services")
  /\ \E s \in job[w].todoS :
       CASE Live(s) ->
              Put(w, [CallSyncToDb(w, s, job[w].check, "services")
                       EXCEPT !.todoS = @ \ {s}])
         [] ~Live(s) /\ job[w].op # "ls" -> Put(w, [job[w] EXCEPT !.todoS = @ \ {s}])
         [] OTHER -> Done(w)
  /\ UNCHANGED <<svc, row, lost, faults>>

\* After a whole pass: return, chase the unsettled, or go on to the command.
SyncEnd(w) ==
  /\ At(w, "services")
  /\ job[w].todoS = {}
  /\ \/ job[w].op \in {"sync", "ls"} /\ Done(w)
     \/ job[w].op = "converge" /\ Goto(w, "settle")
     \/ /\ job[w].op = "reap"
        /\ Put(w, [job[w] EXCEPT !.pc = "reapdel",
                                 !.todoR = Load({r \in PresentRows : IsMia(r)})])
     \/ /\ job[w].op = "purge"
        /\ Put(w, [job[w] EXCEPT !.pc = "victims", !.expired = FALSE,
                                 !.todoR = Load(PresentRows)])
  /\ UNCHANGED <<svc, row, lost, faults>>

\* sync_converge: another pass while some host is unsettled, until max_passes
\* or the deadline, either of which may stop it after any pass.
Settle(w) ==
  /\ At(w, "settle")
  /\ \/ Done(w)
     \/ /\ Unsettled # {}
        /\ Put(w, [IdleJob EXCEPT !.op = "converge", !.pc = "read1",
                                  !.check = TRUE])
  /\ UNCHANGED <<svc, row, lost, faults>>

\* `host reap`: one commit deletes every row that was MIA when listed.
ReapCommit(w) ==
  /\ At(w, "reapdel")
  /\ row' = [r \in Rows |-> IF \E e \in job[w].todoR : e.row = r
                            THEN [row[r] EXCEPT !.st = "deleted"] ELSE row[r]]
  /\ Done(w)
  /\ UNCHANGED <<svc, lost, faults>>

\* remove_all(), the shutdown: every row is stopped.
RemoveAll(w) ==
  /\ Begin(w, [IdleJob EXCEPT !.op = "removeall", !.pc = "victims",
                              !.todoR = Load(PresentRows)])
  /\ PresentRows # {}
  /\ UNCHANGED <<svc, row, lost, faults>>

\* `host purge` stops the MIA and the quiescent (any row may be quiescent).
Victim(w) ==
  /\ At(w, "victims")
  /\ IF job[w].todoR = {} THEN Done(w)
     ELSE \E e \in job[w].todoR :
            \/ Vanished(w, e) /\ Done(w)
            \/ /\ ~Vanished(w, e)
               /\ Put(w, [job[w] EXCEPT !.todoR = @ \ {e}, !.pc = "remove",
                                        !.row = e.row, !.svc = row[e.row].svc, !.ret = "victims"])
            \/ /\ ~Vanished(w, e) /\ job[w].op = "purge" /\ ~Seen(w, e, IsMia(e.row))
               /\ Put(w, [job[w] EXCEPT !.todoR = @ \ {e}])
  /\ UNCHANGED <<svc, row, lost, faults>>

-----------------------------------------------------------------------------
(* Swarm and the nodes, and what goes wrong. *)

TaskStarts(s) ==
  /\ Live(s) /\ svc[s].task = "none"
  /\ svc' = [svc EXCEPT ![s].task = "running"]
  /\ UNCHANGED <<row, job, lost, faults>>

NodeUnreachable(s) ==
  /\ "unreach" \in Kinds
  /\ Live(s) /\ svc[s].task = "running"
  /\ svc' = [svc EXCEPT ![s].task = "unreach"]
  /\ UNCHANGED <<row, job, lost, faults>>

NodeReachable(s) ==
  /\ Live(s) /\ svc[s].task = "unreach"
  /\ svc' = [svc EXCEPT ![s].task = "running"]
  /\ UNCHANGED <<row, job, lost, faults>>

\* The autoscaler or an operator removes the node under the task.
NodeRemoved(s) ==
  /\ "noderm" \in Kinds
  /\ Live(s) /\ svc[s].task # "none"
  /\ svc' = [svc EXCEPT ![s].task = "none", ![s].stale = TRUE]
  /\ UNCHANGED <<row, job, lost, faults>>

\* A Docker call, a database call or the whole worker fails.  What it had
\* created and not yet recorded stays in Swarm without a row.
Cut(w) ==
  /\ ~Idle(w)
  /\ Fault
  /\ lost' = IF job[w].op = "start" THEN lost \cup ({job[w].svc} \ {NoSvc}) ELSE lost
  /\ Done(w) \/ (job[w].ret \in {"rows", "services"} /\ Raise(w))
  /\ UNCHANGED <<svc, row>>

-----------------------------------------------------------------------------

Request(w) == StartClass(w) \/ StopHost(w) \/ OpenHost(w) \/ IsReady(w)
                \/ BeginLs(w) \/ RemoveAll(w) \/ HostStop(w) \/ HostStopAll(w)

Step(w) ==
  \/ DbQuery(w) \/ DbModel(w) \/ DbWrite(w)
  \/ StartLookup(w) \/ StartExisting(w) \/ StartCreate(w) \/ StartConflict(w)
  \/ StartModel(w) \/ StartFind(w) \/ StartCommit(w)
  \/ StopService(w) \/ RowDelete(w) \/ HostStopGet(w) \/ HostStopEach(w) \/ StopBare(w)
  \/ OpenGet(w) \/ CheckReady(w)
  \/ SyncRead(w) \/ SyncMark(w) \/ SyncFlag(w) \/ SyncNotReady(w) \/ SyncRow(w)
  \/ SyncNotInDb(w) \/ SyncService(w) \/ SyncEnd(w) \/ Settle(w)
  \/ ReapCommit(w) \/ Victim(w)

Swarm(s) == TaskStarts(s) \/ NodeUnreachable(s) \/ NodeReachable(s) \/ NodeRemoved(s)

Next ==
  \/ \E w \in Workers : Request(w) \/ BeginSync(w) \/ Step(w) \/ Cut(w)
  \/ \E s \in Services : Swarm(s)
  \/ \E r \in Rows : DeleteHost(r)

Spec == Init /\ [][Next]_vars

\* Python threads get to run, and the sweepers' cron keeps starting passes:
\* the cadence dbsync --converge and the admin dashboard are documented to
\* have.  Nothing is assumed of requests, Swarm or failures.
Fairness ==
  /\ \A w \in Workers : WF_vars(Step(w))
  /\ \A w \in Sweepers : WF_vars(BeginSync(w))

FairSpec == Spec /\ Fairness

-----------------------------------------------------------------------------
(* Safety. *)

\* What a sync pass is about to mark MIA is really gone from Swarm, whatever
\* is started and stopped while it reads: it reads the table before Swarm, a
\* service is created before its row, and service ids are never reused.
MissingAreGone ==
  \A w \in Workers :
    /\ At(w, "mark") => job[w].todoS \cap LiveServices = {}
    /\ At(w, "flag") => ~Live(row[job[w].row].svc)

\* The start that has created s and not yet recorded it.
BeingRecorded(s) ==
  \E w \in Workers : job[w].op = "start" /\ job[w].svc = s

\* A service is running without a row only if some removal failed, a start was
\* cut off, an admin deleted the row, or a node was taken from under it: no
\* interleaving of starts, stops, syncs, reaps and purges alone loses a host.
LiveTracked ==
  \A s \in LiveServices :
    svc[s].stale \/ s \in lost \/ RowsOf(s) # {} \/ BeingRecorded(s)

\* A stop, however slow, removes the service its row recorded and never the
\* one its user has started since under the same name.  Only `host stop`, having found
\* no row, removes the very service it has looked up or listed.
StopsOnlyItsOwn ==
  [][\A s \in Services : Live(s) /\ ~Live(s)' =>
       \E w \in Workers : \/ At(w, "remove") /\ row[job[w].row].svc = s
                          \/ At(w, "bare") /\ job[w].svc = s]_vars

\* The table as a book of hosts (HostBook): a host is booked when some row names
\* it, marked when that row is MIA.
Fate(s) == IF ~Live(s) THEN svc[s].st ELSE IF svc[s].stale THEN "adrift" ELSE "up"
Entered == {row[r].svc : r \in {q \in Rows : row[q].st # "fresh"}}
Marked == {s \in Services : \E r \in RowsOf(s) : IsMia(r)}
InHand == {s \in Services : BeingRecorded(s)}

Book ==
  INSTANCE HostBook WITH Hosts <- Services, fate <- [s \in Services |-> Fate(s)],
                         owner <- [s \in Services |-> svc[s].owner], entered <- Entered,
                         booked <- DbServices, marked <- Marked, starting <- InHand

\* All requests, commands, sync passes and failures, interleaved at every call,
\* keep the book of hosts.
KeepsBook == Book!Spec

-----------------------------------------------------------------------------
(* Liveness. *)

RowsLeft == \E r \in Rows : row[r].st = "fresh"

\* An orphaned service does not stay out of the table: a sync pass records it,
\* unless it is removed first (or the model's bound on rows is used up).
OrphanAdopted ==
  \A s \in Services : Live(s) ~> (~Live(s) \/ RowsOf(s) # {} \/ ~RowsLeft)

\* A row whose service is gone does not stay looking alive: some pass marks it
\* MIA, or it is deleted.
GhostFlagged ==
  \A r \in Rows : (Present(r) /\ ~Live(row[r].svc)) 
      ~> (~Present(r) \/ IsMia(r) \/ ~RowsLeft)

-----------------------------------------------------------------------------
(* What comments in the code claim. *)

\* to_model's comment: "a transient connection blip must NOT be flagged" MIA.
BlipNeverMarksMia ==
  [][\A w \in Workers :
       At(w, "model") /\ At(w, "write")' /\ svc[job[w].svc].task = "unreach"
         => job'[w].m.state # "mia"]_vars
=============================================================================
