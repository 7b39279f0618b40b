------------------------------- MODULE NodeOps -------------------------------
(***************************************************************************)
(* Node operations started from the admin pages: the routes that create a   *)
(* `node_ops` row and launch `cspawnctl node op-run` for it                 *)
(* (admin/routes.py), op_run itself (cli/node.py), and the sweep of         *)
(* interrupted operations when the web application boots (models.py).       *)
(*                                                                          *)
(* An operation is executed by one detached process.  It outlives the       *)
(* request that launched it and, having a session of its own, the web       *)
(* server too; it dies with its container.  What its command does to the    *)
(* cluster is left out, but for the droplet that an expansion creates and   *)
(* writes back to its row.                                                  *)
(***************************************************************************)
EXTENDS Integers

CONSTANTS
  Ops,            \* ids of operations, each used once: the bound on requests
  NoOp,
  MaxFaults       \* the bound on restarts, killed processes and lost writes

ASSUME NodeOpsAssumption ==
  /\ NoOp \notin Ops
  /\ MaxFaults \in Nat

Kinds == {"expand", "remove", "rebalance"}

VARIABLES
  op,       \* the node_ops table
  proc,     \* the request, then the process, of each operation
  lock,     \* the flock on .node-ops.lock: its holder
  droplet,  \* the expansions whose droplet exists at DigitalOcean
  completed,\* history: the operations whose command returned normally
  web,      \* the web application: up, down, or sweeping at boot
  alone,    \* history: what has died without its container
  faults

vars == <<op, proc, lock, droplet, completed, web, alone, faults>>

-----------------------------------------------------------------------------

\* names: target_fqdn or droplet_id is set.  note: what an interrupted row's
\* message says of a droplet.
OpRec == [st: {"fresh", "pending", "running", "done", "failed", "interrupted"},
          kind: Kinds, names: BOOLEAN, note: {"none", "plain", "droplet"}]

\* fork: the request, between its commit and Popen.  The rest is op_run.
Working == {"work", "await", "join"}
Pcs == Working \cup {"none", "fork", "load", "lock", "busy", "unlock", "finish"}
ProcRec == [pc: Pcs, ok: BOOLEAN]

\* What the sweep's query loaded.
WebRec == [st: {"up", "down", "sweep"}, seen: SUBSET Ops, named: SUBSET Ops]

TypeOK ==
  /\ op \in [Ops -> OpRec]
  /\ proc \in [Ops -> ProcRec]
  /\ lock \in Ops \cup {NoOp}
  /\ droplet \subseteq Ops
  /\ completed \subseteq Ops
  /\ web \in WebRec
  /\ alone \subseteq {"gunicorn", "process"}
  /\ faults \in 0 .. MaxFaults

Down == [st |-> "down", seen |-> {}, named |-> {}]
Up == [Down EXCEPT !.st = "up"]
NoProc == [pc |-> "none", ok |-> FALSE]

Init ==
  /\ op = [o \in Ops |-> [st |-> "fresh", kind |-> "expand", names |-> FALSE,
                          note |-> "none"]]
  /\ proc = [o \in Ops |-> NoProc]
  /\ lock = NoOp
  /\ droplet = {}
  /\ completed = {}
  /\ web = Up
  /\ alone = {}
  /\ faults = 0

At(o, pc) == proc[o].pc = pc
Goto(o, pc) == proc' = [proc EXCEPT ![o].pc = pc]
Fault == faults < MaxFaults /\ faults' = faults + 1
Terminal == {"done", "failed", "interrupted"}
Running == {o \in Ops : op[o].st = "running"}

-----------------------------------------------------------------------------
(* The routes. *)

\* nodes_start, nodes_remove, nodes_rebalance: commit the row.  A removal
\* names its target from the start.
Request(o, k) ==
  /\ web.st = "up"
  /\ op[o].st = "fresh"
  /\ op' = [op EXCEPT ![o] = [st |-> "pending", kind |-> k, names |-> k = "remove",
                              note |-> "none"]]
  /\ Goto(o, "fork")
  /\ UNCHANGED <<lock, droplet, completed, web, alone, faults>>

\* Popen(..., start_new_session=True).
Popen(o) ==
  /\ At(o, "fork")
  /\ Goto(o, "load")
  /\ UNCHANGED <<op, lock, droplet, completed, web, alone, faults>>

-----------------------------------------------------------------------------
(* op_run. *)

Load(o) ==
  /\ At(o, "load")
  /\ op' = [op EXCEPT ![o].st = "running"]
  /\ Goto(o, "lock")
  /\ UNCHANGED <<lock, droplet, completed, web, alone, faults>>

\* Mutant: each operation locks a file of its own.
TryLockOwn(o) ==
  /\ At(o, "lock")
  /\ Goto(o, "work") /\ lock' = o
  /\ UNCHANGED <<op, droplet, completed, web, alone, faults>>

TryLock(o) ==
  /\ At(o, "lock")
  /\ \/ lock = NoOp /\ lock' = o /\ Goto(o, "work")
     \/ lock # NoOp /\ lock' = lock /\ Goto(o, "busy")
  /\ UNCHANGED <<op, droplet, completed, web, alone, faults>>

\* Mutant: a status the pages do not know.
BusyStatus(o) ==
  /\ At(o, "busy")
  /\ op' = [op EXCEPT ![o].st = "refused"]
  /\ proc' = [proc EXCEPT ![o] = NoProc]
  /\ UNCHANGED <<lock, droplet, completed, web, alone, faults>>

Busy(o) ==
  /\ At(o, "busy")
  /\ op' = [op EXCEPT ![o].st = "failed"]
  /\ proc' = [proc EXCEPT ![o] = NoProc]
  /\ UNCHANGED <<lock, droplet, completed, web, alone, faults>>

\* expand: droplet.create() (or an existing droplet of that name), then the
\* wait for it to be active, its tag and its project.
CreateDroplet(o) ==
  /\ At(o, "work") /\ op[o].kind = "expand"
  /\ droplet' = droplet \cup {o}
  /\ Goto(o, "await")
  /\ UNCHANGED <<op, lock, completed, web, alone, faults>>

\* The write-back of the droplet's id and name: best effort.
RecordDroplet(o) ==
  /\ At(o, "await")
  /\ Goto(o, "join")
  /\ \/ op' = [op EXCEPT ![o].names = TRUE] /\ faults' = faults
     \/ op' = op /\ Fault
  /\ UNCHANGED <<lock, droplet, completed, web, alone>>

\* The command returns, or raises at any point.
Returns(o) == At(o, IF op[o].kind = "expand" THEN "join" ELSE "work")

CommandEnds(o) ==
  /\ proc[o].pc \in Working
  /\ \/ /\ Returns(o)
        /\ proc' = [proc EXCEPT ![o] = [pc |-> "unlock", ok |-> TRUE]]
        /\ completed' = completed \cup {o}
     \/ /\ Goto(o, "unlock")
        /\ UNCHANGED completed
  /\ UNCHANGED <<op, lock, droplet, web, alone, faults>>

Unlock(o) ==
  /\ At(o, "unlock")
  /\ lock' = NoOp
  /\ Goto(o, "finish")
  /\ UNCHANGED <<op, droplet, completed, web, alone, faults>>

\* Mutant: the status follows from the process having finished.
FinishDone(o) ==
  /\ At(o, "finish")
  /\ op' = [op EXCEPT ![o].st = "done"]
  /\ proc' = [proc EXCEPT ![o] = NoProc]
  /\ UNCHANGED <<lock, droplet, completed, web, alone, faults>>

Finish(o) ==
  /\ At(o, "finish")
  /\ op' = [op EXCEPT ![o].st = IF proc[o].ok THEN "done" ELSE "failed"]
  /\ proc' = [proc EXCEPT ![o] = NoProc]
  /\ UNCHANGED <<lock, droplet, completed, web, alone, faults>>

-----------------------------------------------------------------------------
(* Restarts and the sweep. *)

\* The container: every process dies with it, and the kernel drops the lock.
ContainerDies ==
  /\ Fault
  /\ web' = Down
  /\ proc' = [o \in Ops |-> NoProc]
  /\ lock' = NoOp
  /\ UNCHANGED <<op, droplet, completed, alone>>

\* Gunicorn alone: supervisord (autorestart=true) starts it again.  A request
\* may still be served; detached op-run processes go on.
MasterDies ==
  /\ Fault
  /\ alone' = alone \cup {"gunicorn"}
  /\ web' = Down
  /\ \E cut \in SUBSET {o \in Ops : At(o, "fork")} :
       proc' = [o \in Ops |-> IF o \in cut THEN NoProc ELSE proc[o]]
  /\ UNCHANGED <<op, lock, droplet, completed>>

\* A gunicorn worker with its request, or an op-run process.
ProcessDies(o) ==
  /\ ~At(o, "none")
  /\ Fault
  /\ alone' = alone \cup {"process"}
  /\ proc' = [proc EXCEPT ![o] = NoProc]
  /\ lock' = IF lock = o THEN NoOp ELSE lock
  /\ UNCHANGED <<op, droplet, completed, web>>

\* Mutant: any command's start of the application sweeps.
SweepReadAlways ==
  /\ web' = [st |-> "sweep", seen |-> Running,
             named |-> {o \in Running : op[o].names}]
  /\ UNCHANGED <<op, proc, lock, droplet, completed, alone, faults>>

\* sweep_interrupted_node_ops: query, then one commit, before the workers are
\* forked.
SweepRead ==
  /\ web.st = "down"
  /\ web' = [st |-> "sweep", seen |-> Running,
             named |-> {o \in Running : op[o].names}]
  /\ UNCHANGED <<op, proc, lock, droplet, completed, alone, faults>>

\* Mutant: the sweep leaves the rows as they are.
SweepNothing ==
  /\ web.st = "sweep"
  /\ web' = Up
  /\ UNCHANGED <<op, proc, lock, droplet, completed, alone, faults>>

\* Mutant: the failed are swept too.
SweepFailed ==
  /\ web.st = "sweep"
  /\ op' = [o \in Ops |->
              IF o \notin web.seen /\ op[o].st # "failed" THEN op[o]
              ELSE [op[o] EXCEPT !.st = "interrupted",
                                 !.note = IF op[o].names THEN "droplet" ELSE "plain"]]
  /\ web' = Up
  /\ UNCHANGED <<proc, lock, droplet, completed, alone, faults>>

\* Mutant: the message is put together before the droplet is looked for.
SweepPlain ==
  /\ web.st = "sweep"
  /\ op' = [o \in Ops |-> IF o \in web.seen
                          THEN [op[o] EXCEPT !.st = "interrupted", !.note = "plain"] ELSE op[o]]
  /\ web' = Up
  /\ UNCHANGED <<proc, lock, droplet, completed, alone, faults>>

Sweep ==
  /\ web.st = "sweep"
  /\ op' = [o \in Ops |->
              IF o \notin web.seen THEN op[o]
              ELSE [op[o] EXCEPT !.st = "interrupted",
                                 !.note = IF o \in web.named THEN "droplet" ELSE "plain"]]
  /\ web' = Up
  /\ UNCHANGED <<proc, lock, droplet, completed, alone, faults>>

-----------------------------------------------------------------------------

OpRun(o) ==
  \/ Load(o) \/ TryLock(o) \/ Busy(o) \/ CreateDroplet(o) \/ RecordDroplet(o)
  \/ CommandEnds(o) \/ Unlock(o) \/ Finish(o)

Boot == SweepRead \/ Sweep

Next ==
  \/ \E o \in Ops : \/ \E k \in Kinds : Request(o, k)
                    \/ Popen(o) \/ OpRun(o) \/ ProcessDies(o)
  \/ Boot \/ ContainerDies \/ MasterDies

Spec == Init /\ [][Next]_vars

\* Processes run, every wait of a command has a deadline (so it ends), and
\* what has died is restarted: gunicorn by supervisord, the container by Swarm.
Fairness ==
  /\ WF_vars(Boot)
  /\ \A o \in Ops : WF_vars(Popen(o)) /\ WF_vars(OpRun(o))

FairSpec == Spec /\ Fairness

-----------------------------------------------------------------------------
(* Safety. *)

\* op_run's lock: no two operations change the cluster at once, whichever way
\* the processes before them ended.
OneCommand ==
  \A o, p \in Ops : proc[o].pc \in Working /\ proc[p].pc \in Working => o = p

\* An operation shown as done is one whose command returned: a refused,
\* failed or killed one never is.
DoneIsComplete == \A o \in Ops : op[o].st = "done" => o \in completed

\* The boot sweep takes only dead operations for interrupted, unless gunicorn
\* has been restarted beside them.
SweepFindsOnlyDead ==
  web.st = "sweep" /\ "gunicorn" \notin alone => \A o \in web.seen : proc[o].pc = "none"

\* Sprint 010: an interrupted expansion "surfaces that droplet's id/fqdn in its
\* message".  Once the write-back is committed the message names it: nothing is
\* written between the sweep's query and its commit that it would miss.
RecordedIsNamed ==
  "gunicorn" \notin alone =>
    \A o \in Ops : op[o].st = "interrupted" /\ op[o].names => op[o].note = "droplet"

\* A finished operation's status is final: no restart of the container and no
\* other process reports it as anything else.
FinalStays ==
  [][\A o \in Ops : op[o].st \in {"done", "failed"} /\ "gunicorn" \notin alone
                      => op'[o].st = op[o].st]_vars

-----------------------------------------------------------------------------
(* What the table promises. *)

Ledger ==
  INSTANCE OpLedger WITH shown <- [o \in Ops |-> op[o].st], active <- lock,
                         did <- completed, trusted <- ("gunicorn" \notin alone)

\* The routes, op-run and the boot sweep, with their lock, restarts and killed
\* processes, keep the promises of the table (OpLedger).
KeepsLedger == Ledger!Spec

-----------------------------------------------------------------------------
(* Liveness. *)

\* A row does not stay `running` for ever, even when its container or gunicorn
\* dies (sprint 010's reason for the sweep).  An op-run killed alone leaves it so
\* until the next boot.
RunningSettles ==
  \A o \in Ops : op[o].st = "running" ~> op[o].st \in Terminal \/ "process" \in alone

-----------------------------------------------------------------------------
(* What a docstring in the repository claims. *)

\* sweep_interrupted_node_ops: "any row found `running` at boot time cannot
\* reflect a genuinely in-flight op".
NeverInFlight == web.st = "sweep" => \A o \in web.seen : proc[o].pc = "none"
=============================================================================
