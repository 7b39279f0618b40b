# TLA+ models of the code-server spawner

The spawner is a Flask application with a command-line tool. It gives every
student of a class a VS Code server: a Docker Swarm service with one task, on a
cluster of DigitalOcean droplets that grows and shrinks with demand. This
directory holds its TLA+ models, the TLC configurations that check them on small
instances, and the TLAPS proofs of what holds for every instance.

Run everything from this directory: `tlc -config HostsWeb.cfg MCCodeHosts` checks
one configuration and `tlapm CodeHosts_proofs.tla` one proof module.
`PROJECT.json` says which lines of the source each definition stands for.

## 1. The system

| Component | Source | State | Operations |
|---|---|---|---|
| Code-host registry | `cs_docker/csmanager.py`, `proc.py`, `manager.py` | table `code_host`; Swarm services | start (`new_cs`), stop (`stop_host`), `sync`, `sync_converge`, `sync_to_db`, `check_ready`, `remove_all`; commands `host ls/stop/reap/purge/dbsync` |
| Node-operation runner | `admin/routes.py` 503-640, `cli/node.py` 3422-3578, `models.py` 517-672 | table `node_ops`; the file lock `.node-ops.lock`; detached processes | create an operation, `op-run`, sweep at boot |
| Autoscale planners | `cs_docker/autoscale.py` 85-560, `tiers.py` | none (pure) | assess, estimate demand, plan up, plan down, build a plan |
| Autoscale cycle | `cs_docker/autoscale.py` 562-1413 | `.autoscale.lock`; the sidecar of nodes seen empty | gather, reap by zone, apply, save |
| Node placement and removal | `cli/node.py` 159-560, 1262-1300, 2580-2856, 3107-3210 | node availability, service constraints (pins) | pin, unpin, drain, rebalance, remove |
| Node provisioning | `cli/node.py` 497-1260, 1714-2580, 2859-3105 | droplets, serial numbers, Swarm membership | create, configure, join, expand, contract, purge |
| Account teardown | `admin/teardown.py`, `admin/routes.py` 147-195, `auth/routes.py` | `users`, repositories, services | stop servers, delete repositories, delete the record |
| GitHub organisation | `cs_github/repo.py` | forks, one lock per repository | fork, push, remove |
| Docker throttle | `cs_docker/csmanager.py` 482-530 | one semaphore per process | acquire and release around every Docker call |
| Classes and enrolment | `main/routes/classes.py`, `models.py` 155-325 | `classes`, enrolments, run state | copy, delete, start, remove students |
| Usernames | `util/auth.py`, `models.py` 92-98 | `users.username` | pick a free username |

How they interact. The web application runs as two single-threaded gunicorn
workers (`docker/gunicorn_config.py`); commands run from cron or a shell, and
node operations run as detached `cspawnctl node op-run` processes. They share
nothing but PostgreSQL, the Swarm manager, the lock files of `DATA_DIR`, the
DigitalOcean account and GitHub. Nothing takes a database lock across two
statements and every Docker call is a round trip over SSH, so a handler's steps
interleave with those of every other process, which may also die between any
two: **each call to Docker or to the database is one action of a model.**

What is hard here:

- the registry mirrors Swarm in a table, without transactions across the two;
- objects loaded from the table outlive other processes' writes to it;
- a failed stop or a killed start leaves a service that no row mentions;
- a node may be removed while hosts are being placed on it or pinned to it;
- node operations, the autoscaler and commands change the same cluster under
  two different locks or under none;
- the restart of the web server meets operations it started and no longer owns;
- droplets and nodes are found by name at every step, so a step may reach another
  machine than the step before it did;
- a request waits for a Docker slot and for a fork's lock, each held across calls
  to the other services;
- scaling decisions come from arithmetic at its limits (no deficit, no spare
  capacity, the largest and smallest tier).

## 2. The registry: `CodeHosts`

`CodeHosts.tla` models the registry with the commands and routes that call it. Two
callers have no action of their own: the clean-up of `cli/test.py` (358-395) makes the calls
of `host stop` and `open_host` for each test user, and the loop of `delete_class` over a
class's hosts (`main/routes/classes.py` 174-178) is never entered, as a class with students
is refused before.

State. `svc` is Swarm: each service id is unborn, live or gone, with its owner
and its task (none, running, or on a node the SSH tunnel cannot reach); `stale`
says that Swarm still lists an older task on a removed node. `row` is the table
`code_host`. `job[w]` is what worker `w` (a request, a command, a cron job) is
doing and what its Python locals and loaded ORM objects hold. `lost` and
`faults` are history: services whose removal failed or whose start was cut off,
and the failures so far.

Actions follow the code call by call: `sync_to_db` is `DbQuery`, `DbModel`,
`DbWrite`; a start is `StartClass`, `StartLookup`, `StartExisting`,
`StartCreate`, then `StartConflict` on a 409, `StartModel`, `StartFind`,
`StartCommit`; a stop is `StopHost`, `StopService`, `RowDelete`; `host stop` stops
the row of a name or, where there is none, the service of that name (`HostStop`,
`HostStopGet`, `StopBare`), and with `--all` each service that Swarm lists, by its row
or without one (`HostStopAll`, `HostStopEach`); a pass of
`sync()` is `SyncRead` (table, then Swarm), `SyncMark` and `SyncFlag` for each
missing service, `SyncNotReady` and `SyncRow` for the rows to re-read,
`SyncNotInDb` and `SyncService` for unrecorded services, `SyncEnd`. The
commands built on it share those steps: `reap`, `purge`, `dbsync --converge`,
the shutdown's `remove_all`. `Cut` is an exception or a killed worker at any
step: inside `sync()`'s two `try` blocks it skips the host, elsewhere it ends
the job.

Abstractions. A username is its own slug (`User.clean_username` stores nothing
else), so names and labels are the owner. The push before a stop touches none
of this state and never prevents the rest (its failure is only recorded). Docker
states other than running are one value. Which rows are quiescent is left open,
as heartbeats are not modelled. `sync_converge` may end after any pass. An ORM
object expires at the next commit of its session: its test of MIA then sees the
row as it is, or raises if the row has gone. Writing to a row deleted meanwhile
is SQLAlchemy's `StaleDataError`. A new row takes the next key of its sequence. An
admin's deletion of a row is one step, of a worker that is free.

### Runs

| Run | Instance | What it asks |
|---|---|---|
| `hosts_web` | 1 user, 2 services, 2 rows, 2 workers: start, stop by row, by name and of all, converging sync, purge, node removal | `TypeOK`; `MissingAreGone`: no pass takes a running service for missing; `StopsOnlyItsOwn`: a slow stop never removes the service its user started since, and a stop without a row none but the one it looked up or listed; `KeepsBook`: the registry implements `HostBook` |
| `hosts_live` | 1 user, 1 service, 2 rows, 2 workers of which one keeps sweeping, 1 failure anywhere: start, stop by row and by name, open, ready, row deletion, unreachable nodes, reap, ls and the shutdown | `LiveTracked`: no running service drops out of the table except where a removal failed, a start was cut off, an admin deleted its row or its node went; `OrphanAdopted` and `GhostFlagged`: the table catches up with Swarm |
| `hosts_blip` | violated | the comment in `to_model` that a connection blip never marks a host MIA |

Two workers and two services of one user are the smallest instance in which a
start, a stop and a restart of the same name meet a third operation; two rows
let a row be inserted, deleted and inserted again. Each kind of request is in one of
the two runs at least; the theorems cover any mixture. `Services` and `Rows` bound
how many creations and inserts a behaviour makes: ids are never reused, as
Swarm's and the table's are not. `MaxFaults` bounds failures. The system stops
when a bound is used up, so deadlock is not checked.

Fairness (`FairSpec`): each worker's steps are weakly fair, because threads run;
and the workers in `Sweepers` keep starting passes, because every view of the
admin dashboard runs one (`admin/routes.py` 45-56) and `host dbsync` is
"intended to be cron'd" (`cli/host.py` 279). The liveness properties are about
a deployment that does so; the crontab in the repository does not schedule it.
Nothing is assumed of requests, Swarm or failures. `RowsLeft` excuses the two
liveness properties when the bound on rows is used up.

### The abstract specification: `HostBook`

`HostBook.tla` is the table as those who read it take it, without requests,
commands, passes and what each of them has loaded. A host is started only for a
user who has none running, and is then in the hands of its start. Until it is
missing (removed, or its node taken from under it) or lost track of (a failed
stop, a start cut off, a row an admin deleted), it is in the table or in a start's
hands: a start may let go of it (`GiveUp`) and its row may go (`Strike`) only so. It
may be taken down at any time, for `host stop` needs no row, stays down, and is marked
MIA only when missing. In
`CodeHosts` the mapping takes a host's fate from Swarm (`Fate`), `booked` from the
service ids of the rows, `marked` from `is_mia`, and `starting` from the services
that some start's locals hold (`InHand`). The run has no failures; the theorem
has every one. What `LiveTracked` says of states the
book says of steps; beyond it, the book forbids a second host beside a running one
and any false MIA mark, whether by a pass, by `sync_to_db` or by a start.

### Proofs

`CodeHostsInv.tla` states the inductive invariant `IInv` and
`CodeHosts_proofs.tla` proves, for any constants that satisfy
`HostsAssumption`:

- `TypeCorrect`: `Spec => []TypeOK`;
- `MissingGone`: `Spec => []MissingAreGone`;
- `HostsTracked`: `Spec => []LiveTracked`;
- `StopsOwn`: `Spec => StopsOnlyItsOwn`;
- `ImplementsBook`: `Spec => KeepsBook`, in `CodeHostsBook_proofs.tla`;

all from `Inductive`: `Spec => []IInv`. None of the first four is inductive by itself.
`IInv` adds what every local variable knows: the service a start holds was
created for its user and the service a row or a job names has been born
(so nothing refers to a service id that `run()` may still hand out); a service a
stop is about to remove is the one its row holds, or one that was born; what a pass collected
as missing is gone for good, because a gone id stays gone; and a row that some
job is going to delete is one whose service is gone, stale or listed in `lost`,
or is being stopped.
TLC checks `IInv` cheaply on the instances of the runs; the proof has one lemma
per action and part.

`ImplementsBook` maps each action to a step of the book or a stutter. Most steps
of a worker leave the book alone; what is left is who holds a host before and after
(`HandMoves`) and the writes to the table and to Swarm, one action of the book each.
`IInv` supplies the guards: that a deleted row's host is missing, lost or being
stopped, that a mark is true. What it does not say had to be added: one row per
service id, so that a host leaves the book with its row (`OneRow`: the unique index, as
the writers keep it), every start is for a user (`Asked`), and an id not yet
used has no task on a removed node (`Unaged`).

Liveness stays with TLC.

## 3. Node operations: `NodeOps`

`NodeOps.tla` models the life of a row of `node_ops`: `Request` (the routes'
commit), `Popen`, and op-run's `Load`, `TryLock`, `Busy`, the command, `Unlock`
and `Finish`. Of the commands it keeps what the row depends on: an expansion's
`CreateDroplet` and the late, best-effort `RecordDroplet`, and that a command
returns or raises at any point. `SweepRead` and `Sweep` are the boot sweep:
a query, then the commit of what was computed from it.

What dies is a parameter. `ContainerDies` ends every process and drops the lock;
`MasterDies` ends gunicorn alone, which `docker/supervisord.conf` restarts, and
leaves op-run processes (they have a session of their own) running;
`ProcessDies` ends one process.

| Run | Instance | What it asks |
|---|---|---|
| `ops` | 2 operations, all three deaths, 3 faults | `TypeOK`; `OneCommand`: one command at a time; `DoneIsComplete`: `done` means the command returned; `SweepFindsOnlyDead`; `RecordedIsNamed`: an operation swept after its droplet was recorded names it; `FinalStays`: `done` and `failed` are final; `RunningSettles`: no row stays `running` for ever; `KeepsLedger`: the runner implements `OpLedger` |
| `ops_sweep` | violated | "cannot reflect a genuinely in-flight op" (`models.py` 643-644): gunicorn restarts beside a live op-run |

`alone` is history: what has died without its container. The sweep's properties
hold until gunicorn restarts alone, and `RunningSettles` until an op-run is
killed alone (its row then waits for the next boot). Two operations are one that
holds the lock and one that is refused or comes after; three faults are a death,
one during what follows it, and a lost write; the safety properties are proved
for any number of both. Fairness: processes run, every wait of a command has a
deadline, supervisord and Swarm restart what died. Operations end when the bound
is used up, so deadlock is not checked.

Two gaps of the code follow from the model and are no property of it: a row
committed by a request whose container dies before op-run loads it stays
`pending` for ever, for the sweep looks at `running` rows only; and a droplet
created by an op-run killed before `RecordDroplet` is named nowhere.

### The abstract specification: `OpLedger`

`OpLedger.tla` is what a reader of the admin page relies on, without processes,
locks and restarts: one operation may act at a time; `done` is said of an
operation that did its work; and while the web server has never been restarted
beside the operations, each is settled once, and only when it no longer acts. In
`NodeOps` the mapping (`INSTANCE OpLedger WITH ...`) takes the rows' status for
`shown`, the lock's holder for `active`, `completed` for `did`, and "gunicorn has
not died alone" for `trusted`. A death of the container, for one, is a `Release`,
a lost write a stutter. Once `trusted` is gone the promise is weaker, as is the
code's: an operation that was swept may still act and settle again.

### Proofs

`NodeOps_proofs.tla` proves, for any constants, `OpsTypeCorrect`, `OneAtATime`,
`DoneIsTrue`, `SweepIsSafe`, `DropletsNamed` and `FinalStaysFinal`: that gunicorn
never restarts alone is exactly the premise the docstring's "correct by
construction" needs. The invariant `IInv` adds to the properties that a process
between flock and unlock holds the lock, that a process which remembers success
has completed its command, that a final or swept row has no process left, and
that what the sweep has loaded is dead and as it was. `ImplementsLedger`
(`Spec => KeepsLedger`) maps each action to its step of `OpLedger`; for that
`LedgerInv` adds that a pending row has its process still before op-run's load,
and the other way round (`PendingInv`), that the lock is held by a process between flock
and unlock (`HeldInv`), and that the sweep has seen only rows that were accepted once
(`SeenInv`).

## 4. Placement and removal: `NodePlacement`

`NodePlacement.tla` models where hosts run while nodes are taken away.

State. `node` is each worker's availability in the Swarm and `droplet` the
droplets that exist. `svc` is a service: its pin (the `node.hostname==`
constraint), the node of its task, and whether that task runs. `start[s]` is a
`new_cs` between creating the service and pinning it; `reb` the run of `node
rebalance` with its lists; `rem[r]` a removal with the pins it has listed.
`fresh[c]` are the services whose version the copy of client `c` still carries:
Swarm refuses an update computed from an older one. `missed` and
`undrained` are history.

Actions. A start is `Create`, `Resolve`, `PinNew`; a rebalance is `RebNodes`,
`RebList`, `RebTasks` per service, `RebPlan`, then `RebMove` per move of
`plan_rebalance`. A removal is `graceful_remove_node`'s `Find`, `ListPins`,
`Unpin` per service, `Drain`, `Wait`, `RemoveNode`, `Destroy`; the autoscaler
puts `Recheck` before it, `node stop --force` begins at `ListPins` and goes from
there to the droplet (`Skip`). Each Docker or DigitalOcean call may fail, with
what the code makes of it: a failed listing of nodes finds none, a failed
listing of tasks counts as drained, a failed unpin is logged, and so on. Swarm
is `Schedule`, `TaskRuns`, `TaskEnds`. Managers never run hosts and are left
out; the wait's ten minutes and the resolve's ten seconds are "may give up".

| Run | Instance | What it asks |
|---|---|---|
| `place` | 2 nodes, 2 services, one removal at a time by the autoscaler, a rebalance and starts that do not pin, 1 fault | `TypeOK`; `StrandedOnlyIfMissed`: a service is left pinned to a vanished node only if it was pinned after the removal had listed the pins, or its unpin failed; `UnpinsOwn`: a pin is only ever cleared by a removal of the node it names, never one set since the removal looked |
| `place_live` | 2 nodes, 1 service, 2 overlapping removals, graceful or forced, starts that pin, 1 fault | `DrainedFirst`: no task loses its node undrained, whatever overlaps, fails or dies, but by a forced stop, a wait that ran out, or the failed calls the code takes for a drained node; `Rehosted`: an evicted host comes back on another node while there is one |
| `place_stranded` | violated | sprint 014, "no codehost service is left permanently pinned to a node that no longer exists": a start pins after the listing |

Two nodes are a source and a target; a removal, a start (or a rebalance) and
Swarm are the three actors of every hazard here, and two removals of one node
overlap in `place_live`. Nodes and services are never added again, so
behaviours end and deadlock is not checked. Fairness: processes run, each wait
has a deadline, Swarm schedules what it can and evicts what it must.

`NodePlacement_proofs.tla` proves `PlaceTypes`, `OnlyMissedStranded`
(`Spec => []StrandedOnlyIfMissed`), `DrainedInOrder` (`Spec => []DrainedFirst`)
and `UnpinsOnlyOwn` (`Spec => UnpinsOwn`) for any constants,
so for starts that pin and rebalances alike, which the runs keep apart.
`StrandedOnlyIfMissed` is not inductive: `IInv` adds that what is not live has
neither task nor pin (`DeadInv`), what each removal knows at each of its steps
(`RemInv`), and the heart of it (`PinInv`): a service that is not in `missed` is
pinned to a usable node, and every removal of that node past its listing still
has the service in its list with its current version. `DrainedInOrder` adds
`CleanInv`: a removal past its wait has a node with no task, or one in
`undrained`. `UnpinsOnlyOwn` adds `OwnInv`: a service in a removal's list that
the removal could still update is pinned to the removal's node, since whoever
pins it elsewhere takes away the version the removal has.

Known gaps that follow from the model: a failed search for the node, a failed
drain or a failed listing of its tasks lets a removal destroy a node undrained
(these are the steps that put a node in `undrained`); the autoscaler's recheck
and its drain are several calls apart, so a host scheduled in between is
evicted, not spared.

## 5. Provisioning: `NodeProvision`

`NodeProvision.tla` models how a droplet becomes a node in service, and the
commands that mend what provisioning leaves behind. Droplets and nodes are looked
up by name at each step of the code, so the model keeps droplets (numbered in the
order of their creation) apart from names (serials), and every step finds again
what it works on.

State. `drop` are DigitalOcean's droplets: unborn, up or gone, with serial, size,
and whether what cloud-init made of it passes verification (`fit`). `node` is Swarm's node on
each droplet, with its label. `cr[c]` is an expansion: the serial it has chosen,
the droplet it made or found (`own`), the one whose address it verifies (`ip`),
the node object it drained (`obj`) with its availability then, and
`_activate_swarm_node`'s tries. `rm` is a removal, `pg` a purge with its two
lists, `bf` a label backfill with the droplets it has listed and not yet come to. The rest is history, by which the properties name their exceptions:
`suspect` holds the serials that two commands worked on at once, an operator
named, or a failed listing produced; `mixed` the droplets reused for another
tier, and those made while a backfill had an earlier one of their name in its list; `known` what a failed or killed command left behind, or what lost its node to
the removal of another of its name.

Actions. An expansion is `Start` and `Number` (`_get_next_serial`), or `Given`
(`--id`), or `StartNamed` (`--configure`, `--join`); then `Look`, `Create`,
`Await`, `Configure`, `Join`, `Label`, `Member`, `Drain`, `Verify`, then
`Activate` or `Redrain`. Which of these an operation, a bare command, the
autoscaler's scale-up and each option of `expand` go through is in `AfterAwait`,
`AfterConfigure` and `AfterJoin`. `Dies` kills one anywhere. A removal is
`Removing`, `Leave`, `Destroy`; its steps before the node leaves are
`NodePlacement`'s. `node purge` is `PurgeNodes`, `PurgeDroplets`, then
`PurgeDroplet` and `PurgeNode` for what each list lacks. `node label-backfill`
lists the droplets (`BackfillDroplets`) and the nodes (`BackfillNodes`), then goes
through their names: each is looked up again, and the node that has it now gets the
tier of the droplet that was listed (`BackfillLabel`); it may end before any of these
(`BackfillEnds`: a failure, a death, or `--dry-run`). A failed listing finds nothing, a lost answer of `docker swarm
join` makes the next try find the node joined already, as in the code.

| Run | Instance | What it asks |
|---|---|---|
| `provision` | 2 commands at a time and 2 in all, expansions of five kinds, a removal, a purge, a backfill; 3 droplets, 2 serials, 2 tries, 1 fault; one node in service and perhaps a leftover droplet at first, and then perhaps a backfill that has just listed both | `TypeOK`; `UniqueNames`: two droplets have one name only if it is suspect; `ServingUndisturbed`: no expansion drains a node in service; `ActivatedIsVerified`: none makes a node active whose droplet has not passed; `LabelsHonest`: the labels the autoscaler counts with are the droplet's size, unless an expansion reused a droplet of another tier, or the droplet was made under a name that a backfill had listed before; `NoSilentLeftover`: no command that reports success leaves a droplet outside the Swarm; `PurgeSpares`: a purge takes no machine that has both a droplet and a node, unless it joined between the two listings; `WarmedServes`: what was drained for verification and passed becomes active unless every try failed. Each but for the exceptions it names |

Bounds. Two commands are the smallest number that can meet; the droplet left at
the start stands for an earlier one that failed. The kind `op` is `cli` with
a lock and is left out of the instance. A third command opens one more case: a purge destroys a
droplet under a removal, an expansion makes another of that name, and the removal then
takes the new one's node out of the Swarm. The model has it (`Leave`), the instance does not
reach it, the theorems cover it. Behaviours end with the commands, so deadlock is
not checked, and no fairness is assumed.

### Proofs

`NodeProvision_proofs.tla` and `NodeProvisionOwn_proofs.tla` prove every property
of the run for any number of expansions, droplets, serials, commands, tries and faults:

- `ProvisionTypes`: `Spec => []TypeOK`;
- `NamesAreUnique`: `Spec => []UniqueNames`. `NameInv` adds that two expansions
  with one serial have made it suspect (`DistinctInv`) and that an expansion
  about to create a droplet has none of its name to fear (`FreshInv`);
- `PurgesSpare`: `Spec => PurgeSpares`, from what a purge knows after each listing
  (`ListedInv`, `PlannedInv`), although nodes join and leave meanwhile;
- `VerifiedFirst`, `ServingSpared`, `LabelsTold`, `NothingLeft` and
  `WarmedAreActive` all rest on `HoldInv`: as long as a name is not suspect, at
  most one machine has it (`OneEachInv`), and whatever an expansion finds by name
  is the droplet it has or will make (`MineInv`, `OwnInv`, with `KindInv` for the paths
  of the kinds and `ObjInv` for the node it drained). To each its own strengthening:
  who is about to activate has verified (`VerInv`); what is in service has a name
  no other expansion holds (`ServedInv`); who has joined is in the Swarm unless taken out
  (`JoinedInv`, `RemoveInv`). `LabelsTold` needs what a backfill still knows when it writes:
  a droplet it has listed is the only one of its name, but for those made since
  (`ListInv`).

That a new serial is above all in the Swarm needs a greatest element of a finite set of
naturals (`Greatest`), by the library's well-founded induction.

## 6. The autoscaler: `ScalePlan` and `Autoscale`

`ScalePlan.tla` holds the pure decisions of `autoscale.py`: `Demand`
(`estimate_demand`), `Packed` and `Clamped` (`plan_scale_up`), `Removable` and
`IsSelection` (`plan_scale_down`: the loop from the highest serial down, stated
as the property its result has). `Autoscale.tla` is the control loop around
them: the cycles that cron starts every two minutes (`docker/crontab` 19) and
those run by hand with `node autoscale`.

State. `nodes`, `big`, `drained` are the Swarm's nodes, those with the label of
the large tier, those drained. `host` is each code host's row and where its task
runs, `prescale` what the classes in their purge window call for. `sidecar` is
`.autoscale_state.json`, `lock` the flock, `cyc[c]` a running cycle: what it has
counted, the sidecar's entries as it will save them, what it has still to add
and remove. `seen`, `reborn` and `taken` are history: how long the gathers have
really counted a node as empty, which entries of the sidecar are of another
time, what was removed by hand.

Actions. `Begin` is the lock and `count_hosts_per_node`; `Gather` the rest of
the snapshot, the plan and the command's options; `AddNode` and `Verify` the
scale-up path, droplet by droplet; `Recheck` and `RemoveNode` the scale-down
path, node by node; `Save` the sidecar and the lock. `Cut` is an exception
nothing catches, or a killed process, anywhere. `HandAdd` and `HandRemove` are
`node expand`, `node stop` and `node contract`, which hold no lock the
autoscaler looks at. `Demands` is everything that changes hosts and classes,
at any moment; what the reaper does to hosts within a cycle is a case of it.

Abstractions. The list of nodes and the rows are read in one step: nothing is
computed from one before the other is read, while the count of hosts, read
first, may be out of date against both. The cooldown is an entry that may grow from
"young" to "old" at any gather. The entries of managers are never used. A node's
capacity is one of two (`config/*/public.env` sets `DEFAULT_CAPACITY` to the
small tier's). A node that passes verification is activated or, when that
fails, stays drained; the code does not tell its capacity apart.

| Run | Instance | What it asks |
|---|---|---|
| `scale` | 2 workers beside the manager, 1 host, cron and an operator, tiers of 3 and 1, 1 event | `TypeOK`; `FloorHeld`: only what was removed by hand is missing from the least number of workers; `CooldownHonoured`: cron removes what its gathers have counted as empty all along, unless the entry is of another time; `ScaleUpFits`: a plan covers the deficit with no node to spare, or adds all it may; `NotUndone`: a removal leaves no deficit while the hosts that run are what is called for; `KeepsFleet`: the cycles implement `WorkerFleet`; `DemandMet`: once demand stays, capacity catches up, again and again |
| `scale_flap` | the same, nothing fails | violated: "prevents the node from being removed and immediately re-added in the next cycle" (sprint 004). The dead-band looks at the hosts that run, not at the demand, which a class's prescale may raise above them |

Bounds. `MaxSerial` is 3: one worker is the floor, the second can be planned for
removal while it, or what follows it, changes. `MaxEvents` bounds failures,
killed cycles, cycles by hand and hand-made changes together: each hazard listed
needs one. With one worker to keep, the dead-band alone already
keeps it while there is headroom, so `FloorHeld` is at its most interesting from
`MinWorkers = 2` on; that instance exceeds what TLC does in a few minutes, and
the theorem covers every value. Deadlock is not checked: with the serials and
events used up and nothing called for a behaviour may stop.

Fairness. `WF(Begin(c))` for cron's cycles: it starts one every two minutes,
and one that finds the lock held ends without a trace. `WF` of the running cycle's
steps: every wait in it has a deadline. Nothing is assumed of hosts, operators or
failures. `DemandMet` is excused when no droplet can be created (`Full`, the
bound on serials) and when a defective node was left drained: such a node counts
as capacity for ever, which is a gap of the code (`total_capacity` does not look
at availability).

### The abstract specification: `WorkerFleet`

`WorkerFleet.tla` is what an operator may count on, without cycles, lock, sidecar
and demand. A plan is made only when none is in force; it is to add at most
`MaxAdd` nodes (`Grow`) or to remove at most `MaxRemove` named ones that leave the
floor (`Shrink`), never both. Until it is used up (`Add`, `Retire`) or given up
(`Forgo`), every other change of the workers is the operator's. In `Autoscale` the
mapping takes the plan of the lock's holder (`InForce`): the size of what it has
still to add, and the nodes it has still to remove (`ToRemove`). That a plan is
never in force beside another is not stated by `Autoscale` anywhere: it is what
the flock gives, through a cycle that fails at any step or is killed.

### Proofs

`Autoscale_proofs.tla`, for any tiers with `0 < SmallCap <= LargeCap`, any
headroom, caps, cycles, hosts and bounds:

- `Types`: `Spec => []TypeOK`, with `LockInv` (whoever runs holds the lock) and
  `PlanInv` (what each step of a cycle has planned);
- `Floor`: `Spec => []FloorHeld`. Not inductive: `FloorInv` says that the
  workers would be enough even without everything a cycle has still to remove,
  which `SelectionLeaves` establishes of a plan, and which holds of at most one
  cycle thanks to `LockInv`;
- `Cooldown`: `Spec => CooldownHonoured`, from `SeenInv`: no entry of a node that
  is not `reborn`, in the file or in a cycle, says more than `seen`, unless the
  running cycle has dropped it and not yet saved;
- `ImplementsFleet`: `Spec => KeepsFleet`, each step a step of `WorkerFleet` or a
  stutter. `FleetInv` adds that managers stay in the Swarm and that no cycle means
  to remove one, or a node twice; `PlanOf`, from `LockInv`, that the cycle past
  its gather is the one whose plan is in force;
- `ScaleUpSound` and `RemovalSound`: `Spec => ScaleUpFits` and
  `Spec => NotUndone`, from the lemmas `ScaleUpOf` (the greedy packing, with
  its division and its clamp) and `SelectionLeaves`. The loop of
  `plan_scale_down` is handled through its last selected node
  (`LastSelected`): the least element of a set of naturals, so no induction over
  the loop is needed.

Gaps of the code that the model contains and no property contradicts: a serial
that is used again inherits the sidecar entry of the node before it, and an entry
outlives a cycle that dies (both `reborn`: such a node may be removed without a
cooldown); dry runs save the sidecar as well; the set of protected nodes is always empty,
because rows hold full host names (`csmanager.py` 226, 749) and are looked up by
short ones (`autoscale.py` 1358); a host that is starting counts twice in the
demand; nothing under `cspawn/` writes `purge_after`, so prescale comes only from
rows written by hand.

## 7. Accounts: `Accounts`

`Accounts.tla` composes what one account touches in four parts of the
application: its username, its place in a class, its fork in the GitHub
organisation, and its host; with registration, start, stop, `remove_students`
and the full teardown as requests of one web process, whose threads share the
semaphore around Docker calls and the lock around forks.

State. `acct`, `enrolled`, `repo`, `svc`, `row`: the user table, the class's
students, whose fork has each name, and the service and row of each name.
`job[t]` is a request with its locals and what its session holds: the class as
loaded (`seen`), removals not yet committed (`pend`), and those the answer will
report (`owed`). History: `late` are names a start used while their account was
torn down or gone, `loose` names whose service has no row of its user's, `cut`
names whose record was deleted in spite of failures.

Actions. A start is `Find`, `Acquire` (the slot), `Fork`, `Lock`, `Post` with its
retries, `Ready`, `Run`, `Commit`: the slot is held from `Acquire` to `Commit`. A
stop is `Push`, `Halt`, `RowDelete`; `remove_students` is `Remove`, `Pick` and
`Drop` per student with a stop in between, `Submit`, `Reply`. `teardown_user` is
`Hosts`, the stop, `List`, `DeleteRepo` per fork whose name `Upstream-owner` ends
with `-username`, `EraseRecord`; names are words between dashes (`Spelling`), so
that `Endings` is what the code's `endswith` can match. `DeleteRecord` and `DeleteRow` are the users page and
the admin's deletion of a row. `Sync` and `Reap` are `CodeHosts`' passes, one
name at a time. `Crash` restarts the process.

| Run | Instance | What it asks |
|---|---|---|
| `accounts` | 2 people, of whom the second may take the name the first one's mail gives, or `jo-bob`, which ends with it and with which the fork `python-jo-bob` of the first one ends; 3 names, 2 threads, 1 slot, 2 attempts, 2 requests besides what is there at first, 1 fault; 12 initial states | `TypeOK`; `NothingOutlives`: what is left of a deleted account is late, loose or cut; `TeardownTakesOwn`: a teardown deletes another account's fork only if that fork's name ends with the torn username, by the other's username or by the upstream's last words and it; `RemovedAreOut`: a removal reported is a removal made; `RequestsEnd`: every request ends |

Bounds. Every hazard here is two requests that meet, or one and a fault; what
requests before them have made is in the initial states (accounts, enrolment,
forks and hosts, in any combination), which `MaxCalls` counts as the first. One
slot is `DOCKER_SSH_CONCURRENCY` at its tightest: a thread that asked for it twice
would wait for ever. Fairness: `WF(Step(t))` per thread; threads run, and Python's semaphore
and lock serve whoever waits as long as the requests are finitely many. Every
wait of the code on a service has a deadline.

`Accounts_proofs.tla` proves `AccountTypes`, `NoLeftovers`
(`Spec => []NothingOutlives`), `RemovalsAreReal` (`Spec => []RemovedAreOut`) and
`TakesOnlyOwn` (`Spec => TeardownTakesOwn`) for any people, names, threads and bounds,
from `Invariance`: `Spec => []IInv`. `NothingOutlives` is not inductive: `IInv`
adds that names are not shared and classes have members (`Settles`), that what is
somebody's has that one's name (`Named`), what a request at each step knows
(`Matched`), that the service of an account that is in is in its row, or a start
is about to record it, or it is excused (`Tracked`), and that a teardown without a failure
still has the fork on its list (`Deletes`). `TakesOnlyOwn` rests on `EndingsOfFork`: what
ends the name of a fork after a dash is the owner's name, ends it, or is it after
last words of the upstream's. `RemovedAreOut` needs `Owes`: of
those the answer will report, the ones still in the class are yet to be handled.

Gaps of the code that the model contains and the properties name as exceptions: a teardown whose stop
failed has deleted the row, so its retry finds no server and deletes the record
while the service runs (`loose`), although `admin/teardown.py` 5-8 promises the
rest stays "discoverable for retry"; a start in flight makes fork or service
again behind a teardown's back (`late`); the suffix `-username` also ends other people's forks: tearing
down `bob` takes the forks of `jo-bob`, and tearing down `jo-bob` takes bob's fork of
`python-jo`, although `bob` does not end with `jo-bob` (`Candidates`, `SameEnd`; repositories
of the organisation that are nobody's fork are not in the model, and the code
spares them no more); a rollback in `stop_host` puts back students removed earlier in the
same request, which the answer reports as removed (`RowDelete`); and of the accounts whose
addresses give one username, the third cannot register: `find_username` looks for
names with `_1`, `_2`, which are stored as slugs, finds the first always
free, and the unique index then refuses it (`Name`, `Enter`).

## 8. What is only model-checked, and what is not modelled

Liveness (`OrphanAdopted`, `GhostFlagged`, `RunningSettles`, `Rehosted`,
`DemandMet`, `RequestsEnd`) is checked by TLC only: fairness and `ENABLED` are out
of the prover's reach. So are the four violated claims, which need one
counterexample each. Every other property of a passing run is also a theorem.

The modules meet at their edges instead of being composed into one:
`NodePlacement` has the steps inside a removal that is one step of `Autoscale`
and two of `NodeProvision`; `Autoscale` adds nodes by a step that `NodeProvision`
takes apart; `NodeOps` has the life of the operation that runs a command without
what the command does; a host's row and service are `CodeHosts`', which
`Accounts` sees one name at a time, and in the cluster modules they change
at will. Each of those abstractions allows more than the module it stands for does.

Not modelled, within the components above: the trailing sync of DNS records (a
failed listing there removes every node's record, `cli/node.py` 2470, and no
other state depends on them); `pull` and the rename in `repo.py`, which nothing calls;
the creation, copy, editing and deletion of classes, single commits of form
fields; a username edited on the users page, after which fork, service and row keep the old
name and no teardown finds them (`auth/routes.py` 235); the zones of the reaper
as steps of their own; `op-run` by hand for an id already used.

Known weaknesses that no property states: MIA is sticky, as `sync` skips rows
marked so, and a service that Swarm reschedules later runs under such a row
(`csmanager.py` 915); a row removed by another process while the reaper walks its
list may end the cycle before it plans anything (`autoscale.py` 888).

Not modelled at all: rendering, forms and API lookups, OAuth and password flows,
the telemetry report, dumps and migrations, the load generator of `cli/test.py`:
none has control of its own. `PROJECT.json` lists each with its reason.

## 9. Plan

What would add most next:

1. `Reaper`: `apply_reaper_zones` over the registry's rows, with classes that
   move between zones. Property: no host of a protected class is removed; a host
   whose class is dormant goes in the end. `Autoscale` then takes its hosts
   from it, and the documented protection of nodes can be stated.
2. The edit of a username, as an action of `Accounts`.
3. Classes: their run state, copies and deletion.

Runs of a module that ask of one instance are merged rather than multiplied.
Modules with theorems use no `RECURSIVE` operator.
