---------------------------- MODULE CodeHostsInv ----------------------------
(***************************************************************************)
(* The inductive invariant behind the safety properties of CodeHosts.  The  *)
(* properties speak of rows and services; what makes them hold is what every *)
(* worker's locals still say about the world by the time it uses them.       *)
(***************************************************************************)
EXTENDS CodeHosts

Recorded(r) == row[r].st # "fresh"
Born(s) == s \in Services /\ svc[s].st # "unborn"

\* No task of s can be found, or some task of it was on a removed node.
Missing(s) == ~Live(s) \/ svc[s].stale

\* A live service that may be without a row (see LiveTracked).
Excused(s) == Missing(s) \/ s \in lost

Tracked(s) == Excused(s) \/ RowsOf(s) # {}

\* A row names a service that was created; a MIA row one that is missing; a
\* deleted row one that nothing needs a row for.
RowInv ==
  \A r \in Rows : Recorded(r) =>
    /\ Born(row[r].svc)
    /\ IsMia(r) => Missing(row[r].svc)
    /\ row[r].st = "deleted" => Excused(row[r].svc)

\* Everything a worker remembers was created, or recorded, before.
Remembers(j) ==
  /\ j.svc # NoSvc => Born(j.svc)
  /\ \A s \in j.inDb \cup j.notInDb \cup j.todoS : Born(s)
  /\ j.row # NoRow => Recorded(j.row)
  /\ \A e \in j.todoR : Recorded(e.row)

\* Which locals are set where, and that row and service belong together.
Holds(j) ==
  /\ j.pc \in {"query", "model", "write", "smodel", "sfind", "scommit", "remove",
               "rowdel", "get", "recheck", "bare"} => j.svc # NoSvc
  /\ j.pc \in {"remove", "rowdel", "get", "flag"} => j.row # NoRow
  /\ j.pc \in {"model", "write", "scommit", "remove", "rowdel", "get"} /\ j.row # NoRow
       => row[j.row].svc = j.svc

\* What a worker is about to mark or delete may be marked or deleted.
Doomed(j) ==
  /\ j.pc \in {"mark", "flag"} => \A s \in j.todoS : ~Live(s)
  /\ j.pc = "flag" => ~Live(row[j.row].svc)
  /\ j.pc = "rowdel" => Excused(j.svc)
  /\ j.pc = "write" /\ (j.m.state = "mia" \/ j.m.app = "mia") => Missing(j.svc)
  /\ j.pc \in {"sfind", "scommit"} => j.m.state # "mia" /\ j.m.app # "mia"
  /\ j.pc = "reapdel" => \A e \in j.todoR : Excused(row[e.row].svc)

\* Only a start creates, and it holds no service before it has one.
Starting(j) ==
  /\ j.pc \in StartPcs => j.op = "start"
  /\ j.op = "start" =>
       /\ j.ret = "idle"
       /\ j.pc \in StartPcs \cup {"query", "model", "write"}
       /\ j.pc \in {"lookup", "existing", "create", "conflict"} => j.svc = NoSvc

JobOK(j) == Remembers(j) /\ Holds(j) /\ Doomed(j) /\ Starting(j)

IInv ==
  /\ TypeOK
  /\ RowInv
  /\ \A w \in Workers : JobOK(job[w])
  /\ LiveTracked
=============================================================================
