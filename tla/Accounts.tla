------------------------------ MODULE Accounts ------------------------------
(***************************************************************************)
(* Accounts and what hangs on them: the username (auth/routes.py,           *)
(* util/auth.py), the place in a class (main/routes/classes.py), the fork of *)
(* the class's repository in the GitHub organisation (cs_github/repo.py),   *)
(* and the code host; and the full teardown of an account                   *)
(* (admin/teardown.py).                                                      *)
(*                                                                          *)
(* Requests are the threads of one web process, which share the semaphore    *)
(* around Docker calls and the lock around forks.  There is one upstream     *)
(* repository and one class.  Fork, service and row of a host are found by   *)
(* username.  The steps of a sync pass and the loops over rows are in        *)
(* CodeHosts; here a pass handles one name in one step, and a name has one   *)
(* row.  Names are spelled as the words between their dashes, as a teardown      *)
(* finds the forks by the end of their names.                                *)
(***************************************************************************)
EXTENDS Integers, FiniteSets, Sequences

CONSTANTS
  People,      \* those who may have an account
  Names,       \* usernames
  Words,       \* what a name has between its dashes
  Spelling,    \* the words of each username
  Bases,       \* the usernames that mail addresses give
  Second,      \* the username that n_1 becomes
  Upstream,    \* the words of the upstream repository's name
  Settled,     \* the usernames of the accounts there may be at first
  Threads,
  Slots,       \* DOCKER_SSH_CONCURRENCY
  Attempts,    \* _MAX_FORK_ATTEMPTS
  MaxCalls,    \* the bound on requests (the first is before Init)
  MaxFaults,   \* the bound on calls that fail and on restarts of the process
  NoOne,       \* no account
  Root         \* the root user, who owns the hosts of unknown users

ASSUME AccountsAssumption ==
  /\ Names # {} /\ Bases \subseteq Names /\ Second \in [Bases -> Names]
  /\ Upstream \in Seq(Words) \ {<<>>} /\ Spelling \in [Names -> Seq(Words) \ {<<>>}]
  /\ \A m, n \in Names : Spelling[m] = Spelling[n] => m = n
  /\ \A nm \in Settled :
       /\ DOMAIN nm \subseteq People /\ nm \in [DOMAIN nm -> Names]
       /\ \A a, b \in DOMAIN nm : nm[a] = nm[b] => a = b
  /\ NoOne \notin People /\ Root \notin People /\ NoOne # Root
  /\ Slots \in Nat \ {0} /\ Attempts \in Nat \ {0}
  /\ MaxCalls \in Nat \ {0} /\ MaxFaults \in Nat

VARIABLES
  acct,     \* the user table
  enrolled, \* class_students
  repo,     \* whose fork of the upstream has each name
  svc,      \* the Swarm service of each name
  row,      \* the code_host row of each name
  job,      \* the requests
  late,     \* history: names that a start used while they were torn down
  loose,    \* history: names whose service has no row of its user's
  cut,      \* history: names whose record was deleted in spite of failures
  calls,
  faults

history == <<late, loose, cut>>
vars == <<acct, enrolled, repo, svc, row, job, history, calls, faults>>

-----------------------------------------------------------------------------

Accts == [st: {"none", "in", "gone"}, name: Names]

\* by: who started the service; id: its service_id.
SvcRec == [by: People \cup {NoOne}, id: 0 .. MaxCalls]

\* by: user_id; id: service_id, 0 when there is no row.
RowRec == [by: People \cup {NoOne, Root}, id: 0 .. MaxCalls]

Kinds == {"register", "start", "stop", "remove", "teardown"}
Docker == {"fork", "lock", "post", "ready", "run", "commit"}
Stopping == {"push", "halt", "row"}
Tearing == {"hosts", "push", "halt", "row", "list", "repos", "record"}
Pcs == {"idle", "name", "enter", "find", "slot", "pick", "drop", "reply"}
         \cup Docker \cup Tearing

\* todo: repositories to delete; go: students to remove; seen: the class as the
\* session has loaded it; pend: those removed in the session and not committed;
\* owed: those whose removal the answer reports.
JobRec == [pc: Pcs, kind: Kinds, who: People \cup {NoOne}, n: Names,
           id: 0 .. MaxCalls, force: BOOLEAN, failed: BOOLEAN, todo: SUBSET Names,
           go: SUBSET People, seen: SUBSET People, pend: SUBSET People,
           owed: SUBSET People,
           tries: 0 .. Attempts - 1]

TypeOK ==
  /\ acct \in [People -> Accts]
  /\ enrolled \subseteq People
  /\ repo \in [Names -> People \cup {NoOne}]
  /\ svc \in [Names -> SvcRec]
  /\ row \in [Names -> RowRec]
  /\ job \in [Threads -> JobRec]
  /\ late \subseteq Names /\ loose \subseteq Names /\ cut \subseteq Names
  /\ calls \in 1 .. MaxCalls
  /\ faults \in 0 .. MaxFaults

NoSvc == [by |-> NoOne, id |-> 0]
NoRow == [by |-> NoOne, id |-> 0]
AName == CHOOSE n \in Names : TRUE
Idle == [pc |-> "idle", kind |-> "start", who |-> NoOne, n |-> AName, id |-> 0,
         force |-> FALSE, failed |-> FALSE, todo |-> {}, go |-> {}, seen |-> {},
         pend |-> {}, owed |-> {}, tries |-> 0]

\* Some of the accounts are in the class, and some of those have a fork and a host,
\* which is service 1.
Init ==
  \E nm \in Settled : LET A == DOMAIN nm IN
    /\ acct = [a \in People |-> IF a \in A THEN [st |-> "in", name |-> nm[a]]
                               ELSE [st |-> "none", name |-> AName]]
    /\ enrolled \in SUBSET A
    /\ \E H \in SUBSET enrolled :
         /\ repo = [n \in Names |-> IF \E a \in H : nm[a] = n
                                   THEN CHOOSE a \in H : nm[a] = n ELSE NoOne]
         /\ svc = [n \in Names |-> IF \E a \in H : nm[a] = n
                                  THEN [by |-> CHOOSE a \in H : nm[a] = n, id |-> 1]
                                  ELSE NoSvc]
    /\ row = svc
    /\ job = [t \in Threads |-> Idle]
    /\ late = {} /\ loose = {} /\ cut = {}
    /\ calls = 1
    /\ faults = 0

In(a) == acct[a].st = "in"
Holders(n) == {a \in People : In(a) /\ acct[a].name = n}
Live(n) == svc[n].id # 0
Recorded(n) == row[n].id # 0
At(t, pc) == job[t].pc = pc

\* CSMService.to_model: the user of that name, or else root.
Owner(n) == IF Holders(n) = {} THEN Root ELSE CHOOSE a \in Holders(n) : TRUE

\* The semaphore, and the fork's lock, which a thread that holds it must not ask for
\* again.
Free == Cardinality({t \in Threads : job[t].pc \in Docker}) < Slots
LockedTwice == \A t \in Threads : job[t].pc \notin {"lock", "post"}
Unlocked == \A t \in Threads : ~At(t, "post")

Go(t, pc) == job' = [job EXCEPT ![t].pc = pc]
End(t) == job' = [job EXCEPT ![t] = Idle]
Fault == faults < MaxFaults /\ faults' = faults + 1
NoFault == faults' = faults

TornDown(n) == \E t \in Threads : job[t].pc \in Tearing /\ job[t].kind = "teardown" /\ job[t].n = n
Starting(n) == \E t \in Threads : job[t].kind = "start" /\ ~At(t, "idle") /\ job[t].n = n

\* A start makes something of name n.
Made(n, a) == late' = IF TornDown(n) \/ ~In(a) THEN late \cup {n} ELSE late

Begin(t, k, a, n, pc) ==
  /\ At(t, "idle")
  /\ calls < MaxCalls /\ calls' = calls + 1
  /\ job' = [job EXCEPT ![t] = [Idle EXCEPT !.kind = k, !.who = a, !.n = n, !.pc = pc]]
  /\ UNCHANGED <<acct, enrolled, repo, svc, row, history, faults>>

-----------------------------------------------------------------------------
(* Registration and enrolment. *)

\* By Google account, whose mail address gives a base; or with a username.
Register(t, a) ==
  /\ acct[a].st = "none"
  /\ \/ \E n \in Bases : Begin(t, "register", a, n, "name")
     \/ \E n \in Names : Begin(t, "register", a, n, "enter")

\* find_username: the name with _1 is looked for as such, and kept as a slug, so it
\* always seems free.
Name(t) ==
  /\ At(t, "name")
  /\ job' = [job EXCEPT ![t].pc = "enter",
                        ![t].n = IF Holders(@) = {} THEN @ ELSE Second[@]]
  /\ UNCHANGED <<acct, enrolled, repo, svc, row, history, calls, faults>>

\* The students S enter the class.  A removal that is under way owes theirs no longer.
Owed(j, S) == [j EXCEPT !.owed = @ \ S]

\* The unique index refuses a name that is taken.  A class code given with the
\* registration enrols in the same commit.
Enter(t) ==
  /\ At(t, "enter")
  /\ LET a == job[t].who n == job[t].n IN
       \/ /\ Holders(n) = {} /\ acct[a].st = "none"
          /\ acct' = [acct EXCEPT ![a] = [st |-> "in", name |-> n]]
          /\ \E S \in {{}, {a}} :
               /\ enrolled' = enrolled \cup S
               /\ job' = [u \in Threads |-> IF u = t THEN Idle ELSE Owed(job[u], S)]
       \/ /\ Holders(n) # {} \/ acct[a].st # "none"
          /\ End(t) /\ UNCHANGED <<acct, enrolled>>
  /\ UNCHANGED <<repo, svc, row, history, calls, faults>>

\* add_class.
Enrol(a) ==
  /\ In(a) /\ a \notin enrolled
  /\ calls < MaxCalls /\ calls' = calls + 1
  /\ enrolled' = enrolled \cup {a}
  /\ job' = [t \in Threads |-> Owed(job[t], {a})]
  /\ UNCHANGED <<acct, repo, svc, row, history, faults>>

-----------------------------------------------------------------------------
(* start_class and new_cs. *)

Start(t, a) == In(a) /\ Begin(t, "start", a, acct[a].name, "find")

\* sync_to_db of the service of name n.
Record(n) ==
  /\ row' = [row EXCEPT ![n] = [by |-> Owner(n), id |-> svc[n].id]]
  /\ loose' = IF Owner(n) = svc[n].by THEN loose \ {n} ELSE loose

Find(t) ==
  /\ At(t, "find") /\ Free
  /\ LET n == job[t].n IN
       \/ /\ \E m \in Names : row[m].by = job[t].who
          /\ End(t) /\ UNCHANGED <<row, loose>>
       \/ /\ \A m \in Names : row[m].by # job[t].who
          /\ Live(n)
          /\ Record(n) /\ End(t)
       \/ /\ \A m \in Names : row[m].by # job[t].who
          /\ ~Live(n)
          /\ Go(t, "slot") /\ UNCHANGED <<row, loose>>
  /\ UNCHANGED <<acct, enrolled, repo, svc, late, cut, calls, faults>>

Acquire(t) ==
  /\ At(t, "slot") /\ Free
  /\ Go(t, "fork")
  /\ UNCHANGED <<acct, enrolled, repo, svc, row, history, calls, faults>>

\* _repo_exists: an error counts as no.
Fork(t) ==
  /\ At(t, "fork")
  /\ \/ repo[job[t].n] # NoOne /\ Go(t, "run") /\ NoFault
     \/ repo[job[t].n] = NoOne /\ Go(t, "lock") /\ NoFault
     \/ Go(t, "lock") /\ Fault
  /\ UNCHANGED <<acct, enrolled, repo, svc, row, history, calls>>

Lock(t) ==
  /\ At(t, "lock") /\ Unlocked
  /\ Go(t, "post")
  /\ UNCHANGED <<acct, enrolled, repo, svc, row, history, calls, faults>>

OneMore(n) == n < Attempts
Again(n) == n + 1 < Attempts

\* create_fork, again after a 429 or a 403 "already being forked"; it may raise
\* with the fork made.
Post(t) ==
  /\ At(t, "post")
  /\ LET n == job[t].n IN
       \/ /\ repo' = [repo EXCEPT ![n] = IF @ = NoOne THEN job[t].who ELSE @]
          /\ Made(n, job[t].who)
          /\ \/ Go(t, "ready") /\ NoFault
             \/ End(t) /\ Fault
       \/ /\ IF Again(job[t].tries)
             THEN job' = [job EXCEPT ![t].tries = @ + 1]
             ELSE End(t)
          /\ UNCHANGED <<repo, late>> /\ NoFault
  /\ UNCHANGED <<acct, enrolled, svc, row, loose, cut, calls>>

\* _wait_repo_ready, or its TimeoutError.
Ready(t) ==
  /\ At(t, "ready")
  /\ \/ Go(t, "run") /\ NoFault
     \/ End(t) /\ Fault
  /\ UNCHANGED <<acct, enrolled, repo, svc, row, history, calls>>

\* An earlier row, a new service, or (409) the service there is, looked up without
\* asking for the slot that is held.  Service ids are the number of requests so far.
Run(t) ==
  /\ At(t, "run")
  /\ LET n == job[t].n IN
       \/ /\ Recorded(n)
          /\ End(t) /\ UNCHANGED <<svc, late, loose>> /\ NoFault
       \/ /\ ~Recorded(n) /\ ~Live(n)
          /\ svc' = [svc EXCEPT ![n] = [by |-> job[t].who, id |-> calls]]
          /\ Made(n, job[t].who)
          /\ \/ job' = [job EXCEPT ![t].pc = "commit", ![t].id = calls]
                /\ UNCHANGED loose /\ NoFault
             \/ End(t) /\ loose' = loose \cup {n} /\ Fault
       \/ /\ ~Recorded(n) /\ Live(n)
          /\ job' = [job EXCEPT ![t].pc = "commit", ![t].id = svc[n].id]
          /\ UNCHANGED <<svc, late, loose>> /\ NoFault
       \/ /\ End(t) /\ UNCHANGED <<svc, late, loose>> /\ Fault
  /\ UNCHANGED <<acct, enrolled, repo, row, cut, calls>>

Commit(t) ==
  /\ At(t, "commit")
  /\ LET n == job[t].n IN
       \/ /\ row' = [row EXCEPT ![n] = [by |-> Owner(n), id |-> job[t].id]]
          /\ loose' = IF svc[n].id \in {0, job[t].id} THEN loose ELSE loose \cup {n}
          /\ NoFault
       \/ UNCHANGED row /\ loose' = loose \cup {n} /\ Fault
  /\ End(t)
  /\ UNCHANGED <<acct, enrolled, repo, svc, late, cut, calls>>

-----------------------------------------------------------------------------
(* stop_host, for the routes and the teardown. *)

Stop(t, a) ==
  \E n \in Names :
    /\ row[n].by = a
    /\ At(t, "idle") /\ calls < MaxCalls /\ calls' = calls + 1
    /\ job' = [job EXCEPT ![t] = [Idle EXCEPT !.kind = "stop", !.who = a, !.n = n,
                                              !.id = row[n].id, !.pc = "push"]]
    /\ UNCHANGED <<acct, enrolled, repo, svc, row, history, faults>>

\* CodeHostRepo.push: it fails without the service, unless the row is MIA.
Push(t) ==
  /\ At(t, "push") /\ Free
  /\ \/ Go(t, "halt") /\ NoFault
     \/ /\ svc[job[t].n].id # job[t].id
        /\ job' = [job EXCEPT ![t].pc = "halt", ![t].failed = TRUE] /\ NoFault
     \/ job' = [job EXCEPT ![t].pc = "halt", ![t].failed = TRUE] /\ Fault
  /\ UNCHANGED <<acct, enrolled, repo, svc, row, history, calls>>

Halt(t) ==
  /\ At(t, "halt") /\ Free
  /\ LET n == job[t].n IN
       \/ /\ svc' = IF svc[n].id = job[t].id THEN [svc EXCEPT ![n] = NoSvc] ELSE svc
          /\ Go(t, "row") /\ NoFault
       \/ /\ job' = [job EXCEPT ![t].pc = "row", ![t].failed = TRUE]
          /\ UNCHANGED svc /\ Fault
  /\ UNCHANGED <<acct, enrolled, repo, row, history, calls>>

\* Where stop_host's caller goes on.
After(t) == CASE job[t].kind = "stop" -> "idle"
              [] job[t].kind = "teardown" -> "list"
              [] OTHER -> "drop"

\* The row's deletion commits what the session holds; a rollback loses it, and the
\* session cannot remove a student who is not in the class any more.
RowDelete(t) ==
  /\ At(t, "row")
  /\ LET n == job[t].n
         kept == row[n].id # job[t].id
         p == job[t].pend IN
       \/ /\ p \subseteq enrolled
          /\ row' = IF kept THEN row ELSE [row EXCEPT ![n] = NoRow]
          /\ loose' = IF ~kept /\ svc[n].id = job[t].id THEN loose \cup {n} ELSE loose
          /\ enrolled' = enrolled \ p
          /\ job' = [job EXCEPT ![t].pc = After(t), ![t].pend = {}]
          /\ NoFault
       \/ /\ job' = [job EXCEPT ![t].pc = After(t), ![t].failed = TRUE, ![t].pend = {},
                                ![t].owed = @ \ p]
          /\ UNCHANGED <<row, loose, enrolled>>
          /\ IF p \subseteq enrolled THEN Fault ELSE NoFault
  /\ UNCHANGED <<acct, repo, svc, late, cut, calls>>

-----------------------------------------------------------------------------
(* teardown_user, with or without force. *)

TearDown(t, a) == In(a) /\ \E force \in BOOLEAN :
  /\ At(t, "idle")
  /\ calls < MaxCalls /\ calls' = calls + 1
  /\ job' = [job EXCEPT ![t] = [Idle EXCEPT !.kind = "teardown", !.who = a,
                                 !.n = acct[a].name, !.force = force, !.pc = "hosts"]]
  /\ UNCHANGED <<acct, enrolled, repo, svc, row, history, faults>>

\* _stop_user_servers: a user's row has the user's name.
Hosts(t) ==
  /\ At(t, "hosts")
  /\ LET n == job[t].n IN
       IF row[n].by = job[t].who
       THEN job' = [job EXCEPT ![t].pc = "push", ![t].id = row[n].id]
       ELSE Go(t, "list")
  /\ UNCHANGED <<acct, enrolled, repo, svc, row, history, calls, faults>>

\* What may follow a dash at the end of a name.
Endings(s) == {SubSeq(s, i, Len(s)) : i \in 2 .. Len(s)}

\* The fork of name m is called Upstream-m.  The repositories whose names end with
\* a dash and the username:
AllRepos(n) == {m \in Names : repo[m] # NoOne}
Candidates(n) ==
  {m \in Names : repo[m] # NoOne /\ Spelling[n] \in Endings(Upstream \o Spelling[m])}

\* What a failed listing leaves.
QuietList(j) == [j EXCEPT !.pc = "record"]
FailedList(j) == [j EXCEPT !.pc = "record", !.failed = TRUE]

\* After a stop the session reloads the user, who may have been deleted.
List(t) ==
  /\ At(t, "list")
  /\ \/ /\ job[t].id # 0 /\ ~In(job[t].who)
        /\ End(t) /\ NoFault
     \/ /\ job[t].id # 0 => In(job[t].who)
        /\ \/ job' = [job EXCEPT ![t].pc = "repos", ![t].todo = Candidates(job[t].n)]
              /\ NoFault
           \/ job' = [job EXCEPT ![t] = FailedList(@)] /\ Fault
  /\ UNCHANGED <<acct, enrolled, repo, svc, row, history, calls>>

\* GithubOrg.remove; one that is gone counts as removed.
DeleteRepo(t) ==
  /\ At(t, "repos")
  /\ \E m \in job[t].todo :
       \/ /\ repo' = [repo EXCEPT ![m] = NoOne]
          /\ job' = [job EXCEPT ![t].todo = @ \ {m}] /\ NoFault
       \/ /\ job' = [job EXCEPT ![t].todo = @ \ {m}, ![t].failed = TRUE]
          /\ UNCHANGED repo /\ Fault
  /\ UNCHANGED <<acct, enrolled, svc, row, history, calls>>

ReposDone(t) ==
  /\ At(t, "repos") /\ job[t].todo = {}
  /\ Go(t, "record")
  /\ UNCHANGED <<acct, enrolled, repo, svc, row, history, calls, faults>>

\* The record goes with its places in classes; a row of the user's forbids it.
Erase(a, left) ==
  IF In(a) /\ \A m \in Names : row[m].by # a
  THEN LET n == acct[a].name IN
       /\ acct' = [acct EXCEPT ![a].st = "gone"]
       /\ enrolled' = enrolled \ {a}
       /\ cut' = IF left THEN cut \cup {n} ELSE cut
       /\ late' = IF Starting(n) THEN late \cup {n} ELSE late
  ELSE UNCHANGED <<acct, enrolled, cut, late>>

EraseRecord(t) ==
  /\ At(t, "record")
  /\ \/ /\ ~job[t].failed \/ job[t].force
        /\ Erase(job[t].who, job[t].failed)
     \/ /\ job[t].failed /\ ~job[t].force
        /\ UNCHANGED <<acct, enrolled, cut, late>>
  /\ End(t)
  /\ UNCHANGED <<repo, svc, row, loose, calls, faults>>

\* auth/routes.py's admin_user deletes the record and nothing else.
DeleteRecord(a) ==
  /\ In(a) /\ \A m \in Names : row[m].by # a
  /\ calls < MaxCalls /\ calls' = calls + 1
  /\ Erase(a, TRUE)
  /\ UNCHANGED <<repo, svc, row, job, loose, faults>>

-----------------------------------------------------------------------------
(* remove_students. *)

Remove(t) == \E S \in SUBSET People :
  /\ S # {}
  /\ At(t, "idle")
  /\ calls < MaxCalls /\ calls' = calls + 1
  /\ job' = [job EXCEPT ![t] = [Idle EXCEPT !.kind = "remove", !.go = S, !.owed = S,
                                            !.seen = enrolled, !.pc = "pick"]]
  /\ UNCHANGED <<acct, enrolled, repo, svc, row, history, faults>>

\* One student of the list: skipped, stopped first, or removed.
Pick(t) ==
  /\ At(t, "pick")
  /\ \E a \in job[t].go :
       LET n == acct[a].name
           next == [job[t] EXCEPT !.go = @ \ {a}] IN
       job' = [job EXCEPT ![t] =
         IF ~In(a) \/ a \notin job[t].seen THEN next
         ELSE IF Recorded(n)
              THEN [next EXCEPT !.pc = "push", !.who = a, !.n = n, !.id = row[n].id]
              ELSE [next EXCEPT !.pend = @ \cup {a}, !.seen = @ \ {a}]]
  /\ UNCHANGED <<acct, enrolled, repo, svc, row, history, calls, faults>>

\* After stop_host the session loads the class again.
Drop(t) ==
  /\ At(t, "drop")
  /\ LET a == job[t].who IN
       IF a \in enrolled
       THEN job' = [job EXCEPT ![t].pc = "pick", ![t].pend = {a},
                               ![t].seen = enrolled \ {a}]
       ELSE End(t)
  /\ UNCHANGED <<acct, enrolled, repo, svc, row, history, calls, faults>>

\* The last commit fails when a removed student is not in the class any more.
Stay(p) == UNCHANGED enrolled
Leave(p) == enrolled' = enrolled \ p

Submit(t) ==
  /\ At(t, "pick") /\ job[t].go = {}
  /\ \/ /\ job[t].pend \subseteq enrolled
        /\ Leave(job[t].pend)
        /\ job' = [job EXCEPT ![t].pc = "reply", ![t].pend = {}]
     \/ /\ ~(job[t].pend \subseteq enrolled)
        /\ End(t) /\ UNCHANGED enrolled
  /\ UNCHANGED <<acct, repo, svc, row, history, calls, faults>>

Reply(t) ==
  /\ At(t, "reply")
  /\ End(t)
  /\ UNCHANGED <<acct, enrolled, repo, svc, row, history, calls, faults>>

-----------------------------------------------------------------------------
(* Other processes, and the fate of this one. *)

\* admin/routes.py's delete_host deletes a row and nothing else.
DeleteRow(n) ==
  /\ Recorded(n)
  /\ calls < MaxCalls /\ calls' = calls + 1
  /\ row' = [row EXCEPT ![n] = NoRow]
  /\ loose' = IF Live(n) THEN loose \cup {n} ELSE loose
  /\ UNCHANGED <<acct, enrolled, repo, svc, job, late, cut, faults>>

\* A sync pass records a service, or records its owner anew.
Sync(n) ==
  /\ Live(n) /\ row[n].id \in {0, svc[n].id}
  /\ Record(n) /\ row' # row
  /\ UNCHANGED <<acct, enrolled, repo, svc, job, late, cut, calls, faults>>

\* A pass marks a row whose service is gone, and the reaper deletes it.
Reap(n) ==
  /\ Recorded(n) /\ row[n].id # svc[n].id
  /\ row' = [row EXCEPT ![n] = NoRow]
  /\ UNCHANGED <<acct, enrolled, repo, svc, job, history, calls, faults>>

Crash ==
  /\ \E t \in Threads : ~At(t, "idle")
  /\ job' = [t \in Threads |-> Idle]
  /\ loose' = loose \cup {n \in Names : Live(n) /\ ~Recorded(n)}
  /\ Fault
  /\ UNCHANGED <<acct, enrolled, repo, svc, row, late, cut, calls>>

Step(t) ==
  \/ Name(t) \/ Enter(t)
  \/ Find(t) \/ Acquire(t) \/ Fork(t) \/ Lock(t) \/ Post(t) \/ Ready(t) \/ Run(t)
  \/ Commit(t)
  \/ Push(t) \/ Halt(t) \/ RowDelete(t)
  \/ Hosts(t) \/ List(t) \/ DeleteRepo(t) \/ ReposDone(t) \/ EraseRecord(t)
  \/ Pick(t) \/ Drop(t) \/ Submit(t) \/ Reply(t)

Request(t) ==
  \/ \E a \in People : Register(t, a) \/ Start(t, a) \/ Stop(t, a) \/ TearDown(t, a)
  \/ Remove(t)

Elsewhere ==
  \/ \E a \in People : Enrol(a) \/ DeleteRecord(a)
  \/ \E n \in Names : DeleteRow(n) \/ Sync(n) \/ Reap(n)

Next ==
  \/ \E t \in Threads : Step(t) \/ Request(t)
  \/ Elsewhere
  \/ Crash

Spec == Init /\ [][Next]_vars

\* A request's thread runs on; a semaphore and a lock serve whoever waits, as the
\* requests are finitely many.
Fairness == \A t \in Threads : WF_vars(Step(t))
FairSpec == Spec /\ Fairness

-----------------------------------------------------------------------------
(* Properties. *)

\* Once an account is deleted (admin/teardown.py: "Only delete the user record if
\* everything else is confirmed gone"), its fork and its service are gone: but for
\* those a start used during the teardown, a service that had lost its row, and a
\* deletion by force or from the users page.
NothingOutlives ==
  \A n \in Names :
    /\ repo[n] # NoOne /\ ~In(repo[n]) => n \in late \cup cut
    /\ Live(n) /\ ~In(svc[n].by) => n \in late \cup cut \cup loose

\* A teardown deletes a fork of another account only if the torn account's username
\* also ends that fork's name: as the other username ends with a dash and the torn
\* one, or as the torn one is the other username after a dash and the last words of
\* the upstream's name; or if the torn account is deleted meanwhile and its username
\* used again.
SameEnd(m, n) ==
  \/ Spelling[n] \in Endings(Spelling[m])
  \/ \E u \in Endings(Upstream) : Spelling[n] = u \o Spelling[m]

TakesOwn ==
  \A n \in Names : repo[n] # NoOne /\ repo'[n] = NoOne /\ In(repo[n]) =>
    \E t \in Threads :
      /\ job[t].kind = "teardown"
      /\ \/ repo[n] = job[t].who
         \/ SameEnd(acct[repo[n]].name, job[t].n)
         \/ ~In(job[t].who)

TeardownTakesOwn == [][TakesOwn]_vars

\* When remove_students answers that the students have been removed, they have:
\* those it skipped were not in the class.  (Those a rollback in stop_host put back
\* are not owed.)
RemovedAreOut ==
  \A t \in Threads : At(t, "reply") => job[t].owed \cap enrolled = {}

\* Every request ends: no thread waits for the slot that it holds itself, nor two
\* for each other's.
RequestsEnd == \A t \in Threads : ~At(t, "idle") ~> At(t, "idle")

=============================================================================
