--------------------------- MODULE Accounts_proofs ---------------------------
(***************************************************************************)
(* Proofs about Accounts: types, that what belongs to an account does not    *)
(* outlive it, that a teardown takes its own account's forks, and that a     *)
(* removal has removed those it reports.                                      *)
(***************************************************************************)
EXTENDS Accounts, SequenceTheorems, TLAPS

\* Names are not shared, and the class has members.
Settles ==
  /\ \A a, b \in People : In(a) /\ In(b) /\ acct[a].name = acct[b].name => a = b
  /\ \A a \in enrolled : In(a)

Known(a, n) == a \in People /\ acct[a].st # "none" /\ acct[a].name = n

\* What is somebody's has that one's name.
Named ==
  /\ \A n \in Names : repo[n] # NoOne => Known(repo[n], n)
  /\ \A n \in Names : Live(n) => Known(svc[n].by, n)

\* A start and a teardown work on the name of their account; a removal stops the
\* host of a student it is at.
JobMatch(j) ==
  /\ j.pc \in Docker \cup {"find", "slot"} => j.kind = "start" /\ Known(j.who, j.n)
  /\ j.pc \in {"hosts", "list", "repos", "record"} => j.kind = "teardown"
  /\ j.pc \in Tearing /\ j.kind = "teardown" => Known(j.who, j.n)
  /\ j.pc \in {"name", "enter"} => j.who \in People
  /\ j.pc = "name" => j.n \in Bases
  /\ j.pc \in Stopping /\ j.kind \notin {"teardown", "stop"} => j.kind = "remove"
  /\ j.pc \in {"pick", "drop", "reply"} => j.kind = "remove"
  /\ j.pc = "repos" => \A m \in j.todo : m = j.n \/ SameEnd(m, j.n)

Matched == \A t \in Threads : JobMatch(job[t])

\* The service of an account that is in has its row, or a start at its commit, or has
\* been let go of.
Excused == late \cup loose \cup cut
Adopting(t, n) == At(t, "commit") /\ job[t].n = n /\ job[t].id = svc[n].id
Tracked(n) ==
  Live(n) /\ In(svc[n].by) =>
    \/ n \in Excused
    \/ row[n] = svc[n]
    \/ ~Recorded(n) /\ \E t \in Threads : Adopting(t, n)

AllTracked == \A n \in Names : Tracked(n)

\* Without a failure, a teardown that has listed the forks deletes the account's.
Deletes(j) ==
  j.pc \in {"repos", "record"} /\ ~j.failed /\ In(j.who) /\ repo[j.n] = j.who =>
    \/ j.n \in late
    \/ j.pc = "repos" /\ j.n \in j.todo

AllDelete == \A t \in Threads : Deletes(job[t])

\* Of those a removal owes, the ones in the class are still to be removed.
Owes(j) ==
  /\ j.pc = "pick" => j.owed \cap enrolled \subseteq (j.go \cap j.seen) \cup j.pend
  /\ j.pc \in Stopping \cup {"drop"} /\ j.kind = "remove" =>
       j.owed \cap enrolled \subseteq (j.go \cap j.seen) \cup j.pend \cup {j.who}
  /\ j.pc = "drop" => j.pend = {}
  /\ j.pc = "reply" => j.owed \cap enrolled = {}

AllOwe == \A t \in Threads : Owes(job[t])

IInv ==
  /\ TypeOK /\ Settles /\ Named /\ Matched /\ AllTracked /\ AllDelete /\ AllOwe
  /\ NothingOutlives

-----------------------------------------------------------------------------
(* Types, and what a step leaves alone. *)

LEMMA ANameType == AName \in Names
BY AccountsAssumption DEF AName

LEMMA IdleType == Idle \in JobRec
BY ANameType, AccountsAssumption DEF Idle, JobRec, Pcs, Kinds

LEMMA JobFields ==
  ASSUME TypeOK, NEW t \in Threads
  PROVE  /\ job[t] \in JobRec
         /\ job[t].pc \in Pcs /\ job[t].kind \in Kinds
         /\ job[t].who \in People \cup {NoOne} /\ job[t].n \in Names
         /\ job[t].id \in 0 .. MaxCalls
         /\ job[t].todo \subseteq Names /\ job[t].go \subseteq People
         /\ job[t].seen \subseteq People /\ job[t].pend \subseteq People
         /\ job[t].owed \subseteq People
BY DEF TypeOK, JobRec

LEMMA IdleMatches == JobMatch(Idle) /\ Deletes(Idle) /\ Owes(Idle)
BY DEF JobMatch, Deletes, Owes, Idle, Docker, Tearing, Stopping

\* A step of one thread's job alone.
JobTurns(t, j) ==
  /\ t \in Threads /\ j \in JobRec
  /\ job' = [job EXCEPT ![t] = j]

LEMMA TurnsAre ==
  ASSUME TypeOK, NEW t, NEW j, JobTurns(t, j)
  PROVE  /\ job' \in [Threads -> JobRec]
         /\ job'[t] = j
         /\ \A u \in Threads : u # t => job'[u] = job[u]
BY DEF TypeOK, JobTurns

LEMMA MatchedTurns ==
  ASSUME TypeOK, Matched, NEW t, NEW j, JobTurns(t, j), JobMatch(j), UNCHANGED acct
  PROVE  Matched'
<1>1. \A u \in Threads : JobMatch(job'[u])
  BY TurnsAre DEF Matched, JobTurns
<1> QED
  BY <1>1 DEF Matched, JobMatch, Known

LEMMA DeleteTurns ==
  ASSUME TypeOK, AllDelete, NEW t, NEW j, JobTurns(t, j), Deletes(j),
         UNCHANGED <<acct, repo, late>>
  PROVE  AllDelete'
<1>1. \A u \in Threads : Deletes(job'[u])
  BY TurnsAre DEF AllDelete, JobTurns
<1> QED
  BY <1>1 DEF AllDelete, Deletes, In

LEMMA OweTurns ==
  ASSUME TypeOK, AllOwe, NEW t, NEW j, JobTurns(t, j), Owes(j), UNCHANGED enrolled
  PROVE  AllOwe'
<1>1. \A u \in Threads : Owes(job'[u])
  BY TurnsAre DEF AllOwe, JobTurns
<1> QED
  BY <1>1 DEF AllOwe, Owes

\* Other threads go on adopting.
LEMMA TrackedTurns ==
  ASSUME TypeOK, AllTracked, NEW t, NEW j, JobTurns(t, j), ~At(t, "commit"),
         UNCHANGED <<acct, svc, row, late, loose, cut>>
  PROVE  AllTracked'
<1> SUFFICES ASSUME NEW n \in Names PROVE Tracked(n)'
  BY DEF AllTracked
<1>1. Tracked(n)
  BY DEF AllTracked
<1>2. \A u \in Threads : Adopting(u, n) => Adopting(u, n)'
  BY TurnsAre DEF Adopting, At
<1> QED
  BY <1>1, <1>2 DEF Tracked, Live, In, Excused, Recorded

LEMMA SettlesFrame ==
  ASSUME Settles, UNCHANGED <<acct, enrolled>>
  PROVE  Settles'
BY DEF Settles, In

LEMMA NamedFrame ==
  ASSUME Named, UNCHANGED <<acct, repo, svc>>
  PROVE  Named'
BY DEF Named, Known, Live

LEMMA OutlivesFrame ==
  ASSUME NothingOutlives, UNCHANGED <<acct, repo, svc, late, loose, cut>>
  PROVE  NothingOutlives'
BY DEF NothingOutlives, Live, In

LEMMA JobOnly ==
  ASSUME IInv, NEW t, NEW j, JobTurns(t, j), ~At(t, "commit"),
         JobMatch(j), Deletes(j), Owes(j),
         UNCHANGED <<acct, enrolled, repo, svc, row, history>>,
         calls' \in 1 .. MaxCalls, faults' \in 0 .. MaxFaults
  PROVE  IInv'
<1>1. TypeOK'
  BY TurnsAre DEF IInv, TypeOK, history
<1> QED
  BY <1>1, SettlesFrame, NamedFrame, OutlivesFrame, MatchedTurns, DeleteTurns, OweTurns,
     TrackedTurns DEF IInv, history

-----------------------------------------------------------------------------
(* Steps of a job alone. *)

LEMMA PlusOne == calls < MaxCalls /\ TypeOK => calls + 1 \in 1 .. MaxCalls
BY AccountsAssumption DEF TypeOK

LEMMA FaultType == (Fault \/ NoFault) /\ TypeOK => faults' \in 0 .. MaxFaults
BY AccountsAssumption DEF TypeOK, Fault, NoFault

LEMMA EndOnly ==
  ASSUME IInv, NEW t \in Threads, End(t), ~At(t, "commit"),
         UNCHANGED <<acct, enrolled, repo, svc, row, history>>,
         calls' \in 1 .. MaxCalls, faults' \in 0 .. MaxFaults
  PROVE  IInv'
<1>1. JobTurns(t, Idle)
  BY IdleType DEF JobTurns, End
<1> QED
  BY <1>1, IdleMatches, JobOnly

LEMMA GoTurns ==
  ASSUME TypeOK, NEW t \in Threads, NEW pc \in Pcs, Go(t, pc)
  PROVE  JobTurns(t, [job[t] EXCEPT !.pc = pc])
<1>1. job' = [job EXCEPT ![t] = [job[t] EXCEPT !.pc = pc]]
  BY DEF Go, TypeOK
<1>2. [job[t] EXCEPT !.pc = pc] \in JobRec
  BY JobFields DEF JobRec
<1> QED
  BY <1>1, <1>2 DEF JobTurns

\* Along a start, or from its end into nothing.
LEMMA StartGoes ==
  ASSUME IInv, NEW t \in Threads, NEW pc \in Docker, Go(t, pc),
         job[t].pc \in Docker \cup {"find", "slot"}, ~At(t, "commit"),
         UNCHANGED <<acct, enrolled, repo, svc, row, history>>,
         calls' \in 1 .. MaxCalls, faults' \in 0 .. MaxFaults
  PROVE  IInv'
<1> DEFINE j == [job[t] EXCEPT !.pc = pc]
<1>0. TypeOK /\ JobMatch(job[t])
  BY DEF IInv, Matched
<1>1. JobTurns(t, j)
  BY <1>0, GoTurns DEF Pcs
<1>2. JobMatch(j)
  BY <1>0, JobFields DEF JobMatch, JobRec, Docker, Stopping, Tearing
<1>3. Deletes(j) /\ Owes(j)
  BY <1>0, JobFields DEF JobRec, Deletes, Owes, Docker, Stopping
<1> QED
  BY <1>1, <1>2, <1>3, JobOnly

LEMMA BeginStep ==
  ASSUME IInv, NEW t \in Threads, NEW k \in {"register", "start"}, NEW a \in People,
         NEW n \in Names, NEW pc \in {"name", "enter", "find"}, Begin(t, k, a, n, pc),
         pc = "find" => k = "start" /\ Known(a, n),
         pc = "name" => n \in Bases
  PROVE  IInv'
<1> DEFINE j == [Idle EXCEPT !.kind = k, !.who = a, !.n = n, !.pc = pc]
<1>1. JobTurns(t, j)
  BY IdleType DEF JobTurns, Begin, JobRec, Pcs, Kinds, Idle
<1>2. JobMatch(j) /\ Deletes(j) /\ Owes(j)
  BY DEF JobMatch, Deletes, Owes, Idle, Docker, Stopping, Tearing
<1>3. ~At(t, "commit")
  BY DEF Begin, At
<1> QED
  BY <1>1, <1>2, <1>3, JobOnly, PlusOne DEF Begin, IInv, TypeOK

LEMMA RegisterStep ==
  ASSUME IInv, NEW t \in Threads, NEW a \in People, Register(t, a)
  PROVE  IInv'
BY BeginStep, AccountsAssumption DEF Register

LEMMA StartStep ==
  ASSUME IInv, NEW t \in Threads, NEW a \in People, Start(t, a)
  PROVE  IInv'
<1>1. acct[a].name \in Names
  BY DEF IInv, TypeOK, Accts
<1>2. Known(a, acct[a].name)
  BY DEF Start, Known, In
<1> QED
  BY <1>1, <1>2, BeginStep DEF Start

LEMMA NameStep ==
  ASSUME IInv, NEW t \in Threads, Name(t)
  PROVE  IInv'
<1> DEFINE m == IF Holders(job[t].n) = {} THEN job[t].n ELSE Second[job[t].n]
<1> DEFINE j == [job[t] EXCEPT !.pc = "enter", !.n = m]
<1>0. TypeOK /\ JobMatch(job[t])
  BY DEF IInv, Matched
<1>1. job' = [job EXCEPT ![t] = j]
  BY DEF Name, TypeOK, IInv
<1>2. m \in Names
  BY <1>0, JobFields, AccountsAssumption DEF JobMatch, Name, At
<1>3. j \in JobRec
  BY <1>0, <1>2, JobFields, ZenonT(30) DEF JobRec, Pcs
<1>4. JobTurns(t, j)
  BY <1>1, <1>3 DEF JobTurns
<1>5. j.pc = "enter" /\ j.kind = job[t].kind /\ j.who = job[t].who
  BY <1>0, JobFields DEF JobRec
<1>6. JobMatch(j) /\ Deletes(j) /\ Owes(j)
  BY <1>0, <1>5 DEF JobMatch, Deletes, Owes, Docker, Stopping, Tearing, Name, At
<1>7. ~At(t, "commit")
  BY DEF Name, At
<1> QED
  BY <1>4, <1>6, <1>7, JobOnly DEF Name, IInv, TypeOK

LEMMA AcquireStep ==
  ASSUME IInv, NEW t \in Threads, Acquire(t)
  PROVE  IInv'
BY StartGoes DEF Acquire, At, Docker, IInv, TypeOK

LEMMA LockStep ==
  ASSUME IInv, NEW t \in Threads, Lock(t)
  PROVE  IInv'
BY StartGoes DEF Lock, At, Docker, IInv, TypeOK

LEMMA ForkStep ==
  ASSUME IInv, NEW t \in Threads, Fork(t)
  PROVE  IInv'
BY StartGoes, FaultType DEF Fork, At, Docker, IInv, TypeOK

LEMMA ReadyStep ==
  ASSUME IInv, NEW t \in Threads, Ready(t)
  PROVE  IInv'
<1>1. faults' \in 0 .. MaxFaults /\ calls' \in 1 .. MaxCalls
  BY FaultType DEF Ready, IInv, TypeOK
<1>2. job[t].pc \in Docker /\ ~At(t, "commit")
  BY DEF Ready, At, Docker
<1>3. UNCHANGED <<acct, enrolled, repo, svc, row, history>>
  BY DEF Ready
<1>4. CASE Go(t, "run")
  BY <1>1, <1>2, <1>3, <1>4, StartGoes DEF Docker
<1>5. CASE End(t)
  BY <1>1, <1>2, <1>3, <1>5, EndOnly
<1> QED
  BY <1>4, <1>5 DEF Ready

LEMMA ReplyStep ==
  ASSUME IInv, NEW t \in Threads, Reply(t)
  PROVE  IInv'
BY EndOnly DEF Reply, At, IInv, TypeOK

LEMMA StopStep ==
  ASSUME IInv, NEW t \in Threads, NEW a \in People, Stop(t, a)
  PROVE  IInv'
<1>1. PICK n \in Names :
        /\ row[n].by = a
        /\ At(t, "idle") /\ calls < MaxCalls /\ calls' = calls + 1
        /\ job' = [job EXCEPT ![t] = [Idle EXCEPT !.kind = "stop", !.who = a, !.n = n,
                                                  !.id = row[n].id, !.pc = "push"]]
        /\ UNCHANGED <<acct, enrolled, repo, svc, row, history, faults>>
  BY DEF Stop
<1> DEFINE j == [Idle EXCEPT !.kind = "stop", !.who = a, !.n = n, !.id = row[n].id,
                             !.pc = "push"]
<1>2. row[n].id \in 0 .. MaxCalls
  BY DEF IInv, TypeOK, RowRec
<1>3. j \in JobRec
  BY <1>2, IdleType DEF JobRec, Pcs, Kinds, Idle, Tearing
<1>4. JobMatch(j) /\ Deletes(j) /\ Owes(j)
  BY DEF JobMatch, Deletes, Owes, Idle, Docker, Stopping, Tearing
<1>5. JobTurns(t, j) /\ ~At(t, "commit")
  BY <1>1, <1>3 DEF JobTurns, At
<1> QED
  BY <1>1, <1>4, <1>5, JobOnly, PlusOne DEF IInv, TypeOK

LEMMA TearDownStep ==
  ASSUME IInv, NEW t \in Threads, NEW a \in People, TearDown(t, a)
  PROVE  IInv'
<1>1. PICK force \in BOOLEAN :
        /\ At(t, "idle")
        /\ calls < MaxCalls /\ calls' = calls + 1
        /\ job' = [job EXCEPT ![t] = [Idle EXCEPT !.kind = "teardown", !.who = a,
                                       !.n = acct[a].name, !.force = force, !.pc = "hosts"]]
        /\ UNCHANGED <<acct, enrolled, repo, svc, row, history, faults>>
  BY DEF TearDown
<1> DEFINE j == [Idle EXCEPT !.kind = "teardown", !.who = a, !.n = acct[a].name,
                             !.force = force, !.pc = "hosts"]
<1>2. acct[a].name \in Names /\ Known(a, acct[a].name)
  BY DEF IInv, TypeOK, Accts, TearDown, Known, In
<1>3. j \in JobRec
  BY <1>2, IdleType DEF JobRec, Pcs, Kinds, Idle, Tearing
<1>4. JobMatch(j) /\ Deletes(j) /\ Owes(j)
  BY <1>2 DEF JobMatch, Deletes, Owes, Idle, Docker, Stopping, Tearing
<1>5. JobTurns(t, j) /\ ~At(t, "commit")
  BY <1>1, <1>3 DEF JobTurns, At
<1> QED
  BY <1>1, <1>4, <1>5, JobOnly, PlusOne DEF IInv, TypeOK

LEMMA RemoveStep ==
  ASSUME IInv, NEW t \in Threads, Remove(t)
  PROVE  IInv'
<1>1. PICK S \in SUBSET People :
        /\ S # {}
        /\ At(t, "idle")
        /\ calls < MaxCalls /\ calls' = calls + 1
        /\ job' = [job EXCEPT ![t] = [Idle EXCEPT !.kind = "remove", !.go = S, !.owed = S,
                                                  !.seen = enrolled, !.pc = "pick"]]
        /\ UNCHANGED <<acct, enrolled, repo, svc, row, history, faults>>
  BY DEF Remove
<1> DEFINE j == [Idle EXCEPT !.kind = "remove", !.go = S, !.owed = S,
                             !.seen = enrolled, !.pc = "pick"]
<1>3. j \in JobRec
  BY IdleType DEF JobRec, Pcs, Kinds, Idle, IInv, TypeOK
<1>4. JobMatch(j) /\ Deletes(j) /\ Owes(j)
  BY DEF JobMatch, Deletes, Owes, Idle, Docker, Stopping, Tearing
<1>5. JobTurns(t, j) /\ ~At(t, "commit")
  BY <1>1, <1>3 DEF JobTurns, At
<1> QED
  BY <1>1, <1>4, <1>5, JobOnly, PlusOne DEF IInv, TypeOK

LEMMA PushStep ==
  ASSUME IInv, NEW t \in Threads, Push(t)
  PROVE  IInv'
<1>0. TypeOK /\ JobMatch(job[t]) /\ Owes(job[t])
  BY DEF IInv, Matched, AllOwe
<1>1. PICK f \in BOOLEAN : job' = [job EXCEPT ![t] = [job[t] EXCEPT !.pc = "halt", !.failed = f]]
  <2>1. /\ job[t].failed \in BOOLEAN
        /\ [job[t] EXCEPT !.pc = "halt"] = [job[t] EXCEPT !.pc = "halt", !.failed = job[t].failed]
    BY <1>0, JobFields DEF JobRec
  <2>2. CASE Go(t, "halt")
    <3>1. job' = [job EXCEPT ![t] = [job[t] EXCEPT !.pc = "halt"]]
      BY <1>0, <2>2 DEF Go, TypeOK
    <3> QED
      BY <2>1, <3>1
  <2>3. CASE job' = [job EXCEPT ![t].pc = "halt", ![t].failed = TRUE]
    BY <1>0, <2>3 DEF TypeOK
  <2> QED
    BY <2>2, <2>3 DEF Push
<1> DEFINE j == [job[t] EXCEPT !.pc = "halt", !.failed = f]
<1>2. j \in JobRec
  BY <1>0, JobFields, ZenonT(30) DEF JobRec, Pcs, Tearing
<1>3. j.pc = "halt" /\ \A f2 \in {"kind", "who", "n", "go", "seen", "pend", "owed"} : j[f2] = job[t][f2]
  BY <1>0, JobFields DEF JobRec
<1>4. JobMatch(j) /\ Deletes(j) /\ Owes(j)
  BY <1>0, <1>3 DEF JobMatch, Deletes, Owes, Docker, Stopping, Tearing, Push, At
<1>5. JobTurns(t, j) /\ ~At(t, "commit")
  BY <1>1, <1>2 DEF JobTurns, At, Push
<1> QED
  BY <1>1, <1>4, <1>5, JobOnly, FaultType DEF IInv, TypeOK, Push

LEMMA HostsStep ==
  ASSUME IInv, NEW t \in Threads, Hosts(t)
  PROVE  IInv'
<1>0. TypeOK /\ JobMatch(job[t])
  BY DEF IInv, Matched
<1>1. PICK pc \in {"push", "list"}, i \in 0 .. MaxCalls :
        job' = [job EXCEPT ![t] = [job[t] EXCEPT !.pc = pc, !.id = i]]
  <2>1. job[t].n \in Names /\ row[job[t].n].id \in 0 .. MaxCalls
    BY <1>0, JobFields DEF TypeOK, RowRec
  <2>2. CASE row[job[t].n].by = job[t].who
    BY <1>0, <2>1, <2>2 DEF TypeOK, Hosts
  <2>3. CASE row[job[t].n].by # job[t].who
    <3>1. Go(t, "list")
      BY <2>3 DEF Hosts
    <3>2. job' = [job EXCEPT ![t] = [job[t] EXCEPT !.pc = "list"]]
      BY <1>0, <3>1 DEF Go, TypeOK
    <3>3. job[t].id \in 0 .. MaxCalls
          /\ [job[t] EXCEPT !.pc = "list"] = [job[t] EXCEPT !.pc = "list", !.id = job[t].id]
      BY <1>0, JobFields DEF JobRec
    <3> QED
      BY <3>2, <3>3
  <2> QED
    BY <2>2, <2>3
<1> DEFINE j == [job[t] EXCEPT !.pc = pc, !.id = i]
<1>2. j \in JobRec
  BY <1>0, JobFields, ZenonT(30) DEF JobRec, Pcs, Tearing
<1>3. j.pc = pc /\ j.kind = job[t].kind /\ j.who = job[t].who /\ j.n = job[t].n
  BY <1>0, JobFields DEF JobRec
<1>4. JobMatch(j) /\ Deletes(j) /\ Owes(j)
  BY <1>0, <1>3 DEF JobMatch, Deletes, Owes, Docker, Stopping, Tearing, Hosts, At
<1>5. JobTurns(t, j) /\ ~At(t, "commit")
  BY <1>1, <1>2 DEF JobTurns, At, Hosts
<1> QED
  BY <1>1, <1>4, <1>5, JobOnly DEF IInv, TypeOK, Hosts

\* Whatever ends Upstream-m after a dash is m, or ends m after a dash, or is m after a
\* dash and an ending of Upstream.
LEMMA EndingsOfFork ==
  ASSUME NEW u \in Seq(Words), NEW m \in Seq(Words), NEW e, e \in Endings(u \o m)
  PROVE  e = m \/ e \in Endings(m) \/ \E v \in Endings(u) : e = v \o m
<1> DEFINE f == u \o m
           a == Len(u)
           b == Len(m)
<1>1. /\ a \in Nat /\ b \in Nat /\ f \in Seq(Words) /\ Len(f) = a + b
      /\ \A i \in 1 .. a + b : f[i] = IF i <= a THEN u[i] ELSE m[i - a]
      /\ \A i \in 1 .. a + b : f[i] \in Words
      /\ \A i \in 1 .. a : u[i] \in Words
      /\ \A i \in 1 .. b : m[i] \in Words
  BY ConcatProperties
<1>2. PICK i \in 2 .. a + b : e = SubSeq(f, i, a + b)
  BY <1>1 DEF Endings
<1>3. /\ e \in Seq(Words) /\ Len(e) = a + b - i + 1
      /\ \A k \in 1 .. a + b - i + 1 : e[k] = f[i + k - 1]
  <2>1. i \in Int /\ a + b \in Int /\ i <= a + b /\ \A k \in i .. a + b : f[k] \in Words
    BY <1>1
  <2> HIDE DEF f, a, b
  <2> QED
    BY <1>1, <1>2, <2>1, SubSeqProperties, SMTT(20)
<1> HIDE DEF f, a, b
<1>4. CASE i = a + 1
  <2>1. Len(e) = b /\ \A k \in 1 .. b : e[k] = m[k]
    BY <1>1, <1>3, <1>4
  <2> QED
    BY <1>3, <2>1, SeqEqual DEF b
<1>5. CASE i > a + 1
  <2> DEFINE w == SubSeq(m, i - a, b)
  <2>1. i - a \in 2 .. b
    BY <1>1, <1>5
  <2>2. /\ w \in Seq(Words) /\ Len(w) = b - (i - a) + 1
        /\ \A k \in 1 .. b - (i - a) + 1 : w[k] = m[i - a + k - 1]
    <3>1. \A k \in i - a .. b : m[k] \in Words
      BY <1>1, <2>1
    <3>2. i - a \in Int /\ b \in Int /\ i - a <= b
      BY <1>1, <2>1
    <3> QED
      BY <3>1, <3>2, SubSeqProperties
  <2>3. Len(e) = Len(w) /\ \A k \in 1 .. Len(e) : e[k] = w[k]
    BY <1>1, <1>3, <1>5, <2>2
  <2>4. e = w
    BY <1>3, <2>2, <2>3, SeqEqual
  <2> QED
    BY <2>1, <2>4 DEF Endings, b
<1>6. CASE i <= a
  <2> DEFINE v == SubSeq(u, i, a)
  <2>1. i \in 2 .. a
    BY <1>1, <1>6
  <2>2. /\ v \in Seq(Words) /\ Len(v) = a - i + 1
        /\ \A k \in 1 .. a - i + 1 : v[k] = u[i + k - 1]
    <3>1. \A k \in i .. a : u[k] \in Words
      BY <1>1, <2>1
    <3>2. i \in Int /\ a \in Int /\ i <= a
      BY <1>1, <2>1
    <3> QED
      BY <3>1, <3>2, SubSeqProperties
  <2> HIDE DEF v
  <2>3. /\ v \o m \in Seq(Words) /\ Len(v \o m) = a - i + 1 + b
        /\ \A k \in 1 .. a - i + 1 + b :
             (v \o m)[k] = IF k <= a - i + 1 THEN v[k] ELSE m[k - (a - i + 1)]
    BY <2>2, ConcatProperties DEF b
  <2>4. Len(e) = Len(v \o m) /\ \A k \in 1 .. Len(e) : e[k] = (v \o m)[k]
    <3>1. Len(e) = Len(v \o m)
      BY <1>1, <1>3, <2>3
    <3>2. ASSUME NEW k \in 1 .. Len(e) PROVE e[k] = (v \o m)[k]
      <4>0. i \in Int /\ k \in Int /\ a \in Int /\ b \in Int
        BY <1>1, <1>3, <2>1
      <4>1. /\ i + k - 1 \in 1 .. a + b
            /\ k \in 1 .. a - i + 1 + b
            /\ k \in 1 .. a + b - i + 1
        BY <1>1, <1>3, <2>1, <3>2
      <4>2. e[k] = f[i + k - 1]
        BY <1>3, <4>1
      <4>3. f[i + k - 1] = IF i + k - 1 <= a THEN u[i + k - 1] ELSE m[i + k - 1 - a]
        BY <1>1, <4>1
      <4>4. (v \o m)[k] = IF k <= a - i + 1 THEN v[k] ELSE m[k - (a - i + 1)]
        BY <2>3, <4>1
      <4>5. CASE k <= a - i + 1
        <5>1. k \in 1 .. a - i + 1 /\ i + k - 1 <= a
          BY <4>0, <4>1, <4>5
        <5>2. v[k] = u[i + k - 1]
          BY <2>2, <5>1
        <5> QED
          BY <4>2, <4>3, <4>4, <4>5, <5>1, <5>2
      <4>6. CASE ~(k <= a - i + 1)
        <5>1. ~(i + k - 1 <= a) /\ i + k - 1 - a = k - (a - i + 1)
          BY <4>0, <4>6
        <5> QED
          BY <4>2, <4>3, <4>4, <4>6, <5>1
      <4> QED
        BY <4>5, <4>6
    <3> QED
      BY <3>1, <3>2
  <2>5. e = v \o m
    BY <1>3, <2>3, <2>4, SeqEqual
  <2> QED
    BY <2>1, <2>5 DEF Endings, a, v
<1> QED
  <2>1. i \in Int /\ a \in Int
    BY <1>1
  <2>2. i = a + 1 \/ i > a + 1 \/ i <= a
    BY <2>1
  <2> QED
    BY <1>4, <1>5, <1>6, <2>2

\* The fork of an account ends with its name.
LEMMA ForkEnds ==
  ASSUME NEW u \in Seq(Words) \ {<<>>}, NEW m \in Seq(Words) \ {<<>>}
  PROVE  m \in Endings(u \o m)
<1> DEFINE f == u \o m
           a == Len(u)
           b == Len(m)
<1>1. /\ a \in Nat \ {0} /\ b \in Nat \ {0} /\ f \in Seq(Words) /\ Len(f) = a + b
      /\ \A i \in 1 .. a + b : f[i] = IF i <= a THEN u[i] ELSE m[i - a]
      /\ \A i \in 1 .. b : m[i] \in Words
  BY ConcatProperties, EmptySeq
<1> HIDE DEF f, a, b
<1> DEFINE w == SubSeq(f, a + 1, a + b)
<1>2. /\ w \in Seq(Words) /\ Len(w) = b
      /\ \A k \in 1 .. b : w[k] = f[a + k]
  <2>1. a + 1 \in Int /\ a + b \in Int /\ a + 1 <= a + b
        /\ \A k \in a + 1 .. a + b : f[k] \in Words
    BY <1>1
  <2>2. /\ w \in Seq(Words) /\ Len(w) = (a + b) - (a + 1) + 1
        /\ \A k \in 1 .. (a + b) - (a + 1) + 1 : w[k] = f[a + 1 + k - 1]
    BY <2>1, SubSeqProperties
  <2>3. (a + b) - (a + 1) + 1 = b /\ \A k \in 1 .. b : a + 1 + k - 1 = a + k
    BY <1>1
  <2> HIDE DEF w
  <2> QED
    BY <2>2, <2>3
<1>3. \A k \in 1 .. b : w[k] = m[k]
  <2> HIDE DEF w
  <2> QED
    BY <1>1, <1>2
<1>4. w = m
  BY <1>1, <1>2, <1>3, SeqEqual DEF b
<1>5. a + 1 \in 2 .. Len(f)
  BY <1>1
<1> QED
  BY <1>1, <1>4, <1>5 DEF Endings, f

\* A teardown of n deletes n's fork and those that share the end of their name.
LEMMA CandidatesEnd ==
  ASSUME NEW n \in Names
  PROVE  /\ \A m \in Candidates(n) : m = n \/ SameEnd(m, n)
         /\ repo[n] # NoOne => n \in Candidates(n)
<1>1. ASSUME NEW m \in Candidates(n) PROVE m = n \/ SameEnd(m, n)
  <2>1. /\ m \in Names /\ Upstream \in Seq(Words)
        /\ Spelling[m] \in Seq(Words)
        /\ Spelling[n] \in Endings(Upstream \o Spelling[m])
    BY AccountsAssumption DEF Candidates
  <2>2. \/ Spelling[n] = Spelling[m]
        \/ Spelling[n] \in Endings(Spelling[m])
        \/ \E v \in Endings(Upstream) : Spelling[n] = v \o Spelling[m]
    <3>1. \A u, w \in Seq(Words) : \A e \in Endings(u \o w) :
            e = w \/ e \in Endings(w) \/ \E v \in Endings(u) : e = v \o w
      BY EndingsOfFork
    <3>2. \A e \in Endings(Upstream \o Spelling[m]) :
            \/ e = Spelling[m] \/ e \in Endings(Spelling[m])
            \/ \E v \in Endings(Upstream) : e = v \o Spelling[m]
      BY <2>1, <3>1
    <3> QED
      BY <2>1, <3>2
  <2> QED
    BY <2>1, <2>2, AccountsAssumption DEF SameEnd
<1>2. Spelling[n] \in Endings(Upstream \o Spelling[n])
  BY AccountsAssumption, ForkEnds
<1> QED
  BY <1>1, <1>2 DEF Candidates

LEMMA ListStep ==
  ASSUME IInv, NEW t \in Threads, List(t)
  PROVE  IInv'
<1>0. TypeOK /\ JobMatch(job[t])
  BY DEF IInv, Matched
<1>1. /\ ~At(t, "commit")
      /\ UNCHANGED <<acct, enrolled, repo, svc, row, history>>
      /\ calls' \in 1 .. MaxCalls /\ faults' \in 0 .. MaxFaults
  BY <1>0, FaultType DEF List, At, TypeOK
<1>2. CASE End(t)
  BY <1>1, <1>2, EndOnly
<1>3. CASE job' = [job EXCEPT ![t].pc = "repos", ![t].todo = Candidates(job[t].n)]
  <2> DEFINE j == [job[t] EXCEPT !.pc = "repos", !.todo = Candidates(job[t].n)]
  <2>1. job' = [job EXCEPT ![t] = j]
    BY <1>0, <1>3 DEF TypeOK
  <2>2. j \in JobRec
    BY <1>0, JobFields, ZenonT(30) DEF JobRec, Pcs, Tearing, Candidates
  <2>3. /\ j.pc = "repos" /\ j.kind = job[t].kind /\ j.who = job[t].who /\ j.n = job[t].n
        /\ j.todo = Candidates(job[t].n)
    BY <1>0, JobFields DEF JobRec
  <2>4. JobMatch(j) /\ Owes(j)
    BY <1>0, <2>3, JobFields, CandidatesEnd DEF JobMatch, Owes, Docker, Stopping, Tearing, List, At
  <2>5. Deletes(j)
    <3>1. SUFFICES ASSUME In(j.who), repo[j.n] = j.who PROVE j.n \in j.todo
      BY <2>3 DEF Deletes
    <3>2. j.who # NoOne /\ j.n \in Names
      BY <1>0, <2>3, JobFields, AccountsAssumption DEF JobMatch, Known, List, At, Tearing
    <3> QED
      BY <2>3, <3>1, <3>2, CandidatesEnd
  <2> QED
    BY <1>1, <2>1, <2>2, <2>4, <2>5, JobOnly DEF JobTurns
<1>4. CASE job' = [job EXCEPT ![t] = FailedList(@)]
  <2> DEFINE j == [job[t] EXCEPT !.pc = "record", !.failed = TRUE]
  <2>1. job' = [job EXCEPT ![t] = j]
    BY <1>4 DEF FailedList
  <2>2. j \in JobRec
    BY <1>0, JobFields, ZenonT(30) DEF JobRec, Pcs, Tearing
  <2>3. /\ j.pc = "record" /\ j.kind = job[t].kind /\ j.who = job[t].who /\ j.n = job[t].n
        /\ j.failed = TRUE
    BY <1>0, JobFields DEF JobRec
  <2>4. JobMatch(j) /\ Owes(j) /\ Deletes(j)
    BY <1>0, <2>3 DEF JobMatch, Owes, Deletes, Docker, Stopping, Tearing, List, At
  <2> QED
    BY <1>1, <2>1, <2>2, <2>4, JobOnly DEF JobTurns
<1> QED
  BY <1>2, <1>3, <1>4 DEF List

LEMMA ReposDoneStep ==
  ASSUME IInv, NEW t \in Threads, ReposDone(t)
  PROVE  IInv'
<1> DEFINE j == [job[t] EXCEPT !.pc = "record"]
<1>0. TypeOK /\ JobMatch(job[t]) /\ Deletes(job[t])
  BY DEF IInv, Matched, AllDelete
<1>1. JobTurns(t, j)
  BY <1>0, GoTurns DEF ReposDone, Pcs, Tearing
<1>2. /\ j.pc = "record" /\ j.kind = job[t].kind /\ j.who = job[t].who /\ j.n = job[t].n
      /\ j.failed = job[t].failed
  BY <1>0, JobFields DEF JobRec
<1>3. JobMatch(j) /\ Owes(j) /\ Deletes(j)
  BY <1>0, <1>2 DEF JobMatch, Owes, Deletes, Docker, Stopping, Tearing, ReposDone, At
<1> QED
  BY <1>1, <1>3, JobOnly DEF IInv, TypeOK, ReposDone, At

LEMMA PickStep ==
  ASSUME IInv, NEW t \in Threads, Pick(t)
  PROVE  IInv'
<1>0. TypeOK /\ JobMatch(job[t]) /\ Owes(job[t]) /\ Settles
  BY DEF IInv, Matched, AllOwe
<1>1. PICK a \in job[t].go :
        LET n == acct[a].name
            next == [job[t] EXCEPT !.go = @ \ {a}] IN
        job' = [job EXCEPT ![t] =
          IF ~In(a) \/ a \notin job[t].seen THEN next
          ELSE IF Recorded(n)
               THEN [next EXCEPT !.pc = "push", !.who = a, !.n = n, !.id = row[n].id]
               ELSE [next EXCEPT !.pend = @ \cup {a}, !.seen = @ \ {a}]]
  BY DEF Pick
<1> DEFINE n == acct[a].name
           next == [job[t] EXCEPT !.go = @ \ {a}]
<1>2. a \in People /\ n \in Names /\ row[n].id \in 0 .. MaxCalls
  BY <1>0, JobFields DEF TypeOK, Accts, RowRec
<1>3. /\ next \in JobRec /\ next.pc = "pick" /\ next.kind = "remove"
      /\ next.go = job[t].go \ {a} /\ next.seen = job[t].seen
      /\ next.pend = job[t].pend /\ next.owed = job[t].owed
  BY <1>0, JobFields DEF JobRec, Pick, At, JobMatch
<1>4. job[t].owed \cap enrolled \subseteq (job[t].go \cap job[t].seen) \cup job[t].pend
  BY <1>0 DEF Owes, Pick, At
<1>5. /\ ~At(t, "commit") /\ UNCHANGED <<acct, enrolled, repo, svc, row, history>>
      /\ calls' \in 1 .. MaxCalls /\ faults' \in 0 .. MaxFaults
  BY <1>0 DEF Pick, At, TypeOK
<1>6. CASE ~In(a) \/ a \notin job[t].seen
  <2>1. JobTurns(t, next)
    BY <1>1, <1>3, <1>6 DEF JobTurns
  <2>2. JobMatch(next) /\ Deletes(next)
    BY <1>3 DEF JobMatch, Deletes, Docker, Stopping, Tearing
  <2>3. Owes(next)
    BY <1>0, <1>3, <1>4, <1>6 DEF Owes, Settles, Stopping
  <2> QED
    BY <1>5, <2>1, <2>2, <2>3, JobOnly
<1>7. CASE In(a) /\ a \in job[t].seen /\ Recorded(n)
  <2> DEFINE j == [next EXCEPT !.pc = "push", !.who = a, !.n = n, !.id = row[n].id]
  <2>1. j \in JobRec
    BY <1>2, <1>3 DEF JobRec, Pcs, Tearing
  <2>2. /\ j.pc = "push" /\ j.kind = "remove" /\ j.who = a
        /\ j.go = next.go /\ j.seen = next.seen /\ j.pend = next.pend /\ j.owed = next.owed
    BY <1>3 DEF JobRec
  <2>3. JobTurns(t, j)
    BY <1>1, <1>7, <2>1 DEF JobTurns
  <2>4. JobMatch(j) /\ Deletes(j)
    BY <2>2 DEF JobMatch, Deletes, Docker, Stopping, Tearing
  <2>5. Owes(j)
    BY <1>3, <1>4, <2>2 DEF Owes, Stopping
  <2> QED
    BY <1>5, <2>3, <2>4, <2>5, JobOnly
<1>8. CASE In(a) /\ a \in job[t].seen /\ ~Recorded(n)
  <2> DEFINE j == [next EXCEPT !.pend = @ \cup {a}, !.seen = @ \ {a}]
  <2>1. j \in JobRec
    BY <1>2, <1>3 DEF JobRec
  <2>2. /\ j.pc = "pick" /\ j.kind = "remove" /\ j.go = next.go
        /\ j.seen = next.seen \ {a} /\ j.pend = next.pend \cup {a} /\ j.owed = next.owed
    BY <1>3 DEF JobRec
  <2>3. JobTurns(t, j)
    BY <1>1, <1>8, <2>1 DEF JobTurns
  <2>4. JobMatch(j) /\ Deletes(j)
    BY <2>2 DEF JobMatch, Deletes, Docker, Stopping, Tearing
  <2>5. Owes(j)
    BY <1>3, <1>4, <2>2 DEF Owes, Stopping
  <2> QED
    BY <1>5, <2>3, <2>4, <2>5, JobOnly
<1> QED
  BY <1>6, <1>7, <1>8

LEMMA DropStep ==
  ASSUME IInv, NEW t \in Threads, Drop(t)
  PROVE  IInv'
<1>0. TypeOK /\ JobMatch(job[t]) /\ Owes(job[t])
  BY DEF IInv, Matched, AllOwe
<1>1. /\ ~At(t, "commit") /\ UNCHANGED <<acct, enrolled, repo, svc, row, history>>
      /\ calls' \in 1 .. MaxCalls /\ faults' \in 0 .. MaxFaults
      /\ job[t].pc = "drop"
  BY <1>0 DEF Drop, At, TypeOK
<1>2. CASE job[t].who \notin enrolled
  BY <1>1, <1>2, EndOnly DEF Drop
<1>3. CASE job[t].who \in enrolled
  <2> DEFINE a == job[t].who
             j == [job[t] EXCEPT !.pc = "pick", !.pend = {a}, !.seen = enrolled \ {a}]
  <2>1. job' = [job EXCEPT ![t] = j]
    BY <1>0, <1>3 DEF Drop, TypeOK
  <2>0. enrolled \subseteq People
    BY <1>0 DEF TypeOK
  <2>2. j \in JobRec
    BY <1>0, <1>3, <2>0, JobFields, ZenonT(30) DEF JobRec, Pcs
  <2>3. /\ j.pc = "pick" /\ j.kind = "remove" /\ j.go = job[t].go
        /\ j.seen = enrolled \ {a} /\ j.pend = {a} /\ j.owed = job[t].owed
    BY <1>0, <1>1, JobFields DEF JobRec, JobMatch
  <2>4. JobMatch(j) /\ Deletes(j)
    BY <2>3 DEF JobMatch, Deletes, Docker, Stopping, Tearing
  <2>5. Owes(j)
    BY <1>0, <1>1, <2>3 DEF Owes, Stopping, JobMatch
  <2> QED
    BY <1>1, <2>1, <2>2, <2>4, <2>5, JobOnly DEF JobTurns
<1> QED
  BY <1>2, <1>3

-----------------------------------------------------------------------------
(* Steps that change accounts, the class, forks, services and rows. *)

LEMMA MatchedGrows ==
  ASSUME TypeOK, Matched,
         \A u \in Threads : job'[u] = job[u] \/ JobMatch(job'[u]),
         \A b \in People, n \in Names : Known(b, n) => Known(b, n)',
         \A u \in Threads : job'[u] \in JobRec
  PROVE  Matched'
<1> SUFFICES ASSUME NEW u \in Threads PROVE JobMatch(job[u])'
  BY DEF Matched
<1>1. JobMatch(job'[u])
  BY DEF Matched
<1>2. Known(job'[u].who, job'[u].n) => Known(job[u].who, job[u].n)'
  BY DEF Known, JobRec
<1> QED
  BY <1>1, <1>2 DEF JobMatch

LEMMA DeleteGrows ==
  ASSUME TypeOK, AllDelete,
         \A u \in Threads : job'[u] = job[u] \/ Deletes(job'[u]),
         UNCHANGED repo, late \subseteq late',
         \A b : In(b)' => In(b)
  PROVE  AllDelete'
<1> SUFFICES ASSUME NEW u \in Threads PROVE Deletes(job[u])'
  BY DEF AllDelete
<1>1. Deletes(job'[u])
  BY DEF AllDelete
<1>2. In(job[u].who)' => In(job'[u].who)
  BY DEF In
<1> QED
  BY <1>1, <1>2 DEF Deletes

LEMMA OweGrows ==
  ASSUME TypeOK, AllOwe,
         \A u \in Threads : job'[u] = job[u] \/ Owes(job'[u]),
         enrolled' \subseteq enrolled
  PROVE  AllOwe'
<1>1. \A u \in Threads : Owes(job'[u])
  BY DEF AllOwe
<1> QED
  BY <1>1 DEF AllOwe, Owes

\* Somebody's name is nobody else's.
LEMMA OwnerIs ==
  ASSUME Settles, NEW a \in People, NEW n, In(a), acct[a].name = n
  PROVE  Owner(n) = a
<1>1. Holders(n) = {a}
  BY DEF Settles, Holders
<1> QED
  BY <1>1 DEF Owner

LEMMA OwnerType ==
  ASSUME NEW n
  PROVE  Owner(n) = Root \/ (Owner(n) \in People /\ In(Owner(n)))
BY DEF Owner, Holders

LEMMA OwnerRec ==
  ASSUME NEW n, NEW i \in 0 .. MaxCalls
  PROVE  [by |-> Owner(n), id |-> i] \in RowRec
BY OwnerType DEF RowRec

\* Students enter the class: nothing of a job changes but what it owes.
LEMMA OwedFields ==
  ASSUME TypeOK, NEW u \in Threads, NEW S
  PROVE  Owed(job[u], S) \in JobRec
BY JobFields DEF JobRec, Owed

LEMMA EnterStep ==
  ASSUME IInv, NEW t \in Threads, Enter(t)
  PROVE  IInv'
<1> DEFINE a == job[t].who
           n == job[t].n
<1>0. TypeOK /\ Matched /\ JobMatch(job[t]) /\ Settles /\ Named /\ NothingOutlives
  BY DEF IInv, Matched
<1>1. /\ ~At(t, "commit") /\ a \in People /\ n \in Names
      /\ UNCHANGED <<repo, svc, row, history, calls, faults>>
  BY <1>0, JobFields DEF Enter, At, JobMatch
<1>2. CASE ~(Holders(n) = {} /\ acct[a].st = "none")
  <2>1. UNCHANGED <<acct, enrolled>> /\ End(t)
    BY <1>2 DEF Enter
  <2> QED
    BY <1>0, <1>1, <2>1, EndOnly DEF TypeOK
<1>3. CASE Holders(n) = {} /\ acct[a].st = "none"
  <2>1. PICK S \in {{}, {a}} :
          /\ acct' = [acct EXCEPT ![a] = [st |-> "in", name |-> n]]
          /\ enrolled' = enrolled \cup S
          /\ job' = [u \in Threads |-> IF u = t THEN Idle ELSE Owed(job[u], S)]
    BY <1>3 DEF Enter
  <2>2. /\ acct' \in [People -> Accts] /\ acct'[a] = [st |-> "in", name |-> n]
        /\ \A b \in People : b # a => acct'[b] = acct[b]
    BY <1>0, <1>1, <2>1 DEF TypeOK, Accts
  <2>3. \A b, m : Known(b, m) => b # a /\ Known(b, m)'
    BY <1>3, <2>2 DEF Known
  <2>4. \A b \in People : b # a => (In(b)' <=> In(b))
    BY <2>2 DEF In
  <2>5. ~In(a) /\ acct'[a].st = "in"
    BY <1>3, <2>2 DEF In
  <2>6. ASSUME NEW u \in Threads, u # t
        PROVE  /\ job'[u] \in JobRec /\ job'[u].owed = job[u].owed \ S
               /\ \A f \in {"pc", "kind", "who", "n", "id", "failed", "todo", "go", "seen", "pend"} :
                    job'[u][f] = job[u][f]
    <3>1. job'[u] = Owed(job[u], S)
      BY <2>1, <2>6
    <3> QED
      BY <1>0, <3>1, JobFields DEF JobRec, Owed
  <2>7. job'[t] = Idle
    BY <2>1
  <2>8. TypeOK'
    <3>1. job' \in [Threads -> JobRec]
      <4>1. \A u \in Threads : IF u = t THEN Idle \in JobRec ELSE Owed(job[u], S) \in JobRec
        BY <1>0, IdleType, OwedFields
      <4> QED
        BY <2>1, <4>1
    <3> QED
      BY <1>0, <1>1, <2>1, <2>2, <3>1 DEF TypeOK, history
  <2>9. Settles'
    <3>1. ASSUME NEW b \in People, NEW c \in People, In(b)', In(c)',
                 acct'[b].name = acct'[c].name
          PROVE  b = c
      BY <1>0, <1>3, <2>2, <2>4, <3>1 DEF Settles, Holders
    <3>2. ASSUME NEW b \in enrolled' PROVE In(b)'
      <4>1. CASE b = a
        BY <2>5, <4>1 DEF In
      <4>2. CASE b # a
        BY <1>0, <2>1, <2>4, <3>2, <4>2 DEF Settles, TypeOK
      <4> QED
        BY <4>1, <4>2
    <3> QED
      BY <3>1, <3>2 DEF Settles
  <2>10. Named'
    BY <1>0, <1>1, <2>3 DEF Named, Live
  <2>11. Matched'
    <3> SUFFICES ASSUME NEW u \in Threads PROVE JobMatch(job[u])'
      BY DEF Matched
    <3>1. CASE u = t
      BY <2>7, <3>1 DEF JobMatch, Idle, Docker, Tearing, Stopping
    <3>2. CASE u # t
      <4>1. JobMatch(job[u])
        BY <1>0 DEF Matched
      <4>2. /\ job'[u].pc = job[u].pc /\ job'[u].kind = job[u].kind /\ job'[u].who = job[u].who
            /\ job'[u].n = job[u].n /\ job'[u].todo = job[u].todo
        BY <2>6, <3>2
      <4>4. Known(job[u].who, job[u].n)
              => /\ job'[u].who \in People /\ acct'[job'[u].who].st # "none"
                 /\ acct'[job'[u].who].name = job'[u].n
        BY <4>2, <2>2, <1>3 DEF Known
      <4> QED
        BY <4>1, <4>2, <4>4 DEF JobMatch, Known
    <3> QED
      BY <3>1, <3>2
  <2>12. AllTracked'
    <3> SUFFICES ASSUME NEW m \in Names, Live(m)', In(svc[m].by)' PROVE Tracked(m)'
      BY DEF AllTracked, Tracked
    <3>1. Live(m) /\ svc'[m] = svc[m] /\ row' = row
      BY <1>1 DEF Live
    <3>2. svc[m].by # a /\ svc[m].by \in People
      BY <1>0, <2>3, <3>1 DEF Named, Known
    <3>3. In(svc[m].by)
      BY <2>4, <3>1, <3>2 DEF In
    <3>4. Tracked(m)
      BY DEF IInv, AllTracked
    <3>5. \A u \in Threads : Adopting(u, m) => Adopting(u, m)'
      BY <1>1, <2>6, <3>1 DEF Adopting, At
    <3> QED
      BY <1>1, <3>1, <3>3, <3>4, <3>5 DEF Tracked, Excused, history, Recorded
  <2>13. AllDelete'
    <3> SUFFICES ASSUME NEW u \in Threads PROVE Deletes(job[u])'
      BY DEF AllDelete
    <3>1. CASE u = t
      BY <2>7, <3>1 DEF Deletes, Idle
    <3>2. CASE u # t
      <4>1. /\ Deletes(job[u]) /\ JobMatch(job[u])
            /\ job'[u].pc = job[u].pc /\ job'[u].failed = job[u].failed
            /\ job'[u].who = job[u].who /\ job'[u].n = job[u].n /\ job'[u].todo = job[u].todo
        BY <1>0, <2>6, <3>2 DEF Matched, IInv, AllDelete
      <4>2. job[u].pc \in {"repos", "record"} => Known(job[u].who, job[u].n)
        BY <4>1 DEF JobMatch, Tearing
      <4>3. job[u].pc \in {"repos", "record"} => (In(job[u].who)' <=> In(job[u].who))
        BY <1>1, <2>3, <2>2, <4>1, <4>2 DEF Known, In
      <4> QED
        BY <1>1, <4>1, <4>3 DEF Deletes, history
    <3> QED
      BY <3>1, <3>2
  <2>14. AllOwe'
    <3> SUFFICES ASSUME NEW u \in Threads PROVE Owes(job[u])'
      BY DEF AllOwe
    <3>1. CASE u = t
      BY <2>7, <3>1 DEF Owes, Idle, Stopping
    <3>2. CASE u # t
      <4>1. Owes(job[u])
        BY DEF IInv, AllOwe
      <4>2. /\ job'[u].pc = job[u].pc /\ job'[u].kind = job[u].kind /\ job'[u].who = job[u].who
            /\ job'[u].go = job[u].go /\ job'[u].seen = job[u].seen /\ job'[u].pend = job[u].pend
        BY <2>6, <3>2
      <4>3. job'[u].owed \cap enrolled' \subseteq job[u].owed \cap enrolled
        BY <2>1, <2>6, <3>2
      <4> QED
        BY <4>1, <4>2, <4>3 DEF Owes
    <3> QED
      BY <3>1, <3>2
  <2>15. NothingOutlives'
    BY <1>0, <1>1, <2>4, <2>5, <2>2 DEF NothingOutlives, Live, In, history, Named, Known
  <2> QED
    BY <2>8, <2>9, <2>10, <2>11, <2>12, <2>13, <2>14, <2>15 DEF IInv
<1> QED
  BY <1>2, <1>3

LEMMA EnrolStep ==
  ASSUME IInv, NEW a \in People, Enrol(a)
  PROVE  IInv'
<1>0. TypeOK /\ Settles
  BY DEF IInv
<1>1. /\ UNCHANGED <<acct, repo, svc, row, history, faults>>
      /\ In(a) /\ a \notin enrolled /\ enrolled' = enrolled \cup {a}
      /\ calls' = calls + 1 /\ calls < MaxCalls
  BY DEF Enrol
<1>2. job' = [u \in Threads |-> Owed(job[u], {a})]
  BY DEF Enrol
<1>3. ASSUME NEW u \in Threads
      PROVE  /\ job'[u] \in JobRec /\ job'[u].owed = job[u].owed \ {a}
             /\ \A f \in {"pc", "kind", "who", "n", "id", "failed", "todo", "go", "seen", "pend"} :
                  job'[u][f] = job[u][f]
  <2>1. job'[u] = Owed(job[u], {a})
    BY <1>2
  <2> QED
    BY <1>0, <2>1, JobFields DEF JobRec, Owed
<1>4. TypeOK'
  <2>1. job' \in [Threads -> JobRec]
    BY <1>0, <1>2, OwedFields
  <2> QED
    BY <1>0, <1>1, <2>1, PlusOne DEF TypeOK, history
<1>5. Settles'
  BY <1>0, <1>1 DEF Settles, In
<1>6. Matched'
  <2> SUFFICES ASSUME NEW u \in Threads PROVE JobMatch(job[u])'
    BY DEF Matched
  <2>1. JobMatch(job[u])
    BY DEF IInv, Matched
  <2>2. /\ job'[u].pc = job[u].pc /\ job'[u].kind = job[u].kind /\ job'[u].who = job[u].who
        /\ job'[u].n = job[u].n /\ job'[u].todo = job[u].todo /\ acct' = acct
    BY <1>1, <1>3
  <2> QED
    BY <2>1, <2>2 DEF JobMatch, Known
<1>7. AllTracked'
  <2> SUFFICES ASSUME NEW n \in Names PROVE Tracked(n)'
    BY DEF AllTracked
  <2>1. Tracked(n)
    BY DEF IInv, AllTracked
  <2>2. \A u \in Threads : Adopting(u, n) => Adopting(u, n)'
    BY <1>1, <1>3 DEF Adopting, At
  <2> QED
    BY <1>1, <2>1, <2>2 DEF Tracked, Live, In, Excused, Recorded, history
<1>8. AllDelete'
  <2> SUFFICES ASSUME NEW u \in Threads PROVE Deletes(job[u])'
    BY DEF AllDelete
  <2>1. Deletes(job[u])
    BY DEF IInv, AllDelete
  <2>2. /\ job'[u].pc = job[u].pc /\ job'[u].failed = job[u].failed /\ job'[u].who = job[u].who
        /\ job'[u].n = job[u].n /\ job'[u].todo = job[u].todo /\ UNCHANGED <<acct, repo, late>>
    BY <1>1, <1>3 DEF history
  <2> QED
    BY <2>1, <2>2 DEF Deletes, In
<1>9. AllOwe'
  <2> SUFFICES ASSUME NEW u \in Threads PROVE Owes(job[u])'
    BY DEF AllOwe
  <2>1. Owes(job[u])
    BY DEF IInv, AllOwe
  <2>2. /\ job'[u].pc = job[u].pc /\ job'[u].kind = job[u].kind /\ job'[u].who = job[u].who
        /\ job'[u].go = job[u].go /\ job'[u].seen = job[u].seen /\ job'[u].pend = job[u].pend
    BY <1>3
  <2>3. job'[u].owed \cap enrolled' \subseteq job[u].owed \cap enrolled
    BY <1>1, <1>3
  <2> QED
    BY <2>1, <2>2, <2>3 DEF Owes
<1> QED
  BY <1>1, <1>4, <1>5, <1>6, <1>7, <1>8, <1>9, NamedFrame, OutlivesFrame DEF IInv, history

\* An account's record goes when its fork is gone or excused.
LEMMA EraseKeeps ==
  ASSUME IInv, NEW a \in People, NEW left \in BOOLEAN, Erase(a, left),
         UNCHANGED <<repo, svc, row, loose>>,
         left \/ (In(a) /\ repo[acct[a].name] = a => acct[a].name \in late)
  PROVE  /\ acct' \in [People -> Accts] /\ enrolled' \subseteq enrolled
         /\ late' \subseteq Names /\ cut' \subseteq Names
         /\ late \subseteq late' /\ cut \subseteq cut'
         /\ Settles' /\ Named' /\ NothingOutlives'
         /\ \A b : In(b)' => In(b)
         /\ \A b \in People, n \in Names : Known(b, n) => Known(b, n)'
<1>0. TypeOK /\ Settles /\ Named /\ NothingOutlives /\ AllTracked /\ Matched
  BY DEF IInv
<1>1. CASE ~(In(a) /\ \A m \in Names : row[m].by # a)
  <2>1. UNCHANGED <<acct, enrolled, cut, late>>
    BY <1>1 DEF Erase
  <2> QED
    BY <1>0, <2>1, SettlesFrame, NamedFrame, OutlivesFrame DEF TypeOK, In, Known
<1>2. CASE In(a) /\ \A m \in Names : row[m].by # a
  <2> DEFINE nm == acct[a].name
  <2>0. nm \in Names
    BY <1>0 DEF TypeOK, Accts
  <2>1. /\ acct' = [acct EXCEPT ![a].st = "gone"]
        /\ enrolled' = enrolled \ {a}
        /\ cut' = IF left THEN cut \cup {nm} ELSE cut
        /\ late' = IF Starting(nm) THEN late \cup {nm} ELSE late
    BY <1>2 DEF Erase
  <2>2. acct' = [acct EXCEPT ![a] = [acct[a] EXCEPT !.st = "gone"]]
    BY <1>0, <2>1 DEF TypeOK
  <2>3. acct[a] \in Accts /\ [acct[a] EXCEPT !.st = "gone"] \in Accts
    BY <1>0 DEF TypeOK, Accts
  <2>4. /\ acct' \in [People -> Accts] /\ acct'[a].st = "gone" /\ acct'[a].name = nm
        /\ \A b \in People : b # a => acct'[b] = acct[b]
    BY <1>0, <2>2, <2>3 DEF TypeOK, Accts
  <2>5. \A b \in People, n \in Names : Known(b, n) => Known(b, n)'
    BY <2>4 DEF Known
  <2>6. \A b : b # a => (In(b)' <=> In(b))
    BY <1>0, <2>1 DEF In, TypeOK
  <2>7. \A b : In(b)' => In(b) /\ b # a
    BY <1>2, <2>4, <2>6 DEF In
  <2>8. Settles'
    <3>1. ASSUME NEW b \in People, NEW c \in People, In(b)', In(c)',
                 acct'[b].name = acct'[c].name
          PROVE  b = c
      BY <1>0, <2>4, <2>7, <3>1 DEF Settles
    <3>2. ASSUME NEW b \in enrolled' PROVE In(b)'
      BY <1>0, <2>1, <2>6, <3>2 DEF Settles
    <3> QED
      BY <3>1, <3>2 DEF Settles
  <2>9. Named'
    <3>1. \A n \in Names : repo[n] # NoOne => Known(repo[n], n)'
      BY <1>0, <2>5 DEF Named, Known
    <3>2. \A n \in Names : svc[n].id # 0 => Known(svc[n].by, n)'
      BY <1>0, <2>5 DEF Named, Known, Live
    <3> QED
      BY <3>1, <3>2 DEF Named, Live, Known
  <2>10. ASSUME NEW n \in Names, repo[n] # NoOne, ~In(repo[n])'
         PROVE  n \in late' \cup cut'
    <3>1. CASE repo[n] = a
      BY <1>0, <1>2, <2>1, <2>10, <3>1 DEF Named, Known
    <3>2. CASE repo[n] # a
      BY <1>0, <2>1, <2>6, <2>10, <3>2 DEF NothingOutlives, In
    <3> QED
      BY <3>1, <3>2
  <2>11. ASSUME NEW n \in Names, Live(n), ~(acct'[svc[n].by].st = "in")
         PROVE  n \in late' \cup cut' \cup loose
    <3>1. CASE svc[n].by = a
      <4>1. n = nm
        BY <1>0, <2>11, <3>1 DEF Named, Known
      <4>2. CASE n \in Excused
        BY <2>1, <4>2 DEF Excused
      <4>3. CASE row[n] = svc[n]
        BY <1>2, <3>1, <4>3
      <4>4. CASE \E t \in Threads : Adopting(t, n)
        <5>1. PICK t \in Threads : Adopting(t, n)
          BY <4>4
        <5>2. JobMatch(job[t]) /\ job[t].pc = "commit" /\ job[t].n = n
          BY <1>0, <5>1 DEF Matched, Adopting, At
        <5>3. Starting(nm)
          BY <4>1, <5>2 DEF JobMatch, Docker, Starting, At
        <5> QED
          BY <2>1, <4>1, <5>3
      <4> QED
        BY <1>0, <1>2, <2>11, <3>1, <4>2, <4>3, <4>4 DEF AllTracked, Tracked
    <3>2. CASE svc[n].by # a
      BY <1>0, <2>1, <2>6, <2>11, <3>2 DEF NothingOutlives, In
    <3> QED
      BY <3>1, <3>2
  <2>12. NothingOutlives'
    BY <2>10, <2>11 DEF NothingOutlives, Live, In
  <2> QED
    BY <1>0, <2>0, <2>1, <2>4, <2>5, <2>7, <2>8, <2>9, <2>12 DEF TypeOK
<1> QED
  BY <1>1, <1>2

\* What an erasure leaves of the rest, when the job of t ends or none turns.
LEMMA ErasedRest ==
  ASSUME IInv, UNCHANGED <<repo, svc, row, loose>>,
         late \subseteq late', cut \subseteq cut', enrolled' \subseteq enrolled,
         \A b : In(b)' => In(b),
         \A b \in People, n \in Names : Known(b, n) => Known(b, n)',
         \A u \in Threads : job'[u] \in JobRec /\ (job'[u] = job[u] \/ (job'[u] = Idle /\ ~At(u, "commit")))
  PROVE  Matched' /\ AllTracked' /\ AllDelete' /\ AllOwe'
<1>1. Matched'
  BY MatchedGrows, IdleMatches DEF IInv
<1>2. AllDelete'
  BY DeleteGrows, IdleMatches DEF IInv
<1>3. AllOwe'
  BY OweGrows, IdleMatches DEF IInv
<1>4. ASSUME NEW n \in Names PROVE Tracked(n)'
  <2>1. Tracked(n)
    BY DEF IInv, AllTracked
  <2>2. \A u \in Threads : Adopting(u, n) => Adopting(u, n)'
    BY DEF Adopting, At
  <2>3. In(svc[n].by)' => In(svc[n].by)
    BY DEF In
  <2> QED
    BY <2>1, <2>2, <2>3 DEF Tracked, Live, Excused, Recorded
<1> QED
  BY <1>1, <1>2, <1>3, <1>4 DEF AllTracked

LEMMA EraseRecordStep ==
  ASSUME IInv, NEW t \in Threads, EraseRecord(t)
  PROVE  IInv'
<1>0. TypeOK /\ JobMatch(job[t]) /\ Deletes(job[t])
  BY DEF IInv, Matched, AllDelete
<1>1. /\ End(t) /\ ~At(t, "commit") /\ job[t].pc = "record"
      /\ UNCHANGED <<repo, svc, row, loose, calls, faults>>
  BY DEF EraseRecord, At
<1>2. Known(job[t].who, job[t].n)
  BY <1>0, <1>1 DEF JobMatch, Tearing
<1>3. job[t].failed \in BOOLEAN
  BY <1>0, JobFields DEF JobRec
<1>4. CASE UNCHANGED <<acct, enrolled, cut, late>>
  BY <1>0, <1>1, <1>4, EndOnly DEF TypeOK, history
<1>5. CASE Erase(job[t].who, job[t].failed)
  <2>1. job[t].failed \/ (In(job[t].who) /\ repo[acct[job[t].who].name] = job[t].who
                            => acct[job[t].who].name \in late)
    BY <1>0, <1>1, <1>2, <1>3 DEF Deletes, Known
  <2>2. job[t].who \in People
    BY <1>2 DEF Known
  <2> HIDE DEF Erase
  <2>3. /\ acct' \in [People -> Accts] /\ enrolled' \subseteq enrolled
        /\ late' \subseteq Names /\ cut' \subseteq Names
        /\ late \subseteq late' /\ cut \subseteq cut'
        /\ Settles' /\ Named' /\ NothingOutlives'
        /\ \A b : In(b)' => In(b)
        /\ \A b \in People, n \in Names : Known(b, n) => Known(b, n)'
    BY <1>1, <1>3, <1>5, <2>1, <2>2, EraseKeeps
  <2>4. JobTurns(t, Idle)
    BY <1>1, IdleType DEF End, JobTurns
  <2>5. \A u \in Threads : /\ job'[u] \in JobRec
                           /\ (job'[u] = job[u] \/ (job'[u] = Idle /\ ~At(u, "commit")))
    <3> SUFFICES ASSUME NEW u \in Threads
                 PROVE  job'[u] \in JobRec /\ (job'[u] = job[u] \/ (job'[u] = Idle /\ ~At(u, "commit")))
      OBVIOUS
    <3>1. CASE u = t
      BY <1>0, <1>1, <2>4, <3>1, TurnsAre, IdleType
    <3>2. CASE u # t
      <4>1. job'[u] = job[u]
        BY <1>0, <2>4, <3>2, TurnsAre
      <4>2. job[u] \in JobRec
        BY <1>0, JobFields
      <4> QED
        BY <4>1, <4>2
    <3> QED
      BY <3>1, <3>2
  <2>6. Matched' /\ AllTracked' /\ AllDelete' /\ AllOwe'
    BY <1>1, <2>3, <2>5, ErasedRest
  <2>7. TypeOK'
    BY <1>0, <1>1, <2>3, <2>4, TurnsAre DEF TypeOK
  <2> QED
    BY <2>3, <2>6, <2>7 DEF IInv
<1> QED
  BY <1>4, <1>5 DEF EraseRecord

LEMMA DeleteRecordStep ==
  ASSUME IInv, NEW a \in People, DeleteRecord(a)
  PROVE  IInv'
<1>0. TypeOK
  BY DEF IInv
<1>1. /\ UNCHANGED <<repo, svc, row, job, loose, faults>> /\ Erase(a, TRUE)
      /\ calls < MaxCalls /\ calls' = calls + 1
  BY DEF DeleteRecord
<1>2. /\ acct' \in [People -> Accts] /\ enrolled' \subseteq enrolled
      /\ late' \subseteq Names /\ cut' \subseteq Names
      /\ late \subseteq late' /\ cut \subseteq cut'
      /\ Settles' /\ Named' /\ NothingOutlives'
      /\ \A b : In(b)' => In(b)
      /\ \A b \in People, n \in Names : Known(b, n) => Known(b, n)'
  BY <1>1, EraseKeeps
<1>3. \A u \in Threads : /\ job'[u] \in JobRec
                         /\ (job'[u] = job[u] \/ (job'[u] = Idle /\ ~At(u, "commit")))
  <2>1. \A u \in Threads : job'[u] = job[u] /\ job[u] \in JobRec
    BY <1>0, <1>1, JobFields
  <2> QED
    BY <2>1
<1>4. Matched' /\ AllTracked' /\ AllDelete' /\ AllOwe'
  BY <1>1, <1>2, <1>3, ErasedRest
<1>5. TypeOK'
  BY <1>0, <1>1, <1>2, PlusOne DEF TypeOK
<1> QED
  BY <1>2, <1>4, <1>5 DEF IInv

\* A row recorded for a live service is its user's.
LEMMA RecordTracks ==
  ASSUME IInv, NEW n \in Names, Live(n), Record(n), UNCHANGED <<acct, repo, svc, late, cut>>
  PROVE  /\ row' \in [Names -> RowRec] /\ loose' \subseteq Names
         /\ row'[n] = [by |-> Owner(n), id |-> svc[n].id]
         /\ In(svc[n].by) => row'[n] = svc[n]
         /\ \A m \in Names : m # n => row'[m] = row[m] /\ (m \in loose' <=> m \in loose)
         /\ NothingOutlives'
<1>0. TypeOK /\ Settles /\ Named /\ NothingOutlives
  BY DEF IInv
<1>1. /\ row' = [row EXCEPT ![n] = [by |-> Owner(n), id |-> svc[n].id]]
      /\ loose' = IF Owner(n) = svc[n].by THEN loose \ {n} ELSE loose
  BY DEF Record
<1>2. svc[n] \in SvcRec /\ svc[n].id \in 0 .. MaxCalls
  BY <1>0 DEF TypeOK, SvcRec
<1>3. row' \in [Names -> RowRec] /\ row'[n] = [by |-> Owner(n), id |-> svc[n].id]
  BY <1>0, <1>1, <1>2, OwnerRec DEF TypeOK
<1>4. svc[n].by \in People /\ acct[svc[n].by].name = n
  BY <1>0 DEF Named, Known
<1>5. In(svc[n].by) => row'[n] = svc[n]
  <2>1. In(svc[n].by) => Owner(n) = svc[n].by
    BY <1>0, <1>4, OwnerIs
  <2>2. svc[n] = [by |-> svc[n].by, id |-> svc[n].id]
    BY <1>2 DEF SvcRec
  <2> QED
    BY <1>3, <2>1, <2>2
<1>6. ~In(svc[n].by) => loose' = loose
  BY <1>1, <1>4, OwnerType, AccountsAssumption
<1>7. \A m \in Names : m # n => row'[m] = row[m] /\ (m \in loose' <=> m \in loose)
  BY <1>0, <1>1 DEF TypeOK
<1>8. NothingOutlives'
  <2> SUFFICES ASSUME NEW m \in Names, Live(m), ~In(svc[m].by)
               PROVE  m \in late \cup cut \cup loose'
    BY <1>0 DEF NothingOutlives, Live, In
  <2>1. m \in late \cup cut \cup loose
    BY <1>0 DEF NothingOutlives
  <2> QED
    BY <1>6, <1>7, <2>1
<1> QED
  BY <1>0, <1>1, <1>3, <1>5, <1>7, <1>8 DEF TypeOK

\* The names but n stay tracked, when the jobs at a commit for them go on.
LEMMA OthersTracked ==
  ASSUME IInv, NEW n, UNCHANGED acct,
         \A m \in Names : m # n => /\ svc'[m] = svc[m] /\ row'[m] = row[m]
                                   /\ (m \in Excused => m \in Excused'),
         \A u \in Threads : job[u].n # n => job'[u] = job[u] \/ ~At(u, "commit")
  PROVE  \A m \in Names : m # n => Tracked(m)'
<1> SUFFICES ASSUME NEW m \in Names, m # n PROVE Tracked(m)'
  OBVIOUS
<1>1. Tracked(m)
  BY DEF IInv, AllTracked
<1>2. \A u \in Threads : Adopting(u, m) => Adopting(u, m)'
  BY DEF Adopting, At
<1> QED
  BY <1>1, <1>2 DEF Tracked, Live, In, Recorded

LEMMA FindStep ==
  ASSUME IInv, NEW t \in Threads, Find(t)
  PROVE  IInv'
<1> DEFINE n == job[t].n
<1>0. TypeOK /\ JobMatch(job[t]) /\ Settles
  BY DEF IInv, Matched
<1>1. /\ ~At(t, "commit") /\ job[t].pc = "find" /\ n \in Names
      /\ UNCHANGED <<acct, enrolled, repo, svc, late, cut, calls, faults>>
      /\ calls' \in 1 .. MaxCalls /\ faults' \in 0 .. MaxFaults
  BY <1>0, JobFields DEF Find, At, TypeOK
<1>2. CASE End(t) /\ UNCHANGED <<row, loose>>
  BY <1>1, <1>2, EndOnly DEF history
<1>3. CASE Live(n) /\ Record(n) /\ End(t)
  <2>1. JobTurns(t, Idle)
    BY <1>3, IdleType DEF End, JobTurns
  <2>2. /\ row' \in [Names -> RowRec] /\ loose' \subseteq Names
        /\ In(svc[n].by) => row'[n] = svc[n]
        /\ \A m \in Names : m # n => row'[m] = row[m] /\ (m \in loose' <=> m \in loose)
        /\ NothingOutlives'
    BY <1>1, <1>3, RecordTracks
  <2>3. TypeOK'
    BY <1>0, <1>1, <2>1, <2>2, TurnsAre DEF TypeOK
  <2>4. \A u \in Threads : job'[u] = job[u] \/ ~At(u, "commit")
    BY <1>0, <1>1, <2>1, TurnsAre
  <2>5. \A m \in Names : m # n => Tracked(m)'
    BY <1>1, <2>2, <2>4, OthersTracked DEF Excused
  <2>6. ASSUME NEW m \in Names PROVE Tracked(m)'
    <3>1. CASE m # n
      BY <2>5, <3>1
    <3>2. CASE m = n
      BY <1>1, <2>2, <3>2 DEF Tracked, In
    <3> QED
      BY <3>1, <3>2
  <2> QED
    BY <1>0, <1>1, <2>1, <2>2, <2>3, <2>6, SettlesFrame, NamedFrame, MatchedTurns, DeleteTurns,
       OweTurns, IdleMatches DEF IInv, AllTracked
<1>4. CASE Go(t, "slot") /\ UNCHANGED <<row, loose>>
  <2> DEFINE j == [job[t] EXCEPT !.pc = "slot"]
  <2>1. JobTurns(t, j)
    BY <1>0, <1>4, GoTurns DEF Pcs
  <2>2. JobMatch(j) /\ Deletes(j) /\ Owes(j)
    BY <1>0, <1>1, JobFields DEF JobMatch, JobRec, Docker, Stopping, Tearing, Deletes, Owes
  <2> QED
    BY <1>1, <1>4, <2>1, <2>2, JobOnly DEF history
<1> QED
  BY <1>2, <1>3, <1>4 DEF Find

LEMMA SyncStep ==
  ASSUME IInv, NEW n \in Names, Sync(n)
  PROVE  IInv'
<1>0. TypeOK
  BY DEF IInv
<1>1. /\ Live(n) /\ Record(n)
      /\ UNCHANGED <<acct, enrolled, repo, svc, job, late, cut, calls, faults>>
  BY DEF Sync
<1>2. /\ row' \in [Names -> RowRec] /\ loose' \subseteq Names
      /\ In(svc[n].by) => row'[n] = svc[n]
      /\ \A m \in Names : m # n => row'[m] = row[m] /\ (m \in loose' <=> m \in loose)
      /\ NothingOutlives'
  BY <1>1, RecordTracks
<1>3. TypeOK'
  BY <1>0, <1>1, <1>2 DEF TypeOK
<1>4. \A m \in Names : m # n => Tracked(m)'
  BY <1>1, <1>2, OthersTracked DEF Excused
<1>5. ASSUME NEW m \in Names PROVE Tracked(m)'
  <2>1. CASE m # n
    BY <1>4, <2>1
  <2>2. CASE m = n
    BY <1>1, <1>2, <2>2 DEF Tracked, In
  <2> QED
    BY <2>1, <2>2
<1>6. Matched' /\ AllDelete' /\ AllOwe'
  BY <1>1 DEF IInv, Matched, AllDelete, AllOwe, JobMatch, Known, Deletes, Owes, In
<1> QED
  BY <1>1, <1>2, <1>3, <1>5, <1>6, SettlesFrame, NamedFrame DEF IInv, AllTracked

LEMMA DeleteRowStep ==
  ASSUME IInv, NEW n \in Names, DeleteRow(n)
  PROVE  IInv'
<1>0. TypeOK
  BY DEF IInv
<1>1. /\ UNCHANGED <<acct, enrolled, repo, svc, job, late, cut, faults>>
      /\ row' = [row EXCEPT ![n] = NoRow]
      /\ loose' = IF Live(n) THEN loose \cup {n} ELSE loose
      /\ calls' \in 1 .. MaxCalls
  BY <1>0, PlusOne DEF DeleteRow
<1>2. NoRow \in RowRec
  BY AccountsAssumption DEF NoRow, RowRec
<1>3. TypeOK'
  BY <1>0, <1>1, <1>2 DEF TypeOK
<1>4. \A m \in Names : m # n => Tracked(m)'
  <2>1. \A m \in Names : m # n => /\ svc'[m] = svc[m] /\ row'[m] = row[m]
                                  /\ (m \in Excused => m \in Excused')
    BY <1>0, <1>1 DEF Excused, TypeOK
  <2> QED
    BY <1>1, <2>1, OthersTracked
<1>5. ASSUME NEW m \in Names PROVE Tracked(m)'
  <2>1. CASE m # n
    BY <1>4, <2>1
  <2>2. CASE m = n
    BY <1>1, <2>2 DEF Tracked, Live, Excused
  <2> QED
    BY <2>1, <2>2
<1>6. Matched' /\ AllDelete' /\ AllOwe'
  BY <1>1 DEF IInv, Matched, AllDelete, AllOwe, JobMatch, Known, Deletes, Owes, In
<1>7. NothingOutlives'
  BY <1>1 DEF IInv, NothingOutlives, Live, In
<1> QED
  BY <1>1, <1>3, <1>5, <1>6, <1>7, SettlesFrame, NamedFrame DEF IInv, AllTracked

LEMMA ReapStep ==
  ASSUME IInv, NEW n \in Names, Reap(n)
  PROVE  IInv'
<1>0. TypeOK
  BY DEF IInv
<1>1. /\ UNCHANGED <<acct, enrolled, repo, svc, job, history, calls, faults>>
      /\ row' = [row EXCEPT ![n] = NoRow]
      /\ Recorded(n) /\ row[n].id # svc[n].id
  BY DEF Reap
<1>2. NoRow \in RowRec
  BY AccountsAssumption DEF NoRow, RowRec
<1>3. TypeOK'
  BY <1>0, <1>1, <1>2 DEF TypeOK, history
<1>4. \A m \in Names : m # n => Tracked(m)'
  <2>1. \A m \in Names : m # n => /\ svc'[m] = svc[m] /\ row'[m] = row[m]
                                  /\ (m \in Excused => m \in Excused')
    BY <1>0, <1>1 DEF Excused, TypeOK, history
  <2> QED
    BY <1>1, <2>1, OthersTracked
<1>5. Tracked(n)'
  <2>1. Tracked(n)
    BY DEF IInv, AllTracked
  <2> QED
    BY <1>1, <2>1 DEF Tracked, Live, In, Excused, history
<1>6. Matched' /\ AllDelete' /\ AllOwe' /\ AllTracked'
  BY <1>1, <1>4, <1>5 DEF IInv, Matched, AllDelete, AllOwe, JobMatch, Known, Deletes, Owes, In,
     history, AllTracked
<1> QED
  BY <1>1, <1>3, <1>6, SettlesFrame, NamedFrame, OutlivesFrame DEF IInv, history

LEMMA PostStep ==
  ASSUME IInv, NEW t \in Threads, Post(t)
  PROVE  IInv'
<1> DEFINE n == job[t].n
           a == job[t].who
<1>0. TypeOK /\ JobMatch(job[t]) /\ Matched /\ Named /\ NothingOutlives
  BY DEF IInv, Matched
<1>1. /\ ~At(t, "commit") /\ job[t].pc = "post" /\ n \in Names
      /\ UNCHANGED <<acct, enrolled, svc, row, loose, cut, calls>>
      /\ calls' \in 1 .. MaxCalls /\ faults' \in 0 .. MaxFaults
  BY <1>0, JobFields, FaultType DEF Post, At, TypeOK
<1>2. Known(a, n) /\ a \in People /\ a # NoOne /\ job[t].kind = "start"
  BY <1>0, <1>1, AccountsAssumption DEF JobMatch, Known, Docker
<1>3. CASE /\ repo' = [repo EXCEPT ![n] = IF @ = NoOne THEN a ELSE @]
           /\ Made(n, a)
           /\ Go(t, "ready") \/ End(t)
  <2>1. PICK j \in JobRec : JobTurns(t, j) /\ j.pc \in {"ready", "idle"} /\ JobMatch(j)
                            /\ Deletes(j) /\ Owes(j)
    <3>1. CASE End(t)
      <4>1. JobTurns(t, Idle) /\ Idle.pc = "idle"
        BY <3>1, IdleType DEF End, JobTurns, Idle
      <4> QED
        BY <4>1, IdleType, IdleMatches
    <3>2. CASE Go(t, "ready")
      <4> DEFINE k == [job[t] EXCEPT !.pc = "ready"]
      <4>1. JobTurns(t, k)
        BY <1>0, <3>2, GoTurns DEF Pcs, Docker
      <4>2. k.pc = "ready" /\ JobMatch(k) /\ Deletes(k) /\ Owes(k)
        BY <1>0, <1>1, JobFields DEF JobMatch, JobRec, Docker, Stopping, Tearing, Deletes, Owes
      <4> QED
        BY <4>1, <4>2 DEF JobTurns
    <3> QED
      BY <1>3, <3>1, <3>2
  <2>2. /\ repo' \in [Names -> People \cup {NoOne}]
        /\ \A m \in Names : m # n => repo'[m] = repo[m]
        /\ repo'[n] = IF repo[n] = NoOne THEN a ELSE repo[n]
    BY <1>0, <1>1, <1>2, <1>3 DEF TypeOK
  <2>3. /\ late \subseteq late' /\ late' \subseteq Names
        /\ TornDown(n) \/ ~In(a) => n \in late'
    BY <1>0, <1>1, <1>3 DEF Made, TypeOK
  <2>4. TypeOK'
    BY <1>0, <1>1, <2>1, <2>2, <2>3, TurnsAre DEF TypeOK
  <2>5. Named'
    BY <1>0, <1>1, <1>2, <2>2 DEF Named, Known, Live
  <2>6. Matched'
    BY <1>0, <1>1, <2>1, MatchedTurns
  <2>7. AllOwe'
    BY <1>0, <1>1, <2>1, OweTurns DEF IInv
  <2>8. AllTracked'
    <3> SUFFICES ASSUME NEW m \in Names PROVE Tracked(m)'
      BY DEF AllTracked
    <3>1. Tracked(m)
      BY DEF IInv, AllTracked
    <3>2. \A u \in Threads : Adopting(u, m) => Adopting(u, m)'
      BY <1>0, <1>1, <2>1, TurnsAre DEF Adopting, At
    <3> QED
      BY <1>1, <2>3, <3>1, <3>2 DEF Tracked, Live, In, Excused, Recorded
  <2>9. AllDelete'
    <3> SUFFICES ASSUME NEW u \in Threads PROVE Deletes(job[u])'
      BY DEF AllDelete
    <3>1. CASE u = t
      BY <1>0, <2>1, <3>1, TurnsAre DEF Deletes
    <3>2. CASE u # t
      <4>1. job'[u] = job[u] /\ Deletes(job[u]) /\ JobMatch(job[u])
        BY <1>0, <2>1, <3>2, TurnsAre DEF IInv, AllDelete, Matched
      <4>2. CASE job[u].pc \in {"repos", "record"} /\ job[u].n = n
        <5>1. TornDown(n)
          BY <4>1, <4>2 DEF TornDown, JobMatch, Tearing
        <5> QED
          BY <2>3, <4>1, <4>2, <5>1 DEF Deletes
      <4>3. CASE job[u].pc \in {"repos", "record"} /\ job[u].n # n
        <5>1. job[u].n \in Names
          BY <1>0, JobFields
        <5>2. repo'[job[u].n] = repo[job[u].n]
          BY <2>2, <4>3, <5>1
        <5> QED
          BY <1>1, <2>3, <4>1, <5>2 DEF Deletes, In
      <4>4. CASE job[u].pc \notin {"repos", "record"}
        BY <4>1, <4>4 DEF Deletes
      <4> QED
        BY <4>2, <4>3, <4>4
    <3> QED
      BY <3>1, <3>2
  <2>10. NothingOutlives'
    <3>1. ASSUME NEW m \in Names, repo'[m] # NoOne, ~(acct[repo'[m]].st = "in")
          PROVE  m \in late' \cup cut
      BY <1>0, <1>2, <2>2, <2>3, <3>1 DEF NothingOutlives, In
    <3>2. ASSUME NEW m \in Names, Live(m), ~In(svc[m].by)
          PROVE  m \in late' \cup cut \cup loose
      BY <1>0, <2>3, <3>2 DEF NothingOutlives
    <3> QED
      BY <1>1, <3>1, <3>2 DEF NothingOutlives, Live, In
  <2> QED
    BY <1>1, <2>4, <2>5, <2>6, <2>7, <2>8, <2>9, <2>10, SettlesFrame DEF IInv
<1>4. CASE /\ UNCHANGED <<repo, late>>
           /\ End(t)
  BY <1>1, <1>4, EndOnly DEF history
<1>5. CASE /\ UNCHANGED <<repo, late>> /\ Again(job[t].tries)
           /\ job' = [job EXCEPT ![t].tries = @ + 1]
  <2> DEFINE j == [job[t] EXCEPT !.tries = @ + 1]
  <2>1. job' = [job EXCEPT ![t] = j]
    BY <1>0, <1>5 DEF TypeOK
  <2>2. job[t].tries \in 0 .. Attempts - 1
    BY <1>0, JobFields DEF JobRec
  <2>3. job[t].tries + 1 \in 0 .. Attempts - 1
    BY <1>5, <2>2, AccountsAssumption DEF Again
  <2>4. j \in JobRec
    BY <1>0, <2>3, JobFields DEF JobRec
  <2>5. JobMatch(j) /\ Deletes(j) /\ Owes(j)
    BY <1>0, <1>1, JobFields DEF JobMatch, JobRec, Docker, Stopping, Tearing, Deletes, Owes
  <2> QED
    BY <1>1, <1>5, <2>1, <2>4, <2>5, JobOnly DEF JobTurns, history
<1> QED
  BY <1>3, <1>4, <1>5 DEF Post

LEMMA RunStep ==
  ASSUME IInv, NEW t \in Threads, Run(t)
  PROVE  IInv'
<1> DEFINE n == job[t].n
           a == job[t].who
<1>0. TypeOK /\ JobMatch(job[t]) /\ Matched /\ Named /\ NothingOutlives
  BY DEF IInv, Matched
<1>1. /\ ~At(t, "commit") /\ job[t].pc = "run" /\ n \in Names
      /\ UNCHANGED <<acct, enrolled, repo, row, cut, calls>>
      /\ calls' \in 1 .. MaxCalls /\ calls \in 1 .. MaxCalls /\ faults' \in 0 .. MaxFaults
  BY <1>0, JobFields, FaultType DEF Run, At, TypeOK
<1>2. Known(a, n) /\ a \in People
  BY <1>0, <1>1 DEF JobMatch, Known, Docker
<1>3. CASE End(t) /\ UNCHANGED <<svc, late, loose>>
  BY <1>1, <1>3, EndOnly DEF history
<1>4. ASSUME NEW i \in 0 .. MaxCalls, job' = [job EXCEPT ![t].pc = "commit", ![t].id = i]
      PROVE  \E j \in JobRec : JobTurns(t, j) /\ JobMatch(j) /\ Deletes(j) /\ Owes(j)
                               /\ j.pc = "commit" /\ j.n = n /\ j.id = i
  <2> DEFINE j == [job[t] EXCEPT !.pc = "commit", !.id = i]
  <2>1. job' = [job EXCEPT ![t] = j]
    BY <1>0, <1>4 DEF TypeOK
  <2>2. j \in JobRec
    BY <1>0, JobFields, ZenonT(30) DEF JobRec, Pcs, Docker
  <2>3. j.pc = "commit" /\ j.n = n /\ j.id = i /\ j.kind = job[t].kind /\ j.who = a
    BY <1>0, JobFields DEF JobRec
  <2>4. JobMatch(j) /\ Deletes(j) /\ Owes(j)
    BY <1>0, <1>1, <1>2, <2>3 DEF JobMatch, Docker, Stopping, Tearing, Deletes, Owes
  <2> QED
    BY <2>1, <2>2, <2>3, <2>4 DEF JobTurns
<1>5. CASE /\ job' = [job EXCEPT ![t].pc = "commit", ![t].id = svc[n].id]
           /\ UNCHANGED <<svc, late, loose>>
  <2>1. svc[n].id \in 0 .. MaxCalls
    BY <1>0, <1>1 DEF TypeOK, SvcRec
  <2>2. PICK j \in JobRec : JobTurns(t, j) /\ JobMatch(j) /\ Deletes(j) /\ Owes(j)
    BY <1>4, <1>5, <2>1
  <2> QED
    BY <1>1, <1>5, <2>2, JobOnly DEF history
<1>6. CASE /\ ~Recorded(n) /\ ~Live(n)
           /\ svc' = [svc EXCEPT ![n] = [by |-> a, id |-> calls]]
           /\ Made(n, a)
           /\ \/ /\ job' = [job EXCEPT ![t].pc = "commit", ![t].id = calls]
                 /\ UNCHANGED loose
              \/ End(t) /\ loose' = loose \cup {n}
  <2>1. /\ svc' \in [Names -> SvcRec] /\ svc'[n].by = a /\ svc'[n].id = calls
        /\ \A m \in Names : m # n => svc'[m] = svc[m]
    <3>1. [by |-> a, id |-> calls] \in SvcRec
      BY <1>1, <1>2 DEF SvcRec
    <3> QED
      BY <1>0, <1>1, <1>6, <3>1 DEF TypeOK
  <2>2. /\ late \subseteq late' /\ late' \subseteq Names
        /\ loose \subseteq loose' /\ loose' \subseteq Names
        /\ ~In(a) => n \in late'
    BY <1>0, <1>1, <1>6 DEF Made, TypeOK
  <2>3. PICK j \in JobRec : /\ JobTurns(t, j) /\ JobMatch(j) /\ Deletes(j) /\ Owes(j)
                            /\ \/ j.pc = "commit" /\ j.n = n /\ j.id = calls
                               \/ n \in loose'
    <3>1. CASE job' = [job EXCEPT ![t].pc = "commit", ![t].id = calls]
      <4>1. calls \in 0 .. MaxCalls
        BY <1>1
      <4>2. PICK j \in JobRec : JobTurns(t, j) /\ JobMatch(j) /\ Deletes(j) /\ Owes(j)
                               /\ j.pc = "commit" /\ j.n = n /\ j.id = calls
        BY <1>4, <3>1, <4>1
      <4> QED
        BY <4>2
    <3>2. CASE End(t) /\ loose' = loose \cup {n}
      BY <3>2, IdleType, IdleMatches DEF JobTurns, End
    <3> QED
      BY <1>6, <3>1, <3>2
  <2>4. TypeOK'
    BY <1>0, <1>1, <2>1, <2>2, <2>3, TurnsAre DEF TypeOK
  <2>5. Named'
    BY <1>0, <1>1, <1>2, <2>1 DEF Named, Known, Live
  <2>6. Matched' /\ AllOwe'
    BY <1>0, <1>1, <2>3, MatchedTurns, OweTurns DEF IInv
  <2>7. AllDelete'
    <3>1. \A u \in Threads : job'[u] = job[u] \/ Deletes(job'[u])
      BY <1>0, <2>3, TurnsAre
    <3> QED
      BY <1>0, <1>1, <2>2, <3>1, DeleteGrows DEF In, IInv
  <2>8. AllTracked'
    <3>1. ASSUME NEW m \in Names, m = n PROVE Tracked(m)'
      <4>1. CASE m \in loose'
        BY <4>1 DEF Tracked, Excused
      <4>2. CASE j.pc = "commit" /\ j.n = n /\ j.id = calls
        <5>1. job'[t] = j
          BY <1>0, <2>3, TurnsAre
        <5>2. job'[t].pc = "commit" /\ job'[t].n = m /\ job'[t].id = svc'[m].id
          BY <2>1, <3>1, <4>2, <5>1
        <5>3. row'[m].id = 0
          BY <1>1, <1>6, <3>1 DEF Recorded
        <5> QED
          BY <5>2, <5>3 DEF Tracked, Adopting, At, Recorded
      <4> QED
        BY <2>3, <3>1, <4>1, <4>2
    <3>2. \A u \in Threads : job'[u] = job[u] \/ ~At(u, "commit")
      BY <1>0, <1>1, <2>3, TurnsAre
    <3>3. \A m \in Names : m # n => Tracked(m)'
      BY <1>1, <2>1, <2>2, <3>2, OthersTracked DEF Excused
    <3> QED
      BY <3>1, <3>3 DEF AllTracked
  <2>9. NothingOutlives'
    <3>1. ASSUME NEW m \in Names, svc'[m].id # 0, ~(acct[svc'[m].by].st = "in")
          PROVE  m \in late' \cup cut \cup loose'
      BY <1>0, <2>1, <2>2, <3>1 DEF NothingOutlives, In, Live
    <3>2. ASSUME NEW m \in Names, repo[m] # NoOne, ~In(repo[m])
          PROVE  m \in late' \cup cut
      BY <1>0, <2>2, <3>2 DEF NothingOutlives
    <3> QED
      BY <1>1, <3>1, <3>2 DEF NothingOutlives, Live, In
  <2> QED
    BY <1>1, <2>4, <2>5, <2>6, <2>7, <2>8, <2>9, SettlesFrame DEF IInv
<1> QED
  BY <1>3, <1>5, <1>6 DEF Run

LEMMA CommitStep ==
  ASSUME IInv, NEW t \in Threads, Commit(t)
  PROVE  IInv'
<1> DEFINE n == job[t].n
<1>0. TypeOK /\ JobMatch(job[t]) /\ Matched /\ Settles /\ Named /\ NothingOutlives
  BY DEF IInv, Matched
<1>1. /\ End(t) /\ n \in Names /\ job[t].id \in 0 .. MaxCalls
      /\ UNCHANGED <<acct, enrolled, repo, svc, late, cut, calls>>
      /\ faults' \in 0 .. MaxFaults
  BY <1>0, JobFields, FaultType DEF Commit
<1>2. JobTurns(t, Idle)
  BY <1>1, IdleType DEF End, JobTurns
<1>3. /\ row' \in [Names -> RowRec] /\ loose' \subseteq Names /\ loose \subseteq loose'
      /\ \A m \in Names : m # n => row'[m] = row[m]
      /\ \/ n \in loose'
         \/ svc[n].id = 0
         \/ svc[n].id = job[t].id /\ row'[n] = [by |-> Owner(n), id |-> job[t].id]
  <2>1. CASE /\ row' = [row EXCEPT ![n] = [by |-> Owner(n), id |-> job[t].id]]
             /\ loose' = IF svc[n].id \in {0, job[t].id} THEN loose ELSE loose \cup {n}
    BY <1>0, <1>1, <2>1, OwnerRec DEF TypeOK
  <2>2. CASE UNCHANGED row /\ loose' = loose \cup {n}
    BY <1>0, <1>1, <2>2 DEF TypeOK
  <2> QED
    BY <2>1, <2>2 DEF Commit
<1>4. TypeOK'
  BY <1>0, <1>1, <1>2, <1>3, TurnsAre DEF TypeOK
<1>5. \A m \in Names : m # n => Tracked(m)'
  <2>1. \A u \in Threads : job[u].n # n => job'[u] = job[u] \/ ~At(u, "commit")
    BY <1>0, <1>2, TurnsAre
  <2> QED
    BY <1>1, <1>3, <2>1, OthersTracked DEF Excused
<1>6. ASSUME NEW m \in Names, m = n PROVE Tracked(m)'
  <2> SUFFICES ASSUME Live(m), In(svc[m].by), m \notin loose' PROVE row'[m] = svc[m]
    BY <1>1 DEF Tracked, Live, In, Excused
  <2>1. row'[m] = [by |-> Owner(m), id |-> svc[m].id]
    BY <1>3, <1>6 DEF Live
  <2>2. Owner(m) = svc[m].by
    BY <1>0, OwnerIs DEF Named, Known
  <2>3. svc[m] = [by |-> svc[m].by, id |-> svc[m].id]
    BY <1>0 DEF TypeOK, SvcRec
  <2> QED
    BY <2>1, <2>2, <2>3
<1>7. AllTracked'
  BY <1>5, <1>6 DEF AllTracked
<1>8. NothingOutlives'
  BY <1>0, <1>1, <1>3 DEF NothingOutlives, Live, In
<1> QED
  BY <1>0, <1>1, <1>2, <1>4, <1>7, <1>8, SettlesFrame, NamedFrame, MatchedTurns, DeleteTurns,
     OweTurns, IdleMatches DEF IInv

LEMMA HaltStep ==
  ASSUME IInv, NEW t \in Threads, Halt(t)
  PROVE  IInv'
<1> DEFINE n == job[t].n
<1>0. TypeOK /\ JobMatch(job[t]) /\ Owes(job[t]) /\ Named /\ NothingOutlives
  BY DEF IInv, Matched, AllOwe
<1>1. /\ ~At(t, "commit") /\ job[t].pc = "halt" /\ n \in Names
      /\ UNCHANGED <<acct, enrolled, repo, row, history, calls>>
      /\ faults' \in 0 .. MaxFaults
  BY <1>0, JobFields, FaultType DEF Halt, At
<1>2. PICK j \in JobRec : JobTurns(t, j) /\ JobMatch(j) /\ Deletes(j) /\ Owes(j)
  <2>1. ASSUME NEW f \in BOOLEAN, job' = [job EXCEPT ![t] = [job[t] EXCEPT !.pc = "row", !.failed = f]]
        PROVE  \E j \in JobRec : JobTurns(t, j) /\ JobMatch(j) /\ Deletes(j) /\ Owes(j)
    <3> DEFINE j == [job[t] EXCEPT !.pc = "row", !.failed = f]
    <3>1. j \in JobRec
      BY <1>0, JobFields, ZenonT(30) DEF JobRec, Pcs, Tearing
    <3>2. j.pc = "row" /\ \A g \in {"kind", "who", "n", "go", "seen", "pend", "owed"} : j[g] = job[t][g]
      BY <1>0, JobFields DEF JobRec
    <3>3. JobMatch(j) /\ Deletes(j) /\ Owes(j)
      BY <1>0, <1>1, <3>2 DEF JobMatch, Deletes, Owes, Docker, Stopping, Tearing
    <3> QED
      BY <2>1, <3>1, <3>3 DEF JobTurns
  <2>2. CASE Go(t, "row")
    <3>1. /\ job[t].failed \in BOOLEAN
          /\ [job[t] EXCEPT !.pc = "row"] = [job[t] EXCEPT !.pc = "row", !.failed = job[t].failed]
      BY <1>0, JobFields DEF JobRec
    <3>2. job' = [job EXCEPT ![t] = [job[t] EXCEPT !.pc = "row"]]
      BY <1>0, <2>2 DEF Go, TypeOK
    <3> QED
      BY <2>1, <3>1, <3>2
  <2>3. CASE job' = [job EXCEPT ![t].pc = "row", ![t].failed = TRUE]
    <3>1. job' = [job EXCEPT ![t] = [job[t] EXCEPT !.pc = "row", !.failed = TRUE]]
      BY <1>0, <2>3 DEF TypeOK
    <3> QED
      BY <2>1, <3>1
  <2> QED
    BY <2>2, <2>3 DEF Halt
<1>3. CASE UNCHANGED svc
  BY <1>0, <1>1, <1>2, <1>3, JobOnly DEF TypeOK
<1>4. CASE svc' = [svc EXCEPT ![n] = NoSvc]
  <2>1. /\ svc' \in [Names -> SvcRec] /\ svc'[n].id = 0
        /\ \A m \in Names : m # n => svc'[m] = svc[m]
    <3>1. NoSvc \in SvcRec /\ NoSvc.id = 0
      BY AccountsAssumption DEF NoSvc, SvcRec
    <3> QED
      BY <1>0, <1>1, <1>4, <3>1 DEF TypeOK
  <2>2. TypeOK'
    BY <1>0, <1>1, <1>2, <2>1, TurnsAre DEF TypeOK, history
  <2>3. Named' /\ NothingOutlives'
    BY <1>0, <1>1, <2>1 DEF Named, Known, NothingOutlives, Live, In, history
  <2>4. \A m \in Names : m # n => Tracked(m)'
    <3>1. \A u \in Threads : job'[u] = job[u] \/ ~At(u, "commit")
      BY <1>0, <1>1, <1>2, TurnsAre
    <3> QED
      BY <1>1, <2>1, <3>1, OthersTracked DEF Excused, history
  <2>5. ASSUME NEW m \in Names, m = n PROVE Tracked(m)'
    BY <2>1, <2>5 DEF Tracked, Live
  <2>6. AllTracked'
    BY <2>4, <2>5 DEF AllTracked
  <2> QED
    BY <1>0, <1>1, <1>2, <2>2, <2>3, <2>6, SettlesFrame, MatchedTurns, DeleteTurns, OweTurns
       DEF IInv, history
<1> QED
  BY <1>3, <1>4 DEF Halt

LEMMA AfterIs ==
  ASSUME TypeOK, NEW t \in Threads, JobMatch(job[t]), job[t].pc = "row"
  PROVE  \/ job[t].kind = "stop" /\ After(t) = "idle"
         \/ job[t].kind = "teardown" /\ After(t) = "list"
         \/ job[t].kind = "remove" /\ After(t) = "drop"
BY DEF After, JobMatch, Stopping

LEMMA RowDeleteStep ==
  ASSUME IInv, NEW t \in Threads, RowDelete(t)
  PROVE  IInv'
<1> DEFINE n == job[t].n
           p == job[t].pend
<1>0. TypeOK /\ JobMatch(job[t]) /\ Owes(job[t]) /\ Settles /\ Named /\ NothingOutlives
  BY DEF IInv, Matched, AllOwe
<1>1. /\ ~At(t, "commit") /\ job[t].pc = "row" /\ n \in Names /\ p \subseteq People
      /\ UNCHANGED <<acct, repo, svc, late, cut, calls>>
      /\ faults' \in 0 .. MaxFaults
  BY <1>0, JobFields, FaultType DEF RowDelete, At
<1>2. After(t) \in Pcs /\ After(t) \in {"idle", "list", "drop"}
  BY <1>0, <1>1, AfterIs DEF Pcs, Tearing
<1>3. job[t].kind = "remove" =>
        job[t].owed \cap enrolled \subseteq (job[t].go \cap job[t].seen) \cup p \cup {job[t].who}
  BY <1>0, <1>1 DEF Owes, Stopping
<1>4. CASE /\ job' = [job EXCEPT ![t].pc = After(t), ![t].failed = TRUE, ![t].pend = {},
                                 ![t].owed = @ \ p]
           /\ UNCHANGED <<row, loose, enrolled>>
  <2> DEFINE j == [job[t] EXCEPT !.pc = After(t), !.failed = TRUE, !.pend = {}, !.owed = @ \ p]
  <2>1. job' = [job EXCEPT ![t] = j]
    BY <1>0, <1>4 DEF TypeOK
  <2>2. j \in JobRec
    BY <1>0, <1>2, JobFields DEF JobRec
  <2>3. /\ j.pc = After(t) /\ j.kind = job[t].kind /\ j.who = job[t].who /\ j.n = n
        /\ j.pend = {} /\ j.owed = job[t].owed \ p /\ j.go = job[t].go /\ j.seen = job[t].seen
    BY <1>0, JobFields DEF JobRec
  <2>4. JobMatch(j) /\ Deletes(j)
    BY <1>0, <1>1, <2>3, AfterIs DEF JobMatch, Deletes, Docker, Stopping, Tearing
  <2>5. Owes(j)
    BY <1>0, <1>1, <1>3, <2>3, AfterIs DEF Owes, Stopping
  <2> QED
    BY <1>0, <1>1, <1>4, <2>1, <2>2, <2>4, <2>5, JobOnly DEF JobTurns, TypeOK, history
<1>5. CASE /\ row' = IF row[n].id # job[t].id THEN row ELSE [row EXCEPT ![n] = NoRow]
           /\ loose' = IF row[n].id = job[t].id /\ svc[n].id = job[t].id THEN loose \cup {n} ELSE loose
           /\ enrolled' = enrolled \ p
           /\ job' = [job EXCEPT ![t].pc = After(t), ![t].pend = {}]
  <2> DEFINE j == [job[t] EXCEPT !.pc = After(t), !.pend = {}]
  <2>1. job' = [job EXCEPT ![t] = j]
    BY <1>0, <1>5 DEF TypeOK
  <2>2. j \in JobRec
    BY <1>0, <1>2, JobFields DEF JobRec
  <2>3. /\ j.pc = After(t) /\ j.kind = job[t].kind /\ j.who = job[t].who /\ j.n = n
        /\ j.pend = {} /\ j.owed = job[t].owed /\ j.go = job[t].go /\ j.seen = job[t].seen
    BY <1>0, JobFields DEF JobRec
  <2>4. JobMatch(j) /\ Deletes(j)
    BY <1>0, <1>1, <2>3, AfterIs DEF JobMatch, Deletes, Docker, Stopping, Tearing
  <2>5. JobTurns(t, j)
    BY <2>1, <2>2 DEF JobTurns
  <2>6. /\ row' \in [Names -> RowRec] /\ loose' \subseteq Names /\ loose \subseteq loose'
        /\ \A m \in Names : m # n => row'[m] = row[m]
    <3>1. NoRow \in RowRec
      BY AccountsAssumption DEF NoRow, RowRec
    <3> QED
      BY <1>0, <1>1, <1>5, <3>1 DEF TypeOK
  <2>7. TypeOK'
    BY <1>0, <1>1, <1>5, <2>5, <2>6, TurnsAre DEF TypeOK
  <2>8. Settles'
    BY <1>0, <1>1, <1>5 DEF Settles, In
  <2>9. AllOwe'
    <3> SUFFICES ASSUME NEW u \in Threads PROVE Owes(job[u])'
      BY DEF AllOwe
    <3>1. CASE u = t
      <4>1. job'[u] = j
        BY <1>0, <2>5, <3>1, TurnsAre
      <4>2. job[t].kind = "remove" =>
              job[t].owed \cap (enrolled \ p) \subseteq (job[t].go \cap job[t].seen) \cup {job[t].who}
        BY <1>3
      <4> QED
        BY <1>0, <1>1, <1>5, <2>3, <4>1, <4>2, AfterIs DEF Owes, Stopping
    <3>2. CASE u # t
      <4>1. job'[u] = job[u] /\ Owes(job[u])
        BY <1>0, <2>5, <3>2, TurnsAre DEF IInv, AllOwe
      <4>2. enrolled' \subseteq enrolled
        BY <1>5
      <4> QED
        BY <4>1, <4>2 DEF Owes
    <3> QED
      BY <3>1, <3>2
  <2>10. \A m \in Names : m # n => Tracked(m)'
    <3>1. \A u \in Threads : job'[u] = job[u] \/ ~At(u, "commit")
      BY <1>0, <1>1, <2>5, TurnsAre
    <3> QED
      BY <1>1, <2>6, <3>1, OthersTracked DEF Excused
  <2>11. ASSUME NEW m \in Names, m = n PROVE Tracked(m)'
    <3>1. Tracked(m)
      BY DEF IInv, AllTracked
    <3>2. \A u \in Threads : Adopting(u, m) => Adopting(u, m)'
      BY <1>0, <1>1, <2>5, TurnsAre DEF Adopting, At
    <3>3. CASE row[n].id # job[t].id
      <4>1. row' = row /\ loose' = loose
        BY <1>5, <3>3
      <4> QED
        BY <1>1, <3>1, <3>2, <4>1 DEF Tracked, Live, In, Excused, Recorded
    <3>4. CASE row[n].id = job[t].id /\ svc[n].id = job[t].id
      <4>1. n \in loose'
        BY <1>5, <3>4
      <4> QED
        BY <2>11, <4>1 DEF Tracked, Excused
    <3>5. CASE row[n].id = job[t].id /\ svc[n].id # job[t].id
      <4>1. row'[m] = NoRow /\ row[m] # svc[m] /\ loose' = loose
        BY <1>0, <1>1, <1>5, <2>11, <3>5 DEF TypeOK
      <4>2. row'[m].id = 0
        BY <4>1 DEF NoRow
      <4> QED
        BY <1>1, <3>1, <3>2, <4>1, <4>2 DEF Tracked, Live, In, Excused, Recorded
    <3> QED
      BY <3>3, <3>4, <3>5
  <2>12. AllTracked'
    BY <2>10, <2>11 DEF AllTracked
  <2>13. NothingOutlives'
    BY <1>0, <1>1, <2>6 DEF NothingOutlives, Live, In
  <2> QED
    BY <1>0, <1>1, <2>4, <2>5, <2>7, <2>8, <2>9, <2>12, <2>13, NamedFrame, MatchedTurns,
       DeleteTurns DEF IInv
<1> QED
  BY <1>4, <1>5 DEF RowDelete

LEMMA DeleteRepoStep ==
  ASSUME IInv, NEW t \in Threads, DeleteRepo(t)
  PROVE  IInv'
<1>0. TypeOK /\ JobMatch(job[t]) /\ Deletes(job[t]) /\ Named /\ NothingOutlives
  BY DEF IInv, Matched, AllDelete
<1>1. /\ ~At(t, "commit") /\ job[t].pc = "repos"
      /\ UNCHANGED <<acct, enrolled, svc, row, history, calls>>
      /\ faults' \in 0 .. MaxFaults
  BY <1>0, FaultType DEF DeleteRepo, At
<1>2. PICK m \in job[t].todo :
        \/ /\ repo' = [repo EXCEPT ![m] = NoOne]
           /\ job' = [job EXCEPT ![t].todo = @ \ {m}]
        \/ /\ job' = [job EXCEPT ![t].todo = @ \ {m}, ![t].failed = TRUE]
           /\ UNCHANGED repo
  BY DEF DeleteRepo
<1>3. m \in Names
  BY <1>0, JobFields
<1>4. CASE /\ repo' = [repo EXCEPT ![m] = NoOne]
           /\ job' = [job EXCEPT ![t].todo = @ \ {m}]
  <2> DEFINE j == [job[t] EXCEPT !.todo = @ \ {m}]
  <2>1. job' = [job EXCEPT ![t] = j]
    BY <1>0, <1>4 DEF TypeOK
  <2>2. j \in JobRec
    BY <1>0, JobFields DEF JobRec
  <2>3. /\ j.pc = "repos" /\ j.kind = job[t].kind /\ j.who = job[t].who /\ j.n = job[t].n
        /\ j.todo = job[t].todo \ {m} /\ j.failed = job[t].failed
    BY <1>0, <1>1, JobFields DEF JobRec
  <2>4. JobMatch(j) /\ Owes(j)
    BY <1>0, <1>1, <2>3 DEF JobMatch, Owes, Docker, Stopping, Tearing
  <2>5. JobTurns(t, j)
    BY <2>1, <2>2 DEF JobTurns
  <2>6. /\ repo' \in [Names -> People \cup {NoOne}] /\ repo'[m] = NoOne
        /\ \A k \in Names : k # m => repo'[k] = repo[k]
    BY <1>0, <1>3, <1>4 DEF TypeOK
  <2>7. TypeOK'
    BY <1>0, <1>1, <2>5, <2>6, TurnsAre DEF TypeOK, history
  <2>8. Named' /\ NothingOutlives'
    BY <1>0, <1>1, <2>6 DEF Named, Known, NothingOutlives, Live, In, history
  <2>9. AllDelete'
    <3> SUFFICES ASSUME NEW u \in Threads PROVE Deletes(job[u])'
      BY DEF AllDelete
    <3>1. job[u].n \in Names /\ job'[u].n = job[u].n /\ job'[u].who = job[u].who
          /\ job'[u].pc = job[u].pc /\ job'[u].failed = job[u].failed
          /\ \A k \in Names : k # m /\ k \in job[u].todo => k \in job'[u].todo
      <4>1. CASE u = t
        <5>1. job'[t] = j
          BY <1>0, <2>5, TurnsAre
        <5>2. job[t].n \in Names
          BY <1>0, JobFields
        <5> HIDE DEF j
        <5> QED
          BY <1>1, <2>3, <4>1, <5>1, <5>2
      <4>2. CASE u # t
        <5>1. job'[u] = job[u]
          BY <1>0, <2>5, <4>2, TurnsAre
        <5>2. job[u].n \in Names
          BY <1>0, JobFields
        <5> QED
          BY <5>1, <5>2
      <4> QED
        BY <4>1, <4>2
    <3>2. Deletes(job[u])
      BY DEF IInv, AllDelete
    <3>3. CASE job[u].n = m
      <4>1. repo'[job'[u].n] = NoOne
        BY <2>6, <3>1, <3>3
      <4>2. job[u].pc \in {"repos", "record"} => job[u].who # NoOne
        <5>1. JobMatch(job[u])
          BY DEF IInv, Matched
        <5> QED
          BY <5>1, AccountsAssumption DEF JobMatch, Tearing, Known
      <4> QED
        BY <3>1, <4>1, <4>2 DEF Deletes
    <3>4. CASE job[u].n # m
      <4>1. repo'[job'[u].n] = repo[job[u].n]
        BY <2>6, <3>1, <3>4
      <4> QED
        BY <1>1, <3>1, <3>2, <3>4, <4>1 DEF Deletes, In, history
    <3> QED
      BY <3>3, <3>4
  <2> QED
    BY <1>0, <1>1, <2>4, <2>5, <2>7, <2>8, <2>9, SettlesFrame, MatchedTurns, OweTurns,
       TrackedTurns DEF IInv, history
<1>5. CASE /\ job' = [job EXCEPT ![t].todo = @ \ {m}, ![t].failed = TRUE]
           /\ UNCHANGED repo
  <2> DEFINE j == [job[t] EXCEPT !.todo = @ \ {m}, !.failed = TRUE]
  <2>1. job' = [job EXCEPT ![t] = j]
    BY <1>0, <1>5 DEF TypeOK
  <2>2. j \in JobRec
    BY <1>0, JobFields DEF JobRec
  <2>3. /\ j.pc = "repos" /\ j.kind = job[t].kind /\ j.who = job[t].who /\ j.n = job[t].n
        /\ j.todo = job[t].todo \ {m} /\ j.failed = TRUE
    BY <1>0, <1>1, JobFields DEF JobRec
  <2>4. JobMatch(j) /\ Owes(j) /\ Deletes(j)
    BY <1>0, <1>1, <2>3 DEF JobMatch, Owes, Deletes, Docker, Stopping, Tearing
  <2> QED
    BY <1>0, <1>1, <1>5, <2>1, <2>2, <2>4, JobOnly DEF JobTurns, TypeOK
<1> QED
  BY <1>2, <1>4, <1>5

LEMMA SubmitStep ==
  ASSUME IInv, NEW t \in Threads, Submit(t)
  PROVE  IInv'
<1> DEFINE p == job[t].pend
<1>0. TypeOK /\ JobMatch(job[t]) /\ Owes(job[t]) /\ Settles
  BY DEF IInv, Matched, AllOwe
<1>1. /\ ~At(t, "commit") /\ job[t].pc = "pick" /\ job[t].go = {}
      /\ UNCHANGED <<acct, repo, svc, row, history, calls, faults>>
  BY DEF Submit, At
<1>2. CASE End(t) /\ UNCHANGED enrolled
  BY <1>0, <1>1, <1>2, EndOnly DEF TypeOK
<1>3. CASE Leave(p) /\ job' = [job EXCEPT ![t].pc = "reply", ![t].pend = {}]
  <2> DEFINE j == [job[t] EXCEPT !.pc = "reply", !.pend = {}]
  <2>1. job' = [job EXCEPT ![t] = j]
    BY <1>0, <1>3 DEF TypeOK
  <2>2. j \in JobRec
    BY <1>0, JobFields, ZenonT(30) DEF JobRec, Pcs
  <2>3. j.pc = "reply" /\ j.kind = job[t].kind /\ j.owed = job[t].owed
    BY <1>0, JobFields DEF JobRec
  <2>4. JobMatch(j) /\ Deletes(j)
    BY <1>0, <1>1, <2>3 DEF JobMatch, Deletes, Docker, Stopping, Tearing
  <2>5. JobTurns(t, j)
    BY <2>1, <2>2 DEF JobTurns
  <2>6. enrolled' = enrolled \ p
    BY <1>3 DEF Leave
  <2>7. TypeOK'
    BY <1>0, <1>1, <2>5, <2>6, TurnsAre DEF TypeOK, history
  <2>8. Settles'
    BY <1>0, <1>1, <2>6 DEF Settles, In
  <2>9. AllOwe'
    <3> SUFFICES ASSUME NEW u \in Threads PROVE Owes(job[u])'
      BY DEF AllOwe
    <3>1. CASE u = t
      <4>1. job'[u] = j
        BY <1>0, <2>5, <3>1, TurnsAre
      <4>2. job[t].owed \cap enrolled' = {}
        BY <1>0, <1>1, <2>6 DEF Owes
      <4> QED
        BY <2>3, <4>1, <4>2 DEF Owes, Stopping
    <3>2. CASE u # t
      <4>1. job'[u] = job[u] /\ Owes(job[u])
        BY <1>0, <2>5, <3>2, TurnsAre DEF IInv, AllOwe
      <4>2. enrolled' \subseteq enrolled
        BY <2>6
      <4> QED
        BY <4>1, <4>2 DEF Owes
    <3> QED
      BY <3>1, <3>2
  <2> QED
    BY <1>0, <1>1, <2>4, <2>5, <2>7, <2>8, <2>9, NamedFrame, OutlivesFrame, MatchedTurns,
       DeleteTurns, TrackedTurns DEF IInv, history
<1> QED
  BY <1>2, <1>3 DEF Submit

LEMMA CrashStep ==
  ASSUME IInv, Crash
  PROVE  IInv'
<1>0. TypeOK /\ Settles /\ Named /\ NothingOutlives
  BY DEF IInv
<1>1. /\ job' = [t \in Threads |-> Idle]
      /\ loose' = loose \cup {n \in Names : Live(n) /\ ~Recorded(n)}
      /\ UNCHANGED <<acct, enrolled, repo, svc, row, late, cut, calls>>
      /\ faults' \in 0 .. MaxFaults
  BY <1>0, FaultType DEF Crash
<1>2. \A u \in Threads : job'[u] = Idle
  BY <1>1
<1>3. TypeOK'
  BY <1>0, <1>1, IdleType DEF TypeOK
<1>4. Matched' /\ AllDelete' /\ AllOwe'
  BY <1>2 DEF Matched, AllDelete, AllOwe, JobMatch, Deletes, Owes, Idle, Docker, Tearing, Stopping
<1>5. ASSUME NEW n \in Names PROVE Tracked(n)'
  <2>1. Tracked(n)
    BY DEF IInv, AllTracked
  <2> QED
    BY <1>1, <2>1 DEF Tracked, Live, In, Excused, Recorded
<1>6. NothingOutlives'
  BY <1>0, <1>1 DEF NothingOutlives, Live, In
<1> QED
  BY <1>1, <1>3, <1>4, <1>5, <1>6, SettlesFrame, NamedFrame DEF IInv, AllTracked

-----------------------------------------------------------------------------
(* The invariant, and what follows. *)

LEMMA InitInv == Init => IInv
<1> SUFFICES ASSUME Init PROVE IInv
  OBVIOUS
<1>1. PICK nm \in Settled :
        LET A == DOMAIN nm IN
        /\ acct = [a \in People |-> IF a \in A THEN [st |-> "in", name |-> nm[a]]
                                   ELSE [st |-> "none", name |-> AName]]
        /\ enrolled \in SUBSET A
        /\ \E H \in SUBSET enrolled :
             /\ repo = [n \in Names |-> IF \E a \in H : nm[a] = n
                                       THEN CHOOSE a \in H : nm[a] = n ELSE NoOne]
             /\ svc = [n \in Names |-> IF \E a \in H : nm[a] = n
                                      THEN [by |-> CHOOSE a \in H : nm[a] = n, id |-> 1]
                                      ELSE NoSvc]
        /\ row = svc
        /\ job = [t \in Threads |-> Idle]
        /\ late = {} /\ loose = {} /\ cut = {}
        /\ calls = 1
        /\ faults = 0
  BY DEF Init
<1> DEFINE A == DOMAIN nm
<1>2. PICK H \in SUBSET A :
        /\ repo = [n \in Names |-> IF \E a \in H : nm[a] = n
                                  THEN CHOOSE a \in H : nm[a] = n ELSE NoOne]
        /\ svc = [n \in Names |-> IF \E a \in H : nm[a] = n
                                 THEN [by |-> CHOOSE a \in H : nm[a] = n, id |-> 1]
                                 ELSE NoSvc]
  BY <1>1
<1>3. /\ A \subseteq People /\ nm \in [A -> Names]
      /\ \A a, b \in A : nm[a] = nm[b] => a = b
  BY AccountsAssumption
<1>4. ASSUME NEW a \in People
      PROVE  acct[a] \in Accts /\ (In(a) <=> a \in A) /\ (a \in A => acct[a].name = nm[a])
  BY <1>1, <1>3, ANameType DEF Accts, In
<1>5. ASSUME NEW n \in Names
      PROVE  /\ repo[n] = NoOne \/ (repo[n] \in H /\ nm[repo[n]] = n)
             /\ \/ svc[n] = NoSvc
                \/ \E a \in H : nm[a] = n /\ svc[n] = [by |-> a, id |-> 1]
  BY <1>2
<1>6. 1 \in 0 .. MaxCalls /\ 0 \in 0 .. MaxCalls /\ 1 \in 1 .. MaxCalls
  BY AccountsAssumption
<1>7. acct \in [People -> Accts]
  BY <1>1, <1>4
<1>8. repo \in [Names -> People \cup {NoOne}]
  BY <1>2, <1>3, <1>5
<1>9. \A n \in Names : svc[n] \in SvcRec /\ svc[n] \in RowRec
  <2> SUFFICES ASSUME NEW n \in Names PROVE svc[n] \in SvcRec /\ svc[n] \in RowRec
    OBVIOUS
  <2>1. CASE svc[n] = NoSvc
    BY <1>6, <2>1 DEF SvcRec, RowRec, NoSvc
  <2>2. CASE \E a \in H : nm[a] = n /\ svc[n] = [by |-> a, id |-> 1]
    <3>1. PICK a \in H : svc[n] = [by |-> a, id |-> 1]
      BY <2>2
    <3>2. a \in People
      BY <1>3
    <3> QED
      BY <1>6, <3>1, <3>2 DEF SvcRec, RowRec
  <2> QED
    BY <1>5, <2>1, <2>2
<1>10. svc \in [Names -> SvcRec] /\ svc \in [Names -> RowRec]
  BY <1>2, <1>9
<1>11. TypeOK
  BY <1>1, <1>3, <1>6, <1>7, <1>8, <1>10, IdleType, AccountsAssumption DEF TypeOK
<1>12. Settles
  BY <1>1, <1>3, <1>4 DEF Settles, In
<1>13. Named
  <2>1. ASSUME NEW n \in Names, repo[n] # NoOne PROVE Known(repo[n], n)
    BY <1>3, <1>4, <1>5, <2>1 DEF Known, In
  <2>2. ASSUME NEW n \in Names, Live(n) PROVE Known(svc[n].by, n)
    <3>1. svc[n] # NoSvc
      BY <2>2 DEF Live, NoSvc
    <3>2. PICK a \in H : nm[a] = n /\ svc[n] = [by |-> a, id |-> 1]
      BY <1>5, <3>1
    <3>3. a \in People /\ a \in A /\ svc[n].by = a
      BY <1>3, <3>2
    <3> QED
      BY <1>4, <3>2, <3>3 DEF Known, In
  <2> QED
    BY <2>1, <2>2 DEF Named
<1>14. Matched /\ AllDelete /\ AllOwe
  BY <1>1, IdleMatches DEF Matched, AllDelete, AllOwe
<1>15. AllTracked
  BY <1>1 DEF AllTracked, Tracked
<1>16. NothingOutlives
  <2>1. ASSUME NEW n \in Names, repo[n] # NoOne PROVE In(repo[n])
    BY <1>3, <1>4, <1>5, <2>1
  <2>2. ASSUME NEW n \in Names, Live(n) PROVE In(svc[n].by)
    <3>1. svc[n] # NoSvc
      BY <2>2 DEF Live, NoSvc
    <3>2. PICK a \in H : svc[n] = [by |-> a, id |-> 1]
      BY <1>5, <3>1
    <3>3. a \in People /\ a \in A /\ svc[n].by = a
      BY <1>3, <3>2
    <3> QED
      BY <1>4, <3>3
  <2> QED
    BY <2>1, <2>2 DEF NothingOutlives
<1> QED
  BY <1>11, <1>12, <1>13, <1>14, <1>15, <1>16 DEF IInv

LEMMA NextInv == IInv /\ [Next]_vars => IInv'
<1> SUFFICES ASSUME IInv, [Next]_vars PROVE IInv'
  OBVIOUS
<1>1. ASSUME NEW t \in Threads, Step(t) PROVE IInv'
  BY <1>1, NameStep, EnterStep, FindStep, AcquireStep, ForkStep, LockStep, PostStep,
     ReadyStep, RunStep, CommitStep, PushStep, HaltStep, RowDeleteStep, HostsStep, ListStep,
     DeleteRepoStep, ReposDoneStep, EraseRecordStep, PickStep, DropStep, SubmitStep,
     ReplyStep DEF Step
<1>2. ASSUME NEW t \in Threads, Request(t) PROVE IInv'
  BY <1>2, RegisterStep, StartStep, StopStep, TearDownStep, RemoveStep DEF Request
<1>3. CASE Elsewhere
  BY <1>3, EnrolStep, DeleteRecordStep, DeleteRowStep, SyncStep, ReapStep DEF Elsewhere
<1>4. CASE UNCHANGED vars
  <2>1. UNCHANGED <<acct, enrolled, repo, svc, row, job, late, loose, cut, calls, faults>>
    BY <1>4 DEF vars, history
  <2>2. TypeOK' /\ Settles' /\ Named' /\ NothingOutlives'
    BY <2>1, SettlesFrame, NamedFrame, OutlivesFrame DEF IInv, TypeOK
  <2>3. Matched' /\ AllDelete' /\ AllOwe' /\ AllTracked'
    BY <2>1 DEF IInv, Matched, AllDelete, AllOwe, AllTracked, JobMatch, Known, Deletes, Owes, In,
       Tracked, Live, Excused, Recorded, Adopting, At
  <2> QED
    BY <2>2, <2>3 DEF IInv
<1> QED
  BY <1>1, <1>2, <1>3, <1>4, CrashStep DEF Next

THEOREM Invariance == Spec => []IInv
BY InitInv, NextInv, PTL DEF Spec

\* The types of the account table, the forks, the hosts and the requests.
THEOREM AccountTypes == Spec => []TypeOK
<1>1. IInv => TypeOK
  BY DEF IInv
<1> QED
  BY <1>1, Invariance, PTL

\* Once an account is deleted its fork and service are gone, but for those a start
\* used during the teardown (admin/teardown.py), a service that had lost its row,
\* and a deletion by force or from the users page.
THEOREM NoLeftovers == Spec => []NothingOutlives
<1>1. IInv => NothingOutlives
  BY DEF IInv
<1> QED
  BY <1>1, Invariance, PTL

\* When remove_students (main/routes/classes.py) reports success, the students it
\* owes are out of the class.
THEOREM RemovalsAreReal == Spec => []RemovedAreOut
<1>1. IInv => RemovedAreOut
  BY DEF IInv, AllOwe, Owes, RemovedAreOut, At
<1> QED
  BY <1>1, Invariance, PTL

\* Only one step deletes a fork.
LEMMA OnlyDeleteRepo ==
  ASSUME IInv, [Next]_vars, NEW n \in Names, repo[n] # NoOne, repo'[n] = NoOne
  PROVE  \E t \in Threads : At(t, "repos") /\ n \in job[t].todo
<1>1. ASSUME NEW t \in Threads, Post(t) PROVE FALSE
  <2>1. job[t].n \in Names /\ repo \in [Names -> People \cup {NoOne}]
    BY JobFields DEF IInv, TypeOK
  <2> QED
    BY <1>1, <2>1 DEF Post
<1>2. ASSUME NEW t \in Threads, DeleteRepo(t) PROVE At(t, "repos") /\ n \in job[t].todo
  <2>1. repo \in [Names -> People \cup {NoOne}]
    BY DEF IInv, TypeOK
  <2> QED
    BY <1>2, <2>1 DEF DeleteRepo
<1>3. repo' # repo
  OBVIOUS
<1>4. ~UNCHANGED vars
  BY <1>3 DEF vars
<1>5. ASSUME NEW t \in Threads, Step(t) PROVE At(t, "repos") /\ n \in job[t].todo
  BY <1>1, <1>2, <1>3, <1>5
     DEF Step, Name, Enter, Find, Acquire, Fork, Lock, Ready, Run, Commit, Push, Halt, RowDelete,
         Hosts, List, ReposDone, EraseRecord, Pick, Drop, Submit, Reply
<1>6. ASSUME NEW t \in Threads, Request(t) PROVE FALSE
  BY <1>3, <1>6 DEF Request, Register, Begin, Start, Stop, TearDown, Remove
<1>7. ~Elsewhere
  BY <1>3 DEF Elsewhere, Enrol, DeleteRecord, DeleteRow, Sync, Reap
<1>8. ~Crash
  BY <1>3 DEF Crash
<1> QED
  BY <1>4, <1>5, <1>6, <1>7, <1>8 DEF Next

LEMMA TakesOwnStep == IInv /\ [Next]_vars => [TakesOwn]_vars
<1> SUFFICES ASSUME IInv, [Next]_vars, NEW n \in Names, repo[n] # NoOne, repo'[n] = NoOne,
                    In(repo[n])
             PROVE  \E t \in Threads :
                      /\ job[t].kind = "teardown"
                      /\ \/ repo[n] = job[t].who
                         \/ SameEnd(acct[repo[n]].name, job[t].n)
                         \/ ~In(job[t].who)
  BY DEF TakesOwn
<1>1. PICK t \in Threads : At(t, "repos") /\ n \in job[t].todo
  BY OnlyDeleteRepo
<1>2. JobMatch(job[t]) /\ Settles /\ Known(repo[n], n)
  BY DEF IInv, Matched, Named
<1>3. job[t].kind = "teardown" /\ Known(job[t].who, job[t].n)
      /\ (n = job[t].n \/ SameEnd(n, job[t].n))
  BY <1>1, <1>2 DEF JobMatch, At, Tearing
<1>4. CASE n = job[t].n /\ In(job[t].who)
  <2>1. repo[n] = job[t].who
    BY <1>2, <1>3, <1>4 DEF Settles, Known
  <2> QED
    BY <1>3, <2>1
<1>5. CASE n # job[t].n
  BY <1>2, <1>3, <1>5 DEF Known
<1> QED
  BY <1>3, <1>4, <1>5

\* A teardown deletes another's fork only by the suffix of its name, or once the torn
\* account is gone (_delete_user_repos).
THEOREM TakesOnlyOwn == Spec => TeardownTakesOwn
BY Invariance, TakesOwnStep, PTL DEF Spec, TeardownTakesOwn

=============================================================================
