--------------------------- MODULE NodeOps_proofs ---------------------------
(***************************************************************************)
(* Proofs about NodeOps: types, the lock, what `done` means, and, as long as *)
(* gunicorn never restarts without its container, that the sweep is right.   *)
(***************************************************************************)
EXTENDS NodeOps, TLAPS

-----------------------------------------------------------------------------
(* The inductive invariant. *)

\* A process between flock and unlock holds the lock.
LockInv == \A o \in Ops : proc[o].pc \in Working \cup {"unlock"} => lock = o

\* A process that remembers success has completed its command.
OkInv == \A o \in Ops : proc[o].ok => o \in completed

\* A row that is final, or not yet made, has no process left to change it.
FinalInv ==
  \A o \in Ops : op[o].st \in {"fresh", "done", "failed"} => proc[o].pc = "none"

\* Without a restart of gunicorn alone, no process is left when the
\* application boots, and what the sweep has loaded is as it was.
BootInv ==
  "gunicorn" \notin alone =>
    /\ web.st # "up" => \A o \in Ops : proc[o].pc = "none"
    /\ web.st = "sweep" => /\ web.seen \subseteq Running
                           /\ \A o \in web.seen : op[o].names => o \in web.named

\* A swept row has no process left either.
SweptInv ==
  "gunicorn" \notin alone =>
    \A o \in Ops : op[o].st = "interrupted" => proc[o].pc = "none"

IInv ==
  /\ TypeOK /\ LockInv /\ OkInv /\ DoneIsComplete /\ FinalInv /\ BootInv /\ SweptInv
  /\ RecordedIsNamed

-----------------------------------------------------------------------------

LEMMA InitInv == Init => IInv
BY NodeOpsAssumption DEF Init, IInv, TypeOK, LockInv, OkInv, DoneIsComplete, FinalInv,
   BootInv, SweptInv, RecordedIsNamed, OpRec, ProcRec, WebRec, Kinds, Pcs, Working, NoProc, Up, Down, Running

\* What an update of one row, or of one process, keeps of its type.
LEMMA OpFields ==
  ASSUME op \in [Ops -> OpRec], NEW o \in Ops
  PROVE  /\ \A st \in {"pending", "running", "done", "failed", "interrupted"} :
              [op EXCEPT ![o].st = st] \in [Ops -> OpRec]
         /\ [op EXCEPT ![o].names = TRUE] \in [Ops -> OpRec]
BY DEF OpRec

LEMMA ProcFields ==
  ASSUME proc \in [Ops -> ProcRec], NEW o \in Ops
  PROVE  /\ \A pc \in Pcs : [proc EXCEPT ![o].pc = pc] \in [Ops -> ProcRec]
         /\ \A p \in ProcRec : [proc EXCEPT ![o] = p] \in [Ops -> ProcRec]
BY DEF ProcRec

LEMMA Reset == NoProc \in ProcRec /\ NoProc.pc = "none" /\ NoProc.ok = FALSE
BY DEF NoProc, ProcRec, Pcs

-----------------------------------------------------------------------------
(* Every action keeps the types. *)

LEMMA TypesKept ==
  ASSUME IInv, [Next]_vars
  PROVE  TypeOK'
<1> USE DEF IInv, TypeOK
<1>1. CASE UNCHANGED vars
  BY <1>1 DEF vars
<1>2. ASSUME NEW o \in Ops, NEW k \in Kinds, Request(o, k)
      PROVE  TypeOK'
  <2>1. op' \in [Ops -> OpRec]
    <3>1. (k = "remove") \in BOOLEAN
      OBVIOUS
    <3>2. [st |-> "pending", kind |-> k, names |-> k = "remove", note |-> "none"] \in OpRec
      BY <3>1, Zenon DEF OpRec
    <3> QED
      BY <1>2, <3>2, Zenon DEF Request
  <2>2. proc' \in [Ops -> ProcRec]
    BY <1>2, ProcFields DEF Request, Goto, Pcs
  <2> QED
    BY <1>2, <2>1, <2>2 DEF Request
<1>3. ASSUME NEW o \in Ops, Popen(o)
      PROVE  TypeOK'
  BY <1>3, ProcFields DEF Popen, Goto, Pcs
<1>4. ASSUME NEW o \in Ops, Load(o)
      PROVE  TypeOK'
  BY <1>4, ProcFields, OpFields DEF Load, Goto, Pcs
<1>5. ASSUME NEW o \in Ops, TryLock(o)
      PROVE  TypeOK'
  <2>1. proc' \in [Ops -> ProcRec]
    <3>1. \E pc \in {"work", "busy"} : proc' = [proc EXCEPT ![o].pc = pc]
      BY <1>5 DEF TryLock, Goto
    <3>2. PICK pc \in {"work", "busy"} : proc' = [proc EXCEPT ![o].pc = pc]
      BY <3>1
    <3>3. pc \in Pcs
      BY DEF Pcs, Working
    <3>4. proc \in [Ops -> ProcRec]
      OBVIOUS
    <3>5. [proc EXCEPT ![o].pc = pc] \in [Ops -> ProcRec]
      BY <3>3, <3>4, ProcFields, Zenon
    <3> QED
      BY <3>2, <3>5, Zenon
  <2> QED
    BY <1>5, <2>1 DEF TryLock
<1>6. ASSUME NEW o \in Ops, Busy(o)
      PROVE  TypeOK'
  BY <1>6, ProcFields, OpFields, Reset DEF Busy
<1>7. ASSUME NEW o \in Ops, CreateDroplet(o)
      PROVE  TypeOK'
  BY <1>7, ProcFields DEF CreateDroplet, Goto, Pcs, Working
<1>8. ASSUME NEW o \in Ops, RecordDroplet(o)
      PROVE  TypeOK'
  <2>1. proc' \in [Ops -> ProcRec]
    BY <1>8, ProcFields DEF RecordDroplet, Goto, Pcs, Working
  <2>2. op' \in [Ops -> OpRec]
    BY <1>8, OpFields, ZenonT(30) DEF RecordDroplet
  <2>3. faults' \in 0 .. MaxFaults
    BY <1>8, NodeOpsAssumption DEF RecordDroplet, Fault
  <2> QED
    BY <1>8, <2>1, <2>2, <2>3 DEF RecordDroplet
<1>9. ASSUME NEW o \in Ops, CommandEnds(o)
      PROVE  TypeOK'
  <2>1. [pc |-> "unlock", ok |-> TRUE] \in ProcRec
    BY DEF ProcRec, Pcs
  <2>2. proc' \in [Ops -> ProcRec]
    <3>1. \/ proc' = [proc EXCEPT ![o] = [pc |-> "unlock", ok |-> TRUE]]
          \/ proc' = [proc EXCEPT ![o].pc = "unlock"]
      BY <1>9 DEF CommandEnds, Goto
    <3>2. "unlock" \in Pcs
      BY DEF Pcs
    <3>3. proc \in [Ops -> ProcRec]
      OBVIOUS
    <3>4. CASE proc' = [proc EXCEPT ![o] = [pc |-> "unlock", ok |-> TRUE]]
      BY <2>1, <3>3, <3>4, ProcFields, Zenon
    <3>5. CASE proc' = [proc EXCEPT ![o].pc = "unlock"]
      <4>1. [proc EXCEPT ![o].pc = "unlock"] \in [Ops -> ProcRec]
        BY <3>2, <3>3, ProcFields, Zenon
      <4> QED
        BY <3>5, <4>1, Zenon
    <3> QED
      BY <3>1, <3>4, <3>5, Zenon
  <2> QED
    BY <1>9, <2>2 DEF CommandEnds
<1>10. ASSUME NEW o \in Ops, Unlock(o)
       PROVE  TypeOK'
  BY <1>10, ProcFields DEF Unlock, Goto, Pcs
<1>11. ASSUME NEW o \in Ops, Finish(o)
       PROVE  TypeOK'
  BY <1>11, ProcFields, OpFields, Reset DEF Finish
<1>12. ASSUME NEW o \in Ops, ProcessDies(o)
       PROVE  TypeOK'
  BY <1>12, ProcFields, Reset, NodeOpsAssumption DEF ProcessDies, Fault
<1>13. CASE SweepRead
  BY <1>13 DEF SweepRead, WebRec, Running
<1>14. CASE Sweep
  BY <1>14, ZenonT(30) DEF Sweep, OpRec, WebRec, Up, Down
<1>15. CASE ContainerDies
  BY <1>15, Reset, NodeOpsAssumption DEF ContainerDies, Fault, WebRec, Down
<1>16. CASE MasterDies
  <2>1. PICK cut \in SUBSET {o \in Ops : At(o, "fork")} :
          proc' = [o \in Ops |-> IF o \in cut THEN NoProc ELSE proc[o]]
    BY <1>16 DEF MasterDies
  <2>2. proc' \in [Ops -> ProcRec]
    BY <2>1, Reset
  <2> QED
    BY <1>16, <2>2, NodeOpsAssumption DEF MasterDies, Fault, WebRec, Down
<1> QED
  BY <1>1, <1>2, <1>3, <1>4, <1>5, <1>6, <1>7, <1>8, <1>9, <1>10, <1>11, <1>12, <1>13,
     <1>14, <1>15, <1>16 DEF Next, OpRun, Boot

-----------------------------------------------------------------------------
(* Every action keeps the rest. *)

RestInv ==
  LockInv /\ OkInv /\ DoneIsComplete /\ FinalInv /\ BootInv /\ SweptInv /\ RecordedIsNamed

LEMMA RestKept ==
  ASSUME IInv, [Next]_vars
  PROVE  RestInv'
<1> USE DEF IInv, RestInv, LockInv, OkInv, DoneIsComplete, FinalInv, BootInv, SweptInv,
        RecordedIsNamed, Running
<1>0. op \in [Ops -> OpRec] /\ proc \in [Ops -> ProcRec] /\ NoOp \notin Ops
  BY NodeOpsAssumption DEF TypeOK
<1>1. CASE UNCHANGED vars
  BY <1>1 DEF vars
<1>2. ASSUME NEW o \in Ops, NEW k \in Kinds, Request(o, k)
      PROVE  RestInv'
  BY <1>0, <1>2 DEF Request, Goto, OpRec, ProcRec, Working
<1>3. ASSUME NEW o \in Ops, Popen(o)
      PROVE  RestInv'
  BY <1>0, <1>3 DEF Popen, Goto, At, OpRec, ProcRec, Working
<1>4. ASSUME NEW o \in Ops, Load(o)
      PROVE  RestInv'
  BY <1>0, <1>4 DEF Load, Goto, At, OpRec, ProcRec, Working
<1>5. ASSUME NEW o \in Ops, TryLock(o)
      PROVE  RestInv'
  <2>1. CASE lock = NoOp /\ lock' = o /\ Goto(o, "work")
    BY <1>0, <1>5, <2>1 DEF TryLock, Goto, At, OpRec, ProcRec, Working
  <2>2. CASE lock' = lock /\ Goto(o, "busy")
    BY <1>0, <1>5, <2>2 DEF TryLock, Goto, At, OpRec, ProcRec, Working
  <2> QED
    BY <1>5, <2>1, <2>2 DEF TryLock
<1>6. ASSUME NEW o \in Ops, Busy(o)
      PROVE  RestInv'
  BY <1>0, <1>6, Reset DEF Busy, At, OpRec, ProcRec, Working
<1>7. ASSUME NEW o \in Ops, CreateDroplet(o)
      PROVE  RestInv'
  BY <1>0, <1>7 DEF CreateDroplet, Goto, At, OpRec, ProcRec, Working
<1>8. ASSUME NEW o \in Ops, RecordDroplet(o)
      PROVE  RestInv'
  <2>1. CASE op' = op
    BY <1>0, <1>8, <2>1 DEF RecordDroplet, Goto, At, OpRec, ProcRec, Working
  <2>2. CASE op' = [op EXCEPT ![o].names = TRUE]
    BY <1>0, <1>8, <2>2 DEF RecordDroplet, Goto, At, OpRec, ProcRec, Working
  <2> QED
    BY <1>8, <2>1, <2>2 DEF RecordDroplet
<1>9. ASSUME NEW o \in Ops, CommandEnds(o)
      PROVE  RestInv'
  <2>1. CASE /\ proc' = [proc EXCEPT ![o] = [pc |-> "unlock", ok |-> TRUE]]
             /\ completed' = completed \cup {o}
    BY <1>0, <1>9, <2>1 DEF CommandEnds, OpRec, ProcRec, Working
  <2>2. CASE Goto(o, "unlock") /\ completed' = completed
    BY <1>0, <1>9, <2>2 DEF CommandEnds, Goto, OpRec, ProcRec, Working
  <2> QED
    BY <1>9, <2>1, <2>2 DEF CommandEnds
<1>10. ASSUME NEW o \in Ops, Unlock(o)
       PROVE  RestInv'
  BY <1>0, <1>10 DEF Unlock, Goto, At, OpRec, ProcRec, Working
<1>11. ASSUME NEW o \in Ops, Finish(o)
       PROVE  RestInv'
  BY <1>0, <1>11, Reset DEF Finish, At, OpRec, ProcRec, Working
<1>12. ASSUME NEW o \in Ops, ProcessDies(o)
       PROVE  RestInv'
  BY <1>0, <1>12, Reset DEF ProcessDies, At, OpRec, ProcRec, Working
<1>13. CASE SweepRead
  BY <1>0, <1>13 DEF SweepRead
<1>14. CASE Sweep
  BY <1>0, <1>14, ZenonT(30) DEF Sweep, Up, Down, OpRec
<1>15. CASE ContainerDies
  BY <1>0, <1>15, Reset DEF ContainerDies, Down, Working
<1>16. CASE MasterDies
  BY <1>0, <1>16, Reset DEF MasterDies, Working
<1> QED
  BY <1>1, <1>2, <1>3, <1>4, <1>5, <1>6, <1>7, <1>8, <1>9, <1>10, <1>11, <1>12, <1>13,
     <1>14, <1>15, <1>16 DEF Next, OpRun, Boot

\* IInv holds in every reachable state of the node-operation runner.
THEOREM OpsInductive == Spec => []IInv
<1>1. IInv /\ [Next]_vars => IInv'
  BY TypesKept, RestKept DEF IInv, RestInv
<1> QED
  BY InitInv, <1>1, PTL DEF Spec

-----------------------------------------------------------------------------
(* The properties. *)

\* The rows, processes, lock and sweep stay well-typed for any number of
\* operations and failures.
THEOREM OpsTypeCorrect == Spec => []TypeOK
<1>1. IInv => TypeOK
  BY DEF IInv
<1> QED
  BY OpsInductive, <1>1, PTL

\* Two op-run processes never run their commands at once, whatever is
\* restarted or killed.
THEOREM OneAtATime == Spec => []OneCommand
<1>1. IInv => OneCommand
  BY DEF IInv, LockInv, OneCommand
<1> QED
  BY OpsInductive, <1>1, PTL

\* No refused, failed or killed operation is shown as done.
THEOREM DoneIsTrue == Spec => []DoneIsComplete
<1>1. IInv => DoneIsComplete
  BY DEF IInv
<1> QED
  BY OpsInductive, <1>1, PTL

\* The sweep's docstring is right as long as gunicorn never restarts without
\* its container: every row it finds running has lost its process.
THEOREM SweepIsSafe == Spec => []SweepFindsOnlyDead
<1>1. IInv => SweepFindsOnlyDead
  BY DEF IInv, TypeOK, WebRec, BootInv, SweepFindsOnlyDead
<1> QED
  BY OpsInductive, <1>1, PTL

\* So long, an interrupted operation whose droplet was recorded names it.
THEOREM DropletsNamed == Spec => []RecordedIsNamed
<1>1. IInv => RecordedIsNamed
  BY DEF IInv
<1> QED
  BY OpsInductive, <1>1, PTL

\* So long, a status of done or failed is final.
THEOREM FinalStaysFinal == Spec => FinalStays
<1> DEFINE A == \A o \in Ops : op[o].st \in {"done", "failed"} /\ "gunicorn" \notin alone
                                    => op'[o].st = op[o].st
<1>1. ASSUME IInv, [Next]_vars
      PROVE  A
  <2> SUFFICES ASSUME NEW p \in Ops, op[p].st \in {"done", "failed"},
                      "gunicorn" \notin alone
               PROVE  op'[p].st = op[p].st
    OBVIOUS
  <2>1. op \in [Ops -> OpRec] /\ proc[p].pc = "none"
    BY <1>1 DEF IInv, TypeOK, FinalInv
  <2>2. CASE UNCHANGED vars
    BY <2>2 DEF vars
  <2>3. ASSUME NEW o \in Ops, NEW k \in Kinds, Request(o, k)
        PROVE  op'[p].st = op[p].st
    BY <2>1, <2>3 DEF Request, OpRec
  <2>4. ASSUME NEW o \in Ops, Load(o) \/ Busy(o) \/ Finish(o)
        PROVE  op'[p].st = op[p].st
    <3>1. o # p
      BY <2>1, <2>4 DEF Load, Busy, Finish, At
    <3> QED
      BY <2>1, <2>4, <3>1 DEF Load, Busy, Finish
  <2>5. ASSUME NEW o \in Ops, RecordDroplet(o)
        PROVE  op'[p].st = op[p].st
    BY <2>1, <2>5 DEF RecordDroplet, OpRec
  <2>6. ASSUME NEW o \in Ops,
               \/ Popen(o) \/ TryLock(o) \/ CreateDroplet(o) \/ CommandEnds(o)
               \/ Unlock(o) \/ ProcessDies(o)
        PROVE  op'[p].st = op[p].st
    BY <2>6 DEF Popen, TryLock, CreateDroplet, CommandEnds, Unlock, ProcessDies
  <2>7. CASE Sweep
    <3>1. p \notin web.seen
      BY <1>1, <2>7 DEF IInv, BootInv, Running, Sweep
    <3> QED
      BY <2>7, <3>1 DEF Sweep
  <2>8. CASE SweepRead \/ ContainerDies \/ MasterDies
    BY <2>8 DEF SweepRead, ContainerDies, MasterDies
  <2> QED
    BY <1>1, <2>2, <2>3, <2>4, <2>5, <2>6, <2>7, <2>8 DEF Next, OpRun, Boot
<1>2. IInv /\ [Next]_vars => [A]_vars
  BY <1>1
<1> QED
  BY OpsInductive, <1>2, PTL DEF Spec, FinalStays

-----------------------------------------------------------------------------
(* The promises of the table. *)

\* Only a request not yet loaded is pending.
PendingInv ==
  \A o \in Ops : /\ op[o].st = "pending" => proc[o].pc \in {"none", "fork", "load"}
                 /\ proc[o].pc \in {"fork", "load"} => op[o].st = "pending"

\* The lock is held by a process between flock and unlock.
HeldInv == lock \in Ops => proc[lock].pc \in Working \cup {"unlock"}

\* The rows a sweep has loaded were accepted once.
SeenInv == \A o \in web.seen : op[o].st \notin {"fresh", "pending"}

LedgerInv == PendingInv /\ HeldInv /\ SeenInv

LEMMA LedgerInvInit == Init => LedgerInv
BY NodeOpsAssumption DEF Init, LedgerInv, PendingInv, HeldInv, SeenInv, NoProc, Up, Down

LEMMA LedgerInvKept ==
  ASSUME IInv, LedgerInv, [Next]_vars
  PROVE  LedgerInv'
<1> USE DEF LedgerInv, PendingInv, HeldInv, SeenInv
<1>0. op \in [Ops -> OpRec] /\ proc \in [Ops -> ProcRec] /\ NoOp \notin Ops
      /\ web.seen \subseteq Ops /\ lock \in Ops \cup {NoOp}
  BY NodeOpsAssumption DEF IInv, TypeOK, WebRec
<1>a. FinalInv
  BY DEF IInv
<1>1. CASE UNCHANGED vars
  BY <1>1 DEF vars
<1>2. ASSUME NEW o \in Ops, NEW k \in Kinds, Request(o, k)
      PROVE  LedgerInv'
  <2>1. proc[o].pc = "none"
    BY <1>a, <1>2 DEF Request, FinalInv
  <2>2. lock # o /\ o \notin web.seen
    BY <1>0, <1>2, <2>1 DEF Request, Working
  <2> QED
    BY <1>0, <1>2, <2>2 DEF Request, Goto, OpRec, ProcRec, Working
<1>3. ASSUME NEW o \in Ops, Popen(o)
      PROVE  LedgerInv'
  BY <1>0, <1>3 DEF Popen, Goto, At, OpRec, ProcRec, Working
<1>4. ASSUME NEW o \in Ops, Load(o)
      PROVE  LedgerInv'
  BY <1>0, <1>4 DEF Load, Goto, At, OpRec, ProcRec, Working
<1>5. ASSUME NEW o \in Ops, TryLock(o)
      PROVE  LedgerInv'
  <2>1. CASE lock = NoOp /\ lock' = o /\ Goto(o, "work")
    BY <1>0, <1>5, <2>1 DEF TryLock, Goto, At, OpRec, ProcRec, Working
  <2>2. CASE lock # NoOp /\ lock' = lock /\ Goto(o, "busy")
    BY <1>0, <1>5, <2>2 DEF TryLock, Goto, At, OpRec, ProcRec, Working
  <2> QED
    BY <1>5, <2>1, <2>2 DEF TryLock
<1>6. ASSUME NEW o \in Ops, Busy(o)
      PROVE  LedgerInv'
  BY <1>0, <1>6, Reset DEF Busy, At, OpRec, ProcRec, Working
<1>7. ASSUME NEW o \in Ops, CreateDroplet(o)
      PROVE  LedgerInv'
  BY <1>0, <1>7 DEF CreateDroplet, Goto, At, OpRec, ProcRec, Working
<1>8. ASSUME NEW o \in Ops, RecordDroplet(o)
      PROVE  LedgerInv'
  <2>1. CASE op' = op
    BY <1>0, <1>8, <2>1 DEF RecordDroplet, Goto, At, OpRec, ProcRec, Working
  <2>2. CASE op' = [op EXCEPT ![o].names = TRUE]
    BY <1>0, <1>8, <2>2 DEF RecordDroplet, Goto, At, OpRec, ProcRec, Working
  <2> QED
    BY <1>8, <2>1, <2>2 DEF RecordDroplet
<1>9. ASSUME NEW o \in Ops, CommandEnds(o)
      PROVE  LedgerInv'
  <2>1. CASE proc' = [proc EXCEPT ![o] = [pc |-> "unlock", ok |-> TRUE]]
    BY <1>0, <1>9, <2>1 DEF CommandEnds, OpRec, ProcRec, Working
  <2>2. CASE Goto(o, "unlock")
    BY <1>0, <1>9, <2>2 DEF CommandEnds, Goto, OpRec, ProcRec, Working
  <2> QED
    BY <1>9, <2>1, <2>2 DEF CommandEnds
<1>10. ASSUME NEW o \in Ops, Unlock(o)
       PROVE  LedgerInv'
  BY <1>0, <1>10 DEF Unlock, Goto, At, OpRec, ProcRec, Working
<1>11. ASSUME NEW o \in Ops, Finish(o)
       PROVE  LedgerInv'
  BY <1>0, <1>11, Reset DEF Finish, At, OpRec, ProcRec, Working
<1>12. ASSUME NEW o \in Ops, ProcessDies(o)
       PROVE  LedgerInv'
  BY <1>0, <1>12, Reset DEF ProcessDies, At, OpRec, ProcRec, Working
<1>13. CASE SweepRead
  BY <1>0, <1>13 DEF SweepRead, Running
<1>14. CASE Sweep
  BY <1>0, <1>14 DEF Sweep, Up, Down, OpRec
<1>15. CASE ContainerDies
  BY <1>0, <1>15, Reset DEF ContainerDies, Down
<1>16. CASE MasterDies
  BY <1>0, <1>16, Reset DEF MasterDies, Down, At, Working
<1> QED
  BY <1>1, <1>2, <1>3, <1>4, <1>5, <1>6, <1>7, <1>8, <1>9, <1>10, <1>11, <1>12, <1>13,
     <1>14, <1>15, <1>16 DEF Next, OpRun, Boot

\* A process past the load has a row that is running, or was swept beside it.
LEMMA Acting ==
  ASSUME IInv, LedgerInv, NEW o \in Ops, proc[o].pc \notin {"none", "fork", "load"}
  PROVE  Ledger!Unsettled(o)
BY DEF IInv, LedgerInv, TypeOK, OpRec, FinalInv, SweptInv, PendingInv, Ledger!Unsettled

\* The initial states map to an initial state of the table's promises.
LEMMA LedgerInit == Init => Ledger!Init
BY DEF Init, Ledger!Init

\* Every step maps to a step or a stutter.
LEMMA LedgerStep ==
  ASSUME IInv, LedgerInv, [Next]_vars
  PROVE  [Ledger!Next]_Ledger!vars
<1>0. op \in [Ops -> OpRec] /\ proc \in [Ops -> ProcRec] /\ NoOp \notin Ops
      /\ web.seen \subseteq Ops /\ lock \in Ops \cup {NoOp}
  BY NodeOpsAssumption DEF IInv, TypeOK, WebRec
<1> DEFINE Same == UNCHANGED Ledger!vars
<1>1. CASE UNCHANGED vars
  BY <1>1 DEF vars, Ledger!vars
<1>2. ASSUME NEW o \in Ops, NEW k \in Kinds, Request(o, k)
      PROVE  Ledger!Ask(o)
  BY <1>0, <1>2 DEF Request, Ledger!Ask, OpRec
<1>3. ASSUME NEW o \in Ops, Popen(o) \/ CreateDroplet(o)
      PROVE  Same
  BY <1>3 DEF Popen, CreateDroplet, Ledger!vars
<1>4. ASSUME NEW o \in Ops, Load(o)
      PROVE  Ledger!Accept(o)
  <2>1. op[o].st = "pending"
    BY <1>4 DEF LedgerInv, PendingInv, Load, At
  <2> QED
    BY <1>0, <1>4, <2>1 DEF Load, Ledger!Accept, OpRec
<1>5. ASSUME NEW o \in Ops, TryLock(o)
      PROVE  Ledger!Acquire(o) \/ Same
  <2>1. Ledger!Unsettled(o)
    BY <1>5, Acting DEF TryLock, At
  <2> QED
    BY <1>5, <2>1 DEF TryLock, Ledger!Acquire, Ledger!vars
<1>6. ASSUME NEW o \in Ops, Busy(o)
      PROVE  Ledger!Settle(o)
  <2>1. Ledger!Unsettled(o) /\ lock # o
    BY <1>6, Acting DEF Busy, At, LedgerInv, HeldInv, Working
  <2> QED
    BY <1>0, <1>6, <2>1 DEF Busy, Ledger!Settle, OpRec
<1>7. ASSUME NEW o \in Ops, RecordDroplet(o)
      PROVE  Same
  <2>1. \A p \in Ops : op'[p].st = op[p].st
    BY <1>0, <1>7 DEF RecordDroplet, OpRec
  <2> QED
    BY <1>7, <2>1 DEF RecordDroplet, Ledger!vars
<1>8. ASSUME NEW o \in Ops, CommandEnds(o)
      PROVE  Ledger!Achieve(o) \/ Same
  <2>1. lock = o
    BY <1>8 DEF CommandEnds, IInv, LockInv
  <2> QED
    BY <1>8, <2>1 DEF CommandEnds, Ledger!Achieve, Ledger!vars
<1>9. ASSUME NEW o \in Ops, Unlock(o)
      PROVE  Ledger!Release
  BY <1>9 DEF Unlock, Ledger!Release
<1>10. ASSUME NEW o \in Ops, Finish(o)
       PROVE  Ledger!Settle(o)
  <2>1. Ledger!Unsettled(o) /\ lock # o
    BY <1>10, Acting DEF Finish, At, LedgerInv, HeldInv, Working
  <2>2. proc[o].ok => o \in completed
    BY DEF IInv, OkInv
  <2>3. PICK s \in {"done", "failed"} : /\ s = "done" => o \in completed
                                        /\ op' = [op EXCEPT ![o].st = s]
    BY <1>10, <2>2 DEF Finish
  <2> QED
    <3>1. \A p \in Ops : op'[p].st = IF p = o THEN s ELSE op[p].st
      BY <1>0, <2>3 DEF OpRec
    <3>2. UNCHANGED <<lock, completed, alone>>
      BY <1>10 DEF Finish
    <3> HIDE DEF Ledger!Unsettled
    <3> QED
      BY <2>1, <2>3, <3>1, <3>2 DEF Ledger!Settle
<1>11. ASSUME NEW o \in Ops, ProcessDies(o)
       PROVE  Ledger!Release \/ Same
  <2>1. ("gunicorn" \notin alone') = ("gunicorn" \notin alone)
    BY <1>11 DEF ProcessDies
  <2> QED
    BY <1>11, <2>1 DEF ProcessDies, Ledger!Release, Ledger!vars
<1>12. CASE SweepRead
  BY <1>12 DEF SweepRead, Ledger!vars
<1>13. CASE Sweep
  <2>1. \A o \in web.seen : IF "gunicorn" \notin alone THEN op[o].st = "running" /\ lock # o
                            ELSE op[o].st \notin {"fresh", "pending"}
    BY <1>13 DEF Sweep, IInv, BootInv, Running, LedgerInv, HeldInv, SeenInv, Working
  <2>2. \A o \in Ops : op'[o].st = IF o \in web.seen THEN "interrupted" ELSE op[o].st
    BY <1>0, <1>13 DEF Sweep, OpRec
  <2>3. PICK S \in SUBSET Ops : S = web.seen
    BY <1>0
  <2>4. Ledger!Interrupt(S)
    BY <1>13, <2>1, <2>2, <2>3 DEF Sweep, Ledger!Interrupt
  <2> QED
    BY <2>4 DEF Ledger!Next
<1>14. CASE ContainerDies
  BY <1>14 DEF ContainerDies, Ledger!Next, Ledger!Release
<1>15. CASE MasterDies
  BY <1>15 DEF MasterDies, Ledger!Next, Ledger!LoseTrust
<1> HIDE DEF Same
<1>16. Same => [Ledger!Next]_Ledger!vars
  BY DEF Same
<1> QED
  BY <1>1, <1>2, <1>3, <1>4, <1>5, <1>6, <1>7, <1>8, <1>9, <1>10, <1>11, <1>12, <1>13,
     <1>14, <1>15, <1>16 DEF Next, OpRun, Boot, Ledger!Next

\* The routes, op-run and the boot sweep implement the table's promises
\* (OpLedger), for any number of operations, restarts and killed processes.
THEOREM ImplementsLedger == Spec => KeepsLedger
<1>1. IInv /\ LedgerInv /\ [Next]_vars => LedgerInv'
  BY LedgerInvKept
<1>2. IInv /\ LedgerInv /\ [Next]_vars => [Ledger!Next]_Ledger!vars
  BY LedgerStep
<1> QED
  BY OpsInductive, LedgerInvInit, LedgerInit, <1>1, <1>2, PTL
     DEF Spec, KeepsLedger, Ledger!Spec
=============================================================================
