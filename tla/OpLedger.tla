------------------------------ MODULE OpLedger ------------------------------
(***************************************************************************)
(* What the table of node operations promises whoever reads it on the admin *)
(* page, without its processes, locks and restarts: one operation at a time *)
(* changes the cluster; `done` is said of one that did its work; and, as     *)
(* long as the web server has never been restarted beside the operations, an *)
(* operation is settled once, and only when it no longer acts.               *)
(***************************************************************************)

CONSTANTS Ops, NoOp

VARIABLES
  shown,   \* the status of each operation
  active,  \* the operation that may change the cluster
  did,     \* the operations that did what they were asked
  trusted  \* no restart of the web server alone so far

vars == <<shown, active, did, trusted>>

Init ==
  /\ shown = [o \in Ops |-> "fresh"]
  /\ active = NoOp
  /\ did = {}
  /\ trusted = TRUE

Ask(o) ==
  /\ shown[o] = "fresh"
  /\ shown' = [shown EXCEPT ![o] = "pending"]
  /\ UNCHANGED <<active, did, trusted>>

Accept(o) ==
  /\ shown[o] = "pending"
  /\ shown' = [shown EXCEPT ![o] = "running"]
  /\ UNCHANGED <<active, did, trusted>>

\* Once the trust is gone, a settled operation may still act and settle again.
Unsettled(o) == shown[o] = "running" \/ (~trusted /\ shown[o] = "interrupted")

Acquire(o) ==
  /\ active = NoOp /\ Unsettled(o)
  /\ active' = o
  /\ UNCHANGED <<shown, did, trusted>>

Achieve(o) ==
  /\ active = o
  /\ did' = did \cup {o}
  /\ UNCHANGED <<shown, active, trusted>>

Release ==
  /\ active' = NoOp
  /\ UNCHANGED <<shown, did, trusted>>

Settle(o) ==
  /\ active # o /\ Unsettled(o)
  /\ \E s \in {"done", "failed"} :
       /\ s = "done" => o \in did
       /\ shown' = [shown EXCEPT ![o] = s]
  /\ UNCHANGED <<active, did, trusted>>

\* Any number of operations at once.
Interrupt(S) ==
  /\ \A o \in S : IF trusted THEN shown[o] = "running" /\ active # o
                  ELSE shown[o] \notin {"fresh", "pending"}
  /\ shown' = [o \in Ops |-> IF o \in S THEN "interrupted" ELSE shown[o]]
  /\ UNCHANGED <<active, did, trusted>>

LoseTrust ==
  /\ trusted' = FALSE
  /\ UNCHANGED <<shown, active, did>>

Next ==
  \/ \E o \in Ops : Ask(o) \/ Accept(o) \/ Acquire(o) \/ Achieve(o) \/ Settle(o)
  \/ Release \/ LoseTrust
  \/ \E S \in SUBSET Ops : Interrupt(S)

Spec == Init /\ [][Next]_vars
=============================================================================
