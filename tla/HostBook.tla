------------------------------ MODULE HostBook ------------------------------
(***************************************************************************)
(* What the code_host table promises about the student hosts of the Swarm,  *)
(* without its requests, commands, sync passes and their local copies: a    *)
(* host is started only for a user who has none; it is either in the table,  *)
(* or in the hands of the start that made it, or known to be lost track of;  *)
(* what went down stays down; and it is marked MIA, or struck off, only when *)
(* that is true.                                                            *)
(***************************************************************************)
EXTENDS Naturals

CONSTANTS Hosts, Users, NoUser

VARIABLES
  fate,     \* of each host; "adrift": running, its node taken from under a task
  owner,    \* whom it was started for
  entered,  \* the hosts that ever had a row
  booked,   \* those that have one
  marked,   \* those whose row says MIA
  starting, \* those a start has in hand
  lost      \* those a failure or an admin has cut from their rows

vars == <<fate, owner, entered, booked, marked, starting, lost>>

Running(h) == fate[h] \in {"up", "adrift"}
Missing(h) == fate[h] \in {"adrift", "gone"}

\* The table owes it no row.
Written(h) == Missing(h) \/ h \in lost

Init ==
  /\ fate = [h \in Hosts |-> "unborn"] /\ owner = [h \in Hosts |-> NoUser]
  /\ entered = {} /\ booked = {} /\ marked = {} /\ starting = {} /\ lost = {}

Start(h, u) ==
  /\ fate[h] = "unborn"
  /\ \A g \in Hosts : Running(g) => owner[g] # u
  /\ fate' = [fate EXCEPT ![h] = "up"] /\ owner' = [owner EXCEPT ![h] = u]
  /\ starting' = starting \cup {h}
  /\ UNCHANGED <<entered, booked, marked, lost>>

\* A start that finds its user's host running takes it up.
TakeUp(h) ==
  /\ Running(h)
  /\ starting' = starting \cup {h}
  /\ UNCHANGED <<fate, owner, entered, booked, marked, lost>>

GiveUp(h) ==
  /\ Written(h) \/ h \in booked
  /\ starting' = starting \ {h}
  /\ UNCHANGED <<fate, owner, entered, booked, marked, lost>>

\* A row is inserted or updated, which may be the end of the start.
Enter(h) ==
  /\ fate[h] # "unborn"
  /\ entered' = entered \cup {h} /\ booked' = booked \cup {h}
  /\ \/ marked' = marked \ {h}
     \/ Missing(h) /\ marked' = marked \cup {h}
  /\ starting' \in {starting, starting \ {h}}
  /\ UNCHANGED <<fate, owner, lost>>

Strike(H) ==
  /\ \A h \in H : Written(h)
  /\ booked' = booked \ H /\ marked' = marked \ H
  /\ UNCHANGED <<fate, owner, entered, starting, lost>>

\* An admin deletes the row of a host that stays.
Disown(h) ==
  /\ h \in booked
  /\ booked' = booked \ {h} /\ marked' = marked \ {h}
  /\ lost' = lost \cup {h}
  /\ UNCHANGED <<fate, owner, entered, starting>>

\* A start is cut off, or the removal of a booked host fails.
Lose(h) ==
  /\ h \in starting \cup entered
  /\ lost' = lost \cup {h}
  /\ starting' \in {starting, starting \ {h}}
  /\ UNCHANGED <<fate, owner, entered, booked, marked>>

SetAdrift(h) ==
  /\ fate[h] = "up"
  /\ fate' = [fate EXCEPT ![h] = "adrift"]
  /\ UNCHANGED <<owner, entered, booked, marked, starting, lost>>

\* By the stop of its row, or of a host that an operator found without one.
TakeDown(h) ==
  /\ Running(h)
  /\ fate' = [fate EXCEPT ![h] = "gone"]
  /\ UNCHANGED <<owner, entered, booked, marked, starting, lost>>

Next ==
  \/ \E H \in SUBSET booked : Strike(H)
  \/ \E h \in Hosts :
       \/ \E u \in Users : Start(h, u)
       \/ TakeUp(h) \/ GiveUp(h) \/ Enter(h) \/ Disown(h) \/ Lose(h)
       \/ SetAdrift(h) \/ TakeDown(h)

Spec == Init /\ [][Next]_vars
=============================================================================
