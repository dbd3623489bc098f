--------------------------- MODULE DatabaseStatus ---------------------------
(***************************************************************************)
(* What a client may rely on when it watches the status of its databases   *)
(* (GET /api/databases and the events stream): the promise the handlers,   *)
(* tasks and restarts of DatabaseLifecycle keep between them.              *)
(*                                                                         *)
(* A row is inserted once and removed once.  Provisioning ends in one of   *)
(* two ways and is never entered again.  A failed database can only be     *)
(* removed.  The mark "deleting" is not final: a call or a task that was   *)
(* already at work may overwrite it (Overwrite).                           *)
(***************************************************************************)
CONSTANT Dbs

VARIABLE st

Live == {"provisioning", "running", "stopped", "error", "deleting"}

Init == st = [d \in Dbs |-> "unborn"]

Move(d, from, to) ==
  /\ st[d] \in from
  /\ \E s \in to : st' = [st EXCEPT ![d] = s]

Accept(d)    == Move(d, {"unborn"}, {"provisioning"})
Settle(d)    == Move(d, {"provisioning"}, {"running", "error"})
Operate(d)   == Move(d, {"running", "stopped"}, {"running", "stopped"})
Condemn(d)   == Move(d, Live, {"deleting"})
Overwrite(d) == Move(d, {"deleting"}, {"running", "stopped", "error"})
Remove(d)    == Move(d, Live, {"gone"})

Next == \E d \in Dbs :
  \/ Accept(d) \/ Settle(d) \/ Operate(d)
  \/ Condemn(d) \/ Overwrite(d) \/ Remove(d)

Spec == Init /\ [][Next]_st
=============================================================================
