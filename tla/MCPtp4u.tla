------------------------------ MODULE MCPtp4u ------------------------------
(* Small instances of Ptp4u. *)
EXTENDS Ptp4u, TLC

CONSTANTS kSync, kResp, kReq, g1, g2, e1

SyncTypeOf == kSync :> "Sync"
DelayTypeOf == (kResp :> "DelayResp") @@ (kReq :> "DelayReq")

Receivers == Permutations({g1, g2})
\* The states in which the queues are empty, as with the default of no buffer, and those in which a
\* queue holds a subscription, there with one receiver and one cancel or drain.
QueuesOrReceivers ==
  \/ queue = <<>> /\ signalingQueue = <<>>
  \/ /\ \E h \in General : \A o \in General \ {h} : handler[o] = Idle
     /\ cancels + drains <= 1

\* Two requests with a cancel, or a request with a drain: no step with fairness raises these counts.
EndsNext == Next /\ requests' + cancels' + 2 * drains' <= 3
EndsSpec == Init /\ [][EndsNext]_vars /\ Fairness
=============================================================================
