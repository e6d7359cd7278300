------------------------------- MODULE Ptp4u -------------------------------
(***************************************************************************)
(* The unicast subscriptions of the ptp4u server (ptp/ptp4u/server): the   *)
(* receive goroutines that grant, renew and cancel subscriptions, one      *)
(* Start goroutine per started subscription, one send worker with its two  *)
(* queues, the inventory that drops finished subscriptions, and draining.  *)
(*                                                                         *)
(* A key is a client and a message type; every key is served by the one    *)
(* worker modelled (findWorker maps a client to the same worker always).   *)
(* The mutex of a subscription is held across a step only by a Stop that   *)
(* waits for room in the stop channel, so Locked says who holds it.        *)
(***************************************************************************)
EXTENDS Naturals, Sequences, FiniteSets

CONSTANTS Keys,         \* (client identity, message type) pairs
          TypeOf,       \* the message type of a key
          General,      \* goroutines of handleGeneralMessages
          Event,        \* goroutines of handleEventMessages
          QueueSize,    \* capacity of both queues of the worker, 0 by default
          DrainRounds,  \* inventories of one Drain, 10 in the code
          MaxRequests,  \* bound: grant and delay requests received
          MaxCancels,   \* bound: cancel requests received
          MaxDrains     \* bound: drains

None == 0
Types == {"Sync", "Announce", "DelayResp", "DelayReq"}
Handlers == General \cup Event
Subs == 1..MaxRequests        \* a request creates at most one subscription
Routines == 1..MaxRequests    \* and starts at most one goroutine
Intervals == {"ok", "low"}    \* low: below MinSubInterval, or a duration
                              \* above MaxSubDuration (the same branch)

ASSUME ConstantsAssumption ==
    /\ TypeOf \in [Keys -> Types]
    /\ General \cap Event = {}
    /\ QueueSize \in Nat /\ DrainRounds \in Nat \ {0}
    /\ MaxRequests \in Nat /\ MaxCancels \in Nat /\ MaxDrains \in Nat

VARIABLES clients,         \* worker.clients: the subscription of each key
          subKey,          \* the key a subscription was created for
          running, expired, stop, interval, runningInterval,
          signaling,       \* the content of sc.signaling
          signalled,       \* what the worker last sent of it
          handler,         \* the receive goroutines
          routine,         \* the Start goroutines
          queue, signalingQueue, worker,
          mux, todo, left, \* inventoryClients and its two callers
          ctx, cancelled,  \* s.ctx: its generation, and s.ctx.Err() # nil
          subs, routines, requests, cancels, drains

scVars == <<subKey, running, expired, stop, interval, runningInterval>>
sigVars == <<signaling, signalled>>
queueVars == <<queue, signalingQueue, worker>>
invVars == <<mux, todo, left>>
ctxVars == <<ctx, cancelled, drains>>
counts == <<subs, routines, requests, cancels>>
vars == <<clients, scVars, sigVars, handler, routine, queueVars, invVars,
          ctxVars, counts>>

Idle == [pc |-> "read", key |-> None, sub |-> None, interval |-> "ok"]
NotStarted == [pc |-> "none", sub |-> None, ctx |-> 0]
Free == [from |-> "none", sub |-> None]

SubscriptionType ==
    /\ clients \in [Keys -> Subs \cup {None}]
    /\ subKey \in [Subs -> Keys \cup {None}]
    /\ running \in [Subs -> BOOLEAN] /\ expired \in [Subs -> BOOLEAN]
    /\ stop \in [Subs -> {0, 1}]
    /\ interval \in [Subs -> Intervals] /\ runningInterval \in [Subs -> Intervals]

SignalingType ==
    /\ signaling \in [Subs -> {"empty", "grant", "reject", "cancel"}]
    /\ signalled \in [Subs -> {"empty", "grant", "reject", "cancel"}]

HandlerType ==
    /\ handler \in [Handlers ->
          [pc : {"read", "found", "limits", "rejectSend", "grantSend", "start",
                 "stop", "stopWait", "bump", "once"},
           key : Keys \cup {None}, sub : Subs \cup {None}, interval : Intervals]]
    /\ \A h \in Handlers :
          /\ handler[h].pc # "read" => handler[h].key \in Keys
          /\ handler[h].pc \notin {"read", "found", "bump"} => handler[h].sub \in Subs

RoutineType ==
    /\ routine \in [Routines ->
          [pc : {"none", "spawned", "first", "select", "tick", "once", "exit",
                 "cancel", "cancelSend", "done"},
           sub : Subs \cup {None}, ctx : Nat]]
    /\ \A p \in Routines : routine[p].pc # "none" => routine[p].sub \in Subs

QueueType ==
    /\ queue \in Seq(Subs) /\ signalingQueue \in Seq(Subs)
    /\ worker \in [from : {"queue", "signaling"}, sub : Subs] \cup {Free}

InventoryType ==
    /\ mux \in {"free", "metrics", "drain"} /\ todo \in SUBSET Keys
    /\ left \in [{"metrics", "drain"} -> Nat]
    /\ mux # "free" => left[mux] > 0

CounterType ==
    /\ ctx \in Nat /\ cancelled \in BOOLEAN /\ drains \in Nat
    /\ subs \in 0..MaxRequests /\ routines \in 0..MaxRequests
    /\ requests \in 0..MaxRequests /\ cancels \in Nat

TypeOK ==
    /\ SubscriptionType /\ SignalingType /\ HandlerType /\ RoutineType
    /\ QueueType /\ InventoryType /\ CounterType

Init ==
    /\ clients = [k \in Keys |-> None]
    /\ subKey = [s \in Subs |-> None]
    /\ running = [s \in Subs |-> FALSE] /\ expired = [s \in Subs |-> FALSE]
    /\ stop = [s \in Subs |-> 0]
    /\ interval = [s \in Subs |-> "ok"] /\ runningInterval = [s \in Subs |-> "ok"]
    /\ signaling = [s \in Subs |-> "empty"] /\ signalled = [s \in Subs |-> "empty"]
    /\ handler = [h \in Handlers |-> Idle]
    /\ routine = [p \in Routines |-> NotStarted]
    /\ queue = <<>> /\ signalingQueue = <<>> /\ worker = Free
    /\ mux = "free" /\ todo = {} /\ left = [i \in {"metrics", "drain"} |-> 0]
    /\ ctx = 0 /\ cancelled = FALSE /\ drains = 0
    /\ subs = 0 /\ routines = 0 /\ requests = 0 /\ cancels = 0

-----------------------------------------------------------------------------
\* The mutex of subscription s is held by a Stop blocked on the stop channel.
Locked(s) == \E h \in General : handler[h].pc = "stopWait" /\ handler[h].sub = s

\* Sync and Announce subscriptions queue themselves, the others wait for a request.
Periodic(s) == TypeOf[subKey[s]] \in {"Sync", "Announce"}

\* Mutant of Done: the goroutine looks at the server's current context.
DoneCurrent(c) == c = ctx /\ cancelled

\* A context of generation c is Done: Undrain replaces only a cancelled one.
Done(c) == c < ctx \/ cancelled

\* sc.queue <- sc: into the buffer, or straight to a worker that waits.
Once(s) ==
    /\ \/ /\ Len(queue) < QueueSize
          /\ queue' = Append(queue, s) /\ UNCHANGED worker
       \/ /\ queue = <<>> /\ worker = Free
          /\ worker' = [from |-> "queue", sub |-> s] /\ UNCHANGED queue
    /\ UNCHANGED signalingQueue

\* sc.signalingQueue <- sc
OnceSignaling(s) ==
    /\ \/ /\ Len(signalingQueue) < QueueSize
          /\ signalingQueue' = Append(signalingQueue, s) /\ UNCHANGED worker
       \/ /\ signalingQueue = <<>> /\ worker = Free
          /\ worker' = [from |-> "signaling", sub |-> s] /\ UNCHANGED signalingQueue
    /\ UNCHANGED queue

\* NewSubscriptionClient and RegisterSubscription: n is the new subscription of k.
Register(n, k, i) ==
    /\ mux = "free" /\ n \in Subs
    /\ subs' = n
    /\ clients' = [clients EXCEPT ![k] = n]
    /\ subKey' = [subKey EXCEPT ![n] = k]
    /\ interval' = [interval EXCEPT ![n] = i]
    /\ UNCHANGED <<running, expired, stop, runningInterval>>

\* go sc.Start(s.ctx)
Spawn(s) ==
    /\ routines < MaxRequests /\ routines' = routines + 1
    /\ routine' = [routine EXCEPT ![routines + 1] =
                     [pc |-> "spawned", sub |-> s, ctx |-> ctx]]

-----------------------------------------------------------------------------
(* handleGeneralMessages: a unicast grant request, from FindSubscription on. *)
ReceiveRequest(h, k, i) ==
    /\ handler[h].pc = "read" /\ requests < MaxRequests
    /\ TypeOf[k] # "DelayReq" /\ mux = "free"
    /\ handler' = [handler EXCEPT ![h] =
                     [pc |-> "found", key |-> k, sub |-> clients[k], interval |-> i]]
    /\ requests' = requests + 1
    /\ UNCHANGED <<clients, scVars, sigVars, routine, queueVars, invVars, ctxVars,
                   subs, routines, cancels>>

CreateSubscription(h) ==
    /\ handler[h].pc = "found"
    /\ \/ handler[h].sub = None
       \/ handler[h].sub # None /\ ~Locked(handler[h].sub) /\ ~running[handler[h].sub]
    /\ Register(subs + 1, handler[h].key, handler[h].interval)
    /\ handler' = [handler EXCEPT ![h].pc = "limits", ![h].sub = subs + 1]
    /\ UNCHANGED <<sigVars, routine, queueVars, invVars, ctxVars,
                   routines, requests, cancels>>

RenewSubscription(h) ==
    /\ handler[h].pc = "found" /\ handler[h].sub # None
    /\ ~Locked(handler[h].sub) /\ running[handler[h].sub]
    /\ expired' = [expired EXCEPT ![handler[h].sub] = FALSE]
    /\ interval' = [interval EXCEPT ![handler[h].sub] = handler[h].interval]
    /\ handler' = [handler EXCEPT ![h].pc = "limits"]
    /\ UNCHANGED <<clients, subKey, running, stop, runningInterval, sigVars, routine,
                   queueVars, invVars, ctxVars, counts>>

AnswerRequest(h) ==
    /\ handler[h].pc = "limits"
    /\ LET rejected == handler[h].interval = "low" \/ cancelled
       IN  /\ signaling' = [signaling EXCEPT ![handler[h].sub] =
                              IF rejected THEN "reject" ELSE "grant"]
           /\ handler' = [handler EXCEPT ![h].pc =
                            IF rejected THEN "rejectSend" ELSE "grantSend"]
    /\ UNCHANGED <<clients, scVars, signalled, routine, queueVars, invVars, ctxVars,
                   counts>>

SendReject(h) ==
    /\ handler[h].pc = "rejectSend" /\ OnceSignaling(handler[h].sub)
    /\ handler' = [handler EXCEPT ![h] = Idle]
    /\ UNCHANGED <<clients, scVars, sigVars, routine, invVars, ctxVars, counts>>

SendGrant(h) ==
    /\ handler[h].pc = "grantSend" /\ OnceSignaling(handler[h].sub)
    /\ handler' = [handler EXCEPT ![h].pc = "start"]
    /\ UNCHANGED <<clients, scVars, sigVars, routine, invVars, ctxVars, counts>>

\* Mutant of StartIfNotRunning: Start without the check of Running.
StartAlways(h) ==
    /\ handler[h].pc = "start" /\ ~Locked(handler[h].sub)
    /\ Spawn(handler[h].sub)
    /\ handler' = [handler EXCEPT ![h] = Idle]
    /\ UNCHANGED <<clients, scVars, sigVars, queueVars, invVars, ctxVars,
                   subs, requests, cancels>>

StartIfNotRunning(h) ==
    /\ handler[h].pc = "start" /\ ~Locked(handler[h].sub)
    /\ IF running[handler[h].sub] THEN UNCHANGED <<routine, routines>>
                                  ELSE Spawn(handler[h].sub)
    /\ handler' = [handler EXCEPT ![h] = Idle]
    /\ UNCHANGED <<clients, scVars, sigVars, queueVars, invVars, ctxVars,
                   subs, requests, cancels>>

(* handleGeneralMessages: a cancel request, and SubscriptionClient.Stop. *)
ReceiveCancel(h, k) ==
    /\ handler[h].pc = "read" /\ cancels < MaxCancels /\ mux = "free"
    /\ cancels' = cancels + 1
    /\ handler' = IF clients[k] = None THEN handler
                  ELSE [handler EXCEPT ![h].pc = "stop", ![h].key = k, ![h].sub = clients[k]]
    /\ UNCHANGED <<clients, scVars, sigVars, routine, queueVars, invVars, ctxVars,
                   subs, routines, requests>>

\* Mutant of Stop: the stop channel has no capacity to respect.
StopUnbounded(h) ==
    /\ handler[h].pc = "stop" /\ ~Locked(handler[h].sub)
    /\ LET s == handler[h].sub
       IN  /\ expired' = [expired EXCEPT ![s] = TRUE]
           /\ stop' = IF running[s] THEN [stop EXCEPT ![s] = @ + 1] ELSE stop
    /\ handler' = [handler EXCEPT ![h] = Idle]
    /\ UNCHANGED <<clients, subKey, running, interval, runningInterval, sigVars, routine,
                   queueVars, invVars, ctxVars, counts>>

Stop(h) ==
    /\ handler[h].pc = "stop" /\ ~Locked(handler[h].sub)
    /\ LET s == handler[h].sub
       IN  /\ expired' = [expired EXCEPT ![s] = TRUE]
           /\ IF running[s] /\ stop[s] = 1
              THEN handler' = [handler EXCEPT ![h].pc = "stopWait"] /\ UNCHANGED stop
              ELSE /\ handler' = [handler EXCEPT ![h] = Idle]
                   /\ stop' = IF running[s] THEN [stop EXCEPT ![s] = 1] ELSE stop
    /\ UNCHANGED <<clients, subKey, running, interval, runningInterval, sigVars, routine,
                   queueVars, invVars, ctxVars, counts>>

StopUnblocked(h) ==
    /\ handler[h].pc = "stopWait" /\ stop[handler[h].sub] = 0
    /\ stop' = [stop EXCEPT ![handler[h].sub] = 1]
    /\ handler' = [handler EXCEPT ![h] = Idle]
    /\ UNCHANGED <<clients, subKey, running, expired, interval, runningInterval, sigVars,
                   routine, queueVars, invVars, ctxVars, counts>>

-----------------------------------------------------------------------------
(* handleEventMessages: a delay request of an SPTP client (type DelayReq) or *)
(* of a client with a DelayResp subscription.                                *)
ReceiveDelayReq(h, k) ==
    /\ handler[h].pc = "read" /\ requests < MaxRequests
    /\ ~cancelled /\ mux = "free" /\ TypeOf[k] \in {"DelayReq", "DelayResp"}
    /\ requests' = requests + 1
    /\ handler' = IF TypeOf[k] = "DelayResp" /\ clients[k] = None THEN handler
                  ELSE [handler EXCEPT ![h] =
                          [pc |-> IF TypeOf[k] = "DelayReq" THEN "bump" ELSE "once",
                           key |-> k, sub |-> clients[k], interval |-> "ok"]]
    /\ UNCHANGED <<clients, scVars, sigVars, routine, queueVars, invVars, ctxVars,
                   subs, routines, cancels>>

CreateSptpSubscription(h) ==
    /\ handler[h].pc = "bump" /\ handler[h].sub = None
    /\ Register(subs + 1, handler[h].key, "ok")
    /\ Spawn(subs + 1)
    /\ handler' = [handler EXCEPT ![h].pc = "once", ![h].sub = subs + 1]
    /\ UNCHANGED <<sigVars, queueVars, invVars, ctxVars, requests, cancels>>

BumpSubscription(h) ==
    /\ handler[h].pc = "bump" /\ handler[h].sub # None /\ ~Locked(handler[h].sub)
    /\ expired' = [expired EXCEPT ![handler[h].sub] = FALSE]
    /\ handler' = [handler EXCEPT ![h].pc = "once"]
    /\ UNCHANGED <<clients, subKey, running, stop, interval, runningInterval, sigVars,
                   routine, queueVars, invVars, ctxVars, counts>>

QueueResponse(h) ==
    /\ handler[h].pc = "once" /\ Once(handler[h].sub)
    /\ handler' = [handler EXCEPT ![h] = Idle]
    /\ UNCHANGED <<clients, scVars, sigVars, routine, invVars, ctxVars, counts>>

-----------------------------------------------------------------------------
(* SubscriptionClient.Start, goroutine p. *)
SetRunning(p) ==
    LET s == routine[p].sub
    IN  /\ routine[p].pc = "spawned" /\ ~Locked(s)
        /\ running' = [running EXCEPT ![s] = TRUE]
        /\ runningInterval' = IF Periodic(s) THEN runningInterval
                              ELSE [runningInterval EXCEPT ![s] = interval[s]]
        /\ routine' = [routine EXCEPT ![p].pc = IF Periodic(s) THEN "first" ELSE "select"]
        /\ UNCHANGED <<clients, subKey, expired, stop, interval, sigVars, handler,
                       queueVars, invVars, ctxVars, counts>>

SendFirst(p) ==
    LET s == routine[p].sub
    IN  /\ routine[p].pc = "first" /\ Once(s)
        /\ runningInterval' = [runningInterval EXCEPT ![s] = interval[s]]
        /\ routine' = [routine EXCEPT ![p].pc = "select"]
        /\ UNCHANGED <<clients, subKey, running, expired, stop, interval, sigVars,
                       handler, invVars, ctxVars, counts>>

SelectDone(p) ==
    /\ routine[p].pc = "select" /\ Done(routine[p].ctx)
    /\ routine' = [routine EXCEPT ![p].pc = "exit"]
    /\ UNCHANGED <<clients, scVars, sigVars, handler, queueVars, invVars, ctxVars, counts>>

\* Mutant of SelectStop: break, which leaves the select only, for return.
SelectStopBreak(p) ==
    /\ routine[p].pc = "select" /\ stop[routine[p].sub] = 1
    /\ stop' = [stop EXCEPT ![routine[p].sub] = 0]
    /\ UNCHANGED <<clients, subKey, running, expired, interval, runningInterval, sigVars,
                   handler, routine, queueVars, invVars, ctxVars, counts>>

SelectStop(p) ==
    /\ routine[p].pc = "select" /\ stop[routine[p].sub] = 1
    /\ stop' = [stop EXCEPT ![routine[p].sub] = 0]
    /\ routine' = [routine EXCEPT ![p].pc = "exit"]
    /\ UNCHANGED <<clients, subKey, running, expired, interval, runningInterval, sigVars,
                   handler, queueVars, invVars, ctxVars, counts>>

SelectTick(p) ==
    /\ routine[p].pc = "select"
    /\ routine' = [routine EXCEPT ![p].pc = "tick"]
    /\ UNCHANGED <<clients, scVars, sigVars, handler, queueVars, invVars, ctxVars, counts>>

Tick(p) ==
    LET s == routine[p].sub
    IN  /\ routine[p].pc = "tick" /\ ~Locked(s)
        /\ routine' = [routine EXCEPT ![p].pc = IF expired[s] THEN "exit"
                                                ELSE IF Periodic(s) THEN "once" ELSE "select"]
        /\ runningInterval' = IF expired[s] THEN runningInterval
                              ELSE [runningInterval EXCEPT ![s] = interval[s]]
        /\ UNCHANGED <<clients, subKey, running, expired, stop, interval, sigVars,
                       handler, queueVars, invVars, ctxVars, counts>>

TickOnce(p) ==
    /\ routine[p].pc = "once" /\ Once(routine[p].sub)
    /\ routine' = [routine EXCEPT ![p].pc = "select"]
    /\ UNCHANGED <<clients, scVars, sigVars, handler, invVars, ctxVars, counts>>

\* Mutant of ClearRunning: no deferred sendSignalingCancel.
ClearRunningOnly(p) ==
    LET s == routine[p].sub
    IN  /\ routine[p].pc = "exit" /\ ~Locked(s)
        /\ running' = [running EXCEPT ![s] = FALSE]
        /\ routine' = [routine EXCEPT ![p].pc = "done"]
        /\ UNCHANGED <<clients, subKey, expired, stop, interval, runningInterval, sigVars,
                       handler, queueVars, invVars, ctxVars, counts>>

ClearRunning(p) ==
    LET s == routine[p].sub
    IN  /\ routine[p].pc = "exit" /\ ~Locked(s)
        /\ running' = [running EXCEPT ![s] = FALSE]
        /\ routine' = [routine EXCEPT ![p].pc =
                         IF TypeOf[subKey[s]] = "DelayReq" THEN "done" ELSE "cancel"]
        /\ UNCHANGED <<clients, subKey, expired, stop, interval, runningInterval, sigVars,
                       handler, queueVars, invVars, ctxVars, counts>>

UpdateSignalingCancel(p) ==
    /\ routine[p].pc = "cancel"
    /\ signaling' = [signaling EXCEPT ![routine[p].sub] = "cancel"]
    /\ routine' = [routine EXCEPT ![p].pc = "cancelSend"]
    /\ UNCHANGED <<clients, scVars, signalled, handler, queueVars, invVars, ctxVars, counts>>

SendCancel(p) ==
    /\ routine[p].pc = "cancelSend" /\ OnceSignaling(routine[p].sub)
    /\ routine' = [routine EXCEPT ![p].pc = "done"]
    /\ UNCHANGED <<clients, scVars, sigVars, handler, invVars, ctxVars, counts>>

-----------------------------------------------------------------------------
(* sendWorker.Start: one select loop over both queues. *)
WorkerReceive ==
    /\ worker = Free /\ queue # <<>>
    /\ worker' = [from |-> "queue", sub |-> Head(queue)]
    /\ queue' = Tail(queue)
    /\ UNCHANGED <<clients, scVars, sigVars, handler, routine, signalingQueue, invVars,
                   ctxVars, counts>>

WorkerReceiveSignaling ==
    /\ worker = Free /\ signalingQueue # <<>>
    /\ worker' = [from |-> "signaling", sub |-> Head(signalingQueue)]
    /\ signalingQueue' = Tail(signalingQueue)
    /\ UNCHANGED <<clients, scVars, sigVars, handler, routine, queue, invVars, ctxVars,
                   counts>>

\* A failed Sendto goes on like a successful one, so the two are one step.
WorkerSend ==
    /\ worker # Free
    /\ worker' = Free
    /\ signalled' = IF worker.from = "signaling"
                    THEN [signalled EXCEPT ![worker.sub] = signaling[worker.sub]]
                    ELSE signalled
    /\ UNCHANGED <<clients, scVars, signaling, handler, routine, queue, signalingQueue,
                   invVars, ctxVars, counts>>

-----------------------------------------------------------------------------
(* inventoryClients, called by the metrics loop and by Drain. *)
InventoryLock(i) ==
    /\ left[i] > 0 /\ mux = "free"
    /\ mux' = i /\ todo' = {k \in Keys : clients[k] # None}
    /\ UNCHANGED <<clients, scVars, sigVars, handler, routine, queueVars, left, ctxVars, counts>>

InventoryCheck(i, k) ==
    /\ mux = i /\ k \in todo /\ ~Locked(clients[k])
    /\ clients' = IF running[clients[k]] THEN clients ELSE [clients EXCEPT ![k] = None]
    /\ todo' = todo \ {k}
    /\ UNCHANGED <<scVars, sigVars, handler, routine, queueVars, mux, left, ctxVars, counts>>

InventoryUnlock(i) ==
    /\ mux = i /\ todo = {}
    /\ mux' = "free" /\ left' = [left EXCEPT ![i] = @ - 1]
    /\ UNCHANGED <<clients, scVars, sigVars, handler, routine, queueVars, todo, ctxVars, counts>>

MetricsTick ==
    /\ left["metrics"] = 0 /\ left' = [left EXCEPT !["metrics"] = 1]
    /\ UNCHANGED <<clients, scVars, sigVars, handler, routine, queueVars, mux, todo, ctxVars, counts>>

(* The drain check loop of Server.Start. *)
Drain ==
    /\ left["drain"] = 0 /\ drains < MaxDrains
    /\ cancelled' = TRUE /\ drains' = drains + 1
    /\ left' = [left EXCEPT !["drain"] = DrainRounds]
    /\ UNCHANGED <<clients, scVars, sigVars, handler, routine, queueVars, mux, todo, ctx, counts>>

Undrain ==
    /\ left["drain"] = 0 /\ cancelled
    /\ cancelled' = FALSE /\ ctx' = ctx + 1
    /\ UNCHANGED <<clients, scVars, sigVars, handler, routine, queueVars, invVars, drains, counts>>

\* Time passes the expire of a subscription.
Expire(s) ==
    /\ s <= subs /\ ~expired[s]
    /\ expired' = [expired EXCEPT ![s] = TRUE]
    /\ UNCHANGED <<clients, subKey, running, stop, interval, runningInterval, sigVars, handler,
                   routine, queueVars, invVars, ctxVars, counts>>

-----------------------------------------------------------------------------
GeneralStep(h) ==
    \/ CreateSubscription(h) \/ RenewSubscription(h) \/ AnswerRequest(h)
    \/ SendReject(h) \/ SendGrant(h) \/ StartIfNotRunning(h) \/ Stop(h) \/ StopUnblocked(h)

EventStep(h) == CreateSptpSubscription(h) \/ BumpSubscription(h) \/ QueueResponse(h)

RoutineStep(p) ==
    \/ SetRunning(p) \/ SendFirst(p) \/ SelectTick(p) \/ Tick(p) \/ TickOnce(p)
    \/ ClearRunning(p) \/ UpdateSignalingCancel(p) \/ SendCancel(p)

InventoryStep(i) ==
    InventoryLock(i) \/ (\E k \in Keys : InventoryCheck(i, k)) \/ InventoryUnlock(i)

Next ==
    \/ \E h \in General :
          \/ \E k \in Keys : (\E i \in Intervals : ReceiveRequest(h, k, i)) \/ ReceiveCancel(h, k)
          \/ GeneralStep(h)
    \/ \E h \in Event : (\E k \in Keys : ReceiveDelayReq(h, k)) \/ EventStep(h)
    \/ \E p \in Routines : RoutineStep(p) \/ SelectDone(p) \/ SelectStop(p)
    \/ WorkerReceive \/ WorkerReceiveSignaling \/ WorkerSend
    \/ \E i \in {"metrics", "drain"} : InventoryStep(i)
    \/ MetricsTick \/ Drain \/ Undrain
    \/ \E s \in Subs : Expire(s)

Spec == Init /\ [][Next]_vars

\* Goroutines are scheduled; select picks among ready cases at random, so a case
\* that stays or keeps becoming ready is taken, whatever the ticker does.
Fairness ==
    /\ \A h \in General : SF_vars(GeneralStep(h))
    /\ \A h \in Event : SF_vars(EventStep(h))
    /\ \A p \in Routines : /\ SF_vars(RoutineStep(p))
                           /\ SF_vars(SelectDone(p)) /\ SF_vars(SelectStop(p))
    /\ SF_vars(WorkerReceive) /\ SF_vars(WorkerReceiveSignaling) /\ WF_vars(WorkerSend)
    /\ \A i \in {"metrics", "drain"} : WF_vars(InventoryStep(i))

FairSpec == Spec /\ Fairness

-----------------------------------------------------------------------------
\* Start is between setRunning(true) and setRunning(false).
Streaming(p, s) ==
    routine[p].sub = s /\ routine[p].pc \in {"first", "select", "tick", "once", "exit"}

\* A signaling message of s is on its way out.
Queued(s) ==
    \/ \E n \in 1..Len(signalingQueue) : signalingQueue[n] = s
    \/ worker = [from |-> "signaling", sub |-> s]

\* Somebody will still stream for s, or a signaling message of s is under way.
Served(s) ==
    \/ \E p \in Routines : routine[p].sub = s /\ routine[p].pc # "done"
    \/ \E h \in General : /\ handler[h].sub = s
                            /\ handler[h].pc \in {"rejectSend", "grantSend", "start"}
    \/ Queued(s)

(* A subscription whose last signaling message was a grant is streaming or   *)
(* about to, or another message is on its way: however expiry, cancel, drain *)
(* and renewal race, Start's deferred sendSignalingCancel comes last, so no  *)
(* client keeps a grant that nothing serves.                                 *)
NoSilentEnd == \A s \in Subs : signalled[s] = "grant" => Served(s)

(* With one general receive goroutine, the check of Running before           *)
(* go sc.Start never lets two Start loops of one subscription run: neither   *)
(* twice the granted rate, nor a cancel that stops only one of the two.      *)
OneStream ==
    \A s \in Subs : Cardinality({p \in Routines :
        Streaming(p, s) \/ (routine[p].pc = "spawned" /\ routine[p].sub = s)}) <= 1

(* A running subscription with a stop request stops, even when a renewal     *)
(* has moved its expiry after Stop, and however busy its ticker is.          *)
StopTakesEffect == \A s \in Subs : (running[s] /\ stop[s] = 1) ~> ~running[s]

(* A Start goroutine of a context that Undrain has replaced comes to its     *)
(* end: the drain it missed is not forgotten.                                *)
DrainedStreamEnds ==
    \A p \in Routines :
        (routine[p].pc # "none" /\ routine[p].ctx < ctx) ~> (routine[p].pc = "done")

(* Stop returns, however often it is called (subscription_test.go: "No       *)
(* matter how many times we run stop we should not lock").                   *)
StopReturns == \A h \in General : (handler[h].pc = "stop") ~> (handler[h].pc = "read")

(* A running subscription keeps to the limits of the configuration, which    *)
(* rejects a request beyond them.                                            *)
LimitsRespected == \A s \in Subs : running[s] => runningInterval[s] = "ok"
=============================================================================
