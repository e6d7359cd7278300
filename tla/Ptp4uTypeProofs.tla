-------------------------- MODULE Ptp4uTypeProofs --------------------------
(* Type correctness of Ptp4u, for any number of clients, requests and        *)
(* goroutines.                                                               *)
EXTENDS Ptp4u, TLAPS

-----------------------------------------------------------------------------
(* The type invariant holds initially. *)
LEMMA InitTypeOK == Init => TypeOK
<1> SUFFICES ASSUME Init PROVE TypeOK
  OBVIOUS
<1> USE ConstantsAssumption DEF Init, None
<1>1. SubscriptionType /\ SignalingType
  BY DEF SubscriptionType, SignalingType, Intervals
<1>2. HandlerType
  BY DEF HandlerType, Idle, Intervals
<1>3. RoutineType
  BY DEF RoutineType, NotStarted
<1>4. QueueType
  BY DEF QueueType
<1>5. InventoryType
  BY DEF InventoryType
<1>6. cancelled \in BOOLEAN
  OBVIOUS
<1>7. CounterType
  BY <1>6 DEF CounterType
<1> QED
  BY <1>1, <1>2, <1>3, <1>4, <1>5, <1>7 DEF TypeOK

(* Queueing a subscription, or handing it to the worker, keeps the queues    *)
(* well-typed (Once and OnceSignaling of the code).                          *)
LEMMA OnceType == ASSUME QueueType, NEW s \in Subs, Once(s) PROVE QueueType'
<1>1. queue' \in Seq(Subs)
  BY DEF QueueType, Once
<1>2. worker' \in [from : {"queue", "signaling"}, sub : Subs] \cup {Free}
  BY DEF QueueType, Once
<1> QED
  BY <1>1, <1>2 DEF QueueType, Once

(* The same for the signaling queue.                                         *)
LEMMA OnceSignalingType == ASSUME QueueType, NEW s \in Subs, OnceSignaling(s) PROVE QueueType'
<1>1. signalingQueue' \in Seq(Subs)
  BY DEF QueueType, OnceSignaling
<1>2. worker' \in [from : {"queue", "signaling"}, sub : Subs] \cup {Free}
  BY DEF QueueType, OnceSignaling
<1> QED
  BY <1>1, <1>2 DEF QueueType, OnceSignaling

(* Every step preserves the type invariant. *)
LEMMA NextTypeOK == TypeOK /\ [Next]_vars => TypeOK'
<1> SUFFICES ASSUME TypeOK, [Next]_vars PROVE TypeOK'
  OBVIOUS
<1> USE ConstantsAssumption DEF TypeOK
<1>0. /\ UNCHANGED <<clients, scVars>> => SubscriptionType'
      /\ UNCHANGED sigVars => SignalingType'
      /\ UNCHANGED handler => HandlerType'
      /\ UNCHANGED routine => RoutineType'
      /\ UNCHANGED queueVars => QueueType'
      /\ UNCHANGED invVars => InventoryType'
      /\ UNCHANGED <<ctxVars, counts>> => CounterType'
  <2>1. UNCHANGED <<clients, scVars>> => SubscriptionType'
    BY DEF SubscriptionType, scVars
  <2>2. UNCHANGED sigVars => SignalingType'
    BY DEF SignalingType, sigVars
  <2>3. UNCHANGED handler => HandlerType'
    BY DEF HandlerType
  <2>4. UNCHANGED routine => RoutineType'
    BY DEF RoutineType
  <2>5. UNCHANGED queueVars => QueueType'
    BY DEF QueueType, queueVars
  <2>6. UNCHANGED invVars => InventoryType'
    BY DEF InventoryType, invVars
  <2>7. UNCHANGED <<ctxVars, counts>> => CounterType'
    BY DEF CounterType, ctxVars, counts
  <2> QED
    BY <2>1, <2>2, <2>3, <2>4, <2>5, <2>6, <2>7
<1>1. ASSUME NEW h \in General, NEW k \in Keys, NEW i \in Intervals, ReceiveRequest(h, k, i) PROVE TypeOK'
  <2>1. HandlerType'
    BY <1>1 DEF ReceiveRequest, HandlerType, SubscriptionType, Handlers
  <2>2. CounterType'
    BY <1>1 DEF ReceiveRequest, CounterType, ctxVars, counts
  <2> QED
    BY <1>0, <1>1, <2>1, <2>2 DEF ReceiveRequest
<1>2. ASSUME NEW h \in General, NEW k \in Keys, ReceiveCancel(h, k) PROVE TypeOK'
  <2>1. HandlerType'
    <3>1. CASE clients[k] = None
      BY <1>2, <3>1 DEF ReceiveCancel, HandlerType
    <3>2. CASE clients[k] # None
      <4>1. clients[k] \in Subs /\ h \in Handlers
        BY <3>2 DEF SubscriptionType, Handlers
      <4> QED
        BY ZenonT(30), <1>2, <3>2, <4>1 DEF ReceiveCancel, HandlerType
    <3> QED
      BY <3>1, <3>2
  <2>2. CounterType'
    BY <1>2 DEF ReceiveCancel, CounterType, ctxVars, counts
  <2> QED
    BY <1>0, <1>2, <2>1, <2>2 DEF ReceiveCancel
<1>3. ASSUME NEW h \in General, CreateSubscription(h) PROVE TypeOK'
  <2>1. SubscriptionType'
    BY <1>3 DEF CreateSubscription, SubscriptionType, HandlerType, Register, Handlers,
       scVars
  <2>2. HandlerType'
    BY ZenonT(30), <1>3 DEF CreateSubscription, HandlerType, Register, Handlers
  <2>3. CounterType'
    BY <1>3 DEF CreateSubscription, CounterType, Register, Subs, ctxVars, counts
  <2> QED
    BY <1>0, <1>3, <2>1, <2>2, <2>3 DEF CreateSubscription
<1>4. ASSUME NEW h \in General, RenewSubscription(h) PROVE TypeOK'
  <2>1. SubscriptionType'
    BY <1>4 DEF RenewSubscription, SubscriptionType, HandlerType, Handlers, scVars
  <2>2. HandlerType'
    BY <1>4 DEF RenewSubscription, HandlerType, None, Handlers
  <2> QED
    BY <1>0, <1>4, <2>1, <2>2 DEF RenewSubscription
<1>5. ASSUME NEW h \in General, AnswerRequest(h) PROVE TypeOK'
  <2>1. SignalingType'
    BY <1>5 DEF AnswerRequest, SignalingType, HandlerType, Handlers, sigVars
  <2>2. HandlerType'
    BY <1>5 DEF AnswerRequest, HandlerType, Handlers
  <2> QED
    BY <1>0, <1>5, <2>1, <2>2 DEF AnswerRequest
<1>6. ASSUME NEW h \in General, SendReject(h) PROVE TypeOK'
  <2>1. HandlerType'
    BY <1>6 DEF SendReject, HandlerType, Idle, None, Intervals, Handlers
  <2>2. QueueType'
    BY <1>6, OnceSignalingType DEF SendReject, HandlerType, Handlers
  <2> QED
    BY <1>0, <1>6, <2>1, <2>2 DEF SendReject
<1>7. ASSUME NEW h \in General, SendGrant(h) PROVE TypeOK'
  <2>1. HandlerType'
    BY <1>7 DEF SendGrant, HandlerType, Handlers
  <2>2. QueueType'
    BY <1>7, OnceSignalingType DEF SendGrant, HandlerType, Handlers
  <2> QED
    BY <1>0, <1>7, <2>1, <2>2 DEF SendGrant
<1>8. ASSUME NEW h \in General, StartIfNotRunning(h) PROVE TypeOK'
  <2>1. HandlerType'
    BY <1>8 DEF StartIfNotRunning, HandlerType, Idle, None, Intervals, Handlers
  <2>2. RoutineType'
    BY <1>8 DEF StartIfNotRunning, RoutineType, HandlerType, CounterType, Spawn,
       Handlers
  <2>3. CounterType'
    BY <1>8 DEF StartIfNotRunning, CounterType, Spawn, ctxVars, counts
  <2> QED
    BY <1>0, <1>8, <2>1, <2>2, <2>3 DEF StartIfNotRunning
<1>9. ASSUME NEW h \in General, Stop(h) PROVE TypeOK'
  <2>1. SubscriptionType'
    BY <1>9 DEF Stop, SubscriptionType, HandlerType, Handlers, scVars
  <2>2. HandlerType'
    BY <1>9 DEF Stop, HandlerType, Idle, None, Intervals, Handlers
  <2> QED
    BY <1>0, <1>9, <2>1, <2>2 DEF Stop
<1>10. ASSUME NEW h \in General, StopUnblocked(h) PROVE TypeOK'
  <2>1. SubscriptionType'
    BY <1>10 DEF StopUnblocked, SubscriptionType, HandlerType, Handlers, scVars
  <2>2. HandlerType'
    BY <1>10 DEF StopUnblocked, HandlerType, Idle, None, Intervals, Handlers
  <2> QED
    BY <1>0, <1>10, <2>1, <2>2 DEF StopUnblocked
<1>11. ASSUME NEW h \in Event, NEW k \in Keys, ReceiveDelayReq(h, k) PROVE TypeOK'
  <2>1. HandlerType'
    BY <1>11 DEF ReceiveDelayReq, HandlerType, SubscriptionType, None, Intervals,
       Handlers
  <2>2. CounterType'
    BY <1>11 DEF ReceiveDelayReq, CounterType, ctxVars, counts
  <2> QED
    BY <1>0, <1>11, <2>1, <2>2 DEF ReceiveDelayReq
<1>12. ASSUME NEW h \in Event, CreateSptpSubscription(h) PROVE TypeOK'
  <2>1. SubscriptionType'
    BY <1>12 DEF CreateSptpSubscription, SubscriptionType, HandlerType, Register,
       Intervals, Handlers, scVars
  <2>2. HandlerType'
    <3>1. subs + 1 \in Subs /\ h \in Handlers
      BY <1>12 DEF CreateSptpSubscription, Register, Handlers
    <3>2. /\ handler[h].pc = "bump"
          /\ handler' = [handler EXCEPT ![h].pc = "once", ![h].sub = subs + 1]
      BY <1>12 DEF CreateSptpSubscription
    <3> QED
      BY ZenonT(30), <3>1, <3>2 DEF HandlerType
  <2>3. RoutineType'
    BY ZenonT(30), <1>12 DEF CreateSptpSubscription, RoutineType, CounterType, Spawn, Register
  <2>4. CounterType'
    BY <1>12 DEF CreateSptpSubscription, CounterType, Register, Spawn, Subs, ctxVars,
       counts
  <2> QED
    BY <1>0, <1>12, <2>1, <2>2, <2>3, <2>4 DEF CreateSptpSubscription
<1>13. ASSUME NEW h \in Event, BumpSubscription(h) PROVE TypeOK'
  <2>1. SubscriptionType'
    BY <1>13 DEF BumpSubscription, SubscriptionType, HandlerType, Handlers, scVars
  <2>2. HandlerType'
    BY <1>13 DEF BumpSubscription, HandlerType, None, Handlers
  <2> QED
    BY <1>0, <1>13, <2>1, <2>2 DEF BumpSubscription
<1>14. ASSUME NEW h \in Event, QueueResponse(h) PROVE TypeOK'
  <2>1. HandlerType'
    BY <1>14 DEF QueueResponse, HandlerType, Idle, None, Intervals, Handlers
  <2>2. QueueType'
    BY <1>14, OnceType DEF QueueResponse, HandlerType, Handlers
  <2> QED
    BY <1>0, <1>14, <2>1, <2>2 DEF QueueResponse
<1>15. ASSUME NEW p \in Routines, SetRunning(p) PROVE TypeOK'
  <2>1. SubscriptionType'
    BY <1>15 DEF SetRunning, SubscriptionType, RoutineType, scVars
  <2>2. RoutineType'
    BY <1>15 DEF SetRunning, RoutineType
  <2> QED
    BY <1>0, <1>15, <2>1, <2>2 DEF SetRunning
<1>16. ASSUME NEW p \in Routines, SendFirst(p) PROVE TypeOK'
  <2>1. SubscriptionType'
    BY <1>16 DEF SendFirst, SubscriptionType, RoutineType, scVars
  <2>2. RoutineType'
    BY <1>16 DEF SendFirst, RoutineType
  <2>3. QueueType'
    BY <1>16, OnceType DEF SendFirst, RoutineType
  <2> QED
    BY <1>0, <1>16, <2>1, <2>2, <2>3 DEF SendFirst
<1>17. ASSUME NEW p \in Routines, SelectDone(p) PROVE TypeOK'
  <2>1. RoutineType'
    BY <1>17 DEF SelectDone, RoutineType
  <2> QED
    BY <1>0, <1>17, <2>1 DEF SelectDone
<1>18. ASSUME NEW p \in Routines, SelectStop(p) PROVE TypeOK'
  <2>1. SubscriptionType'
    BY <1>18 DEF SelectStop, SubscriptionType, RoutineType, scVars
  <2>2. RoutineType'
    BY <1>18 DEF SelectStop, RoutineType
  <2> QED
    BY <1>0, <1>18, <2>1, <2>2 DEF SelectStop
<1>19. ASSUME NEW p \in Routines, SelectTick(p) PROVE TypeOK'
  <2>1. RoutineType'
    BY <1>19 DEF SelectTick, RoutineType
  <2> QED
    BY <1>0, <1>19, <2>1 DEF SelectTick
<1>20. ASSUME NEW p \in Routines, Tick(p) PROVE TypeOK'
  <2>1. SubscriptionType'
    BY <1>20 DEF Tick, SubscriptionType, RoutineType, scVars
  <2>2. RoutineType'
    BY <1>20 DEF Tick, RoutineType
  <2> QED
    BY <1>0, <1>20, <2>1, <2>2 DEF Tick
<1>21. ASSUME NEW p \in Routines, TickOnce(p) PROVE TypeOK'
  <2>1. RoutineType'
    BY <1>21 DEF TickOnce, RoutineType
  <2>2. QueueType'
    BY <1>21, OnceType DEF TickOnce, RoutineType
  <2> QED
    BY <1>0, <1>21, <2>1, <2>2 DEF TickOnce
<1>22. ASSUME NEW p \in Routines, ClearRunning(p) PROVE TypeOK'
  <2>1. SubscriptionType'
    BY <1>22 DEF ClearRunning, SubscriptionType, RoutineType, scVars
  <2>2. RoutineType'
    BY <1>22 DEF ClearRunning, RoutineType
  <2> QED
    BY <1>0, <1>22, <2>1, <2>2 DEF ClearRunning
<1>23. ASSUME NEW p \in Routines, UpdateSignalingCancel(p) PROVE TypeOK'
  <2>1. SignalingType'
    BY <1>23 DEF UpdateSignalingCancel, SignalingType, RoutineType, sigVars
  <2>2. RoutineType'
    BY <1>23 DEF UpdateSignalingCancel, RoutineType
  <2> QED
    BY <1>0, <1>23, <2>1, <2>2 DEF UpdateSignalingCancel
<1>24. ASSUME NEW p \in Routines, SendCancel(p) PROVE TypeOK'
  <2>1. RoutineType'
    BY <1>24 DEF SendCancel, RoutineType
  <2>2. QueueType'
    BY <1>24, OnceSignalingType DEF SendCancel, RoutineType
  <2> QED
    BY <1>0, <1>24, <2>1, <2>2 DEF SendCancel
<1>25. CASE WorkerReceive
  <2>1. QueueType'
    <3>1. queue \in Seq(Subs)
      BY DEF QueueType
    <3>2. queue' \in Seq(Subs) /\ Head(queue) \in Subs
      BY <1>25, <3>1 DEF WorkerReceive
    <3> QED
      BY <1>25, <3>2 DEF WorkerReceive, QueueType
  <2> QED
    BY <1>0, <1>25, <2>1 DEF WorkerReceive
<1>26. CASE WorkerReceiveSignaling
  <2>1. QueueType'
    <3>1. signalingQueue \in Seq(Subs)
      BY DEF QueueType
    <3>2. signalingQueue' \in Seq(Subs) /\ Head(signalingQueue) \in Subs
      BY <1>26, <3>1 DEF WorkerReceiveSignaling
    <3> QED
      BY <1>26, <3>2 DEF WorkerReceiveSignaling, QueueType
  <2> QED
    BY <1>0, <1>26, <2>1 DEF WorkerReceiveSignaling
<1>27. CASE WorkerSend
  <2>1. SignalingType'
    BY <1>27 DEF WorkerSend, SignalingType, QueueType, Free, sigVars
  <2>2. QueueType'
    BY <1>27 DEF WorkerSend, QueueType, queueVars
  <2> QED
    BY <1>0, <1>27, <2>1, <2>2 DEF WorkerSend
<1>28. ASSUME NEW i \in {"metrics", "drain"}, InventoryLock(i) PROVE TypeOK'
  <2>1. InventoryType'
    BY <1>28 DEF InventoryLock, InventoryType, invVars
  <2> QED
    BY <1>0, <1>28, <2>1 DEF InventoryLock
<1>29. ASSUME NEW i \in {"metrics", "drain"}, NEW k \in Keys, InventoryCheck(i, k) PROVE TypeOK'
  <2>1. SubscriptionType'
    BY <1>29 DEF InventoryCheck, SubscriptionType, None, scVars
  <2>2. InventoryType'
    BY <1>29 DEF InventoryCheck, InventoryType, invVars
  <2> QED
    BY <1>0, <1>29, <2>1, <2>2 DEF InventoryCheck
<1>30. ASSUME NEW i \in {"metrics", "drain"}, InventoryUnlock(i) PROVE TypeOK'
  <2>1. InventoryType'
    BY <1>30 DEF InventoryUnlock, InventoryType, invVars
  <2> QED
    BY <1>0, <1>30, <2>1 DEF InventoryUnlock
<1>31. CASE MetricsTick
  <2>1. InventoryType'
    BY <1>31 DEF MetricsTick, InventoryType, invVars
  <2> QED
    BY <1>0, <1>31, <2>1 DEF MetricsTick
<1>32. CASE Drain
  <2>1. InventoryType'
    BY <1>32 DEF Drain, InventoryType, invVars
  <2>2. CounterType'
    BY <1>32 DEF Drain, CounterType, ctxVars, counts
  <2> QED
    BY <1>0, <1>32, <2>1, <2>2 DEF Drain
<1>33. CASE Undrain
  <2>1. CounterType'
    <3>1. cancelled' \in BOOLEAN
      BY ZenonT(30), <1>33 DEF Undrain
    <3> QED
      BY <1>33, <3>1 DEF Undrain, CounterType, counts
  <2> QED
    BY <1>0, <1>33, <2>1 DEF Undrain
<1>34. ASSUME NEW s \in Subs, Expire(s) PROVE TypeOK'
  <2>1. SubscriptionType'
    BY <1>34 DEF Expire, SubscriptionType, scVars
  <2> QED
    BY <1>0, <1>34, <2>1 DEF Expire
<1>35. CASE UNCHANGED vars
  BY <1>0, <1>35 DEF vars
<1> QED
  BY <1>1, <1>2, <1>3, <1>4, <1>5, <1>6, <1>7, <1>8, <1>9, <1>10, <1>11, <1>12, <1>13,
     <1>14, <1>15, <1>16, <1>17, <1>18, <1>19, <1>20, <1>21, <1>22, <1>23, <1>24,
     <1>25, <1>26, <1>27, <1>28, <1>29, <1>30, <1>31, <1>32, <1>33, <1>34, <1>35 DEF
     Next, GeneralStep, EventStep, RoutineStep, InventoryStep

(* TypeOK for every behaviour of the server: in particular no queue ever     *)
(* holds a nil subscription, and no goroutine acts on one.                   *)
THEOREM TypeCorrect == Spec => []TypeOK
BY InitTypeOK, NextTypeOK, PTL DEF Spec
=============================================================================
