---------------------------- MODULE Ptp4uProofs ----------------------------
(* Proofs about Ptp4u, for any number of clients, requests and goroutines:   *)
(* a grant is always served. Type correctness is in Ptp4uTypeProofs.         *)
EXTENDS Ptp4uTypeProofs

-----------------------------------------------------------------------------
(* The inductive invariant of NoSilentEnd.                                  *)

\* Objects are allocated in order, and nothing refers to one not allocated.
Allocated ==
    /\ \A k \in Keys : clients[k] <= subs
    /\ \A h \in Handlers : handler[h].sub <= subs
    /\ \A p \in Routines : routine[p].sub <= subs
    /\ \A p \in Routines : routine[p].pc # "none" => p <= routines
    /\ \A s \in Subs : signaling[s] # "empty" => s <= subs

\* A goroutine that answers a grant request holds a subscription of its key.
Answering == {"limits", "rejectSend", "grantSend", "start"}
Keyed ==
    /\ \A k \in Keys : clients[k] # None => subKey[clients[k]] = k
    /\ \A h \in General : handler[h].pc \in Answering \cup {"found"} =>
          /\ TypeOf[handler[h].key] # "DelayReq"
          /\ handler[h].sub # None => subKey[handler[h].sub] = handler[h].key

\* The running flag was last set by a Start loop that has not left.
RunningServed == \A s \in Subs : running[s] => \E p \in Routines : Streaming(p, s)

\* The goroutine p will still call UpdateSignalingCancel for s.
WillCancel(p, s) ==
    routine[p].sub = s /\ routine[p].pc \in {"spawned", "first", "select", "tick", "once",
                                              "exit", "cancel"}

\* The receive goroutine h has granted s and not yet looked whether it runs.
WillStart(h, s) == handler[h].sub = s /\ handler[h].pc \in {"grantSend", "start"}

GrantServed ==
    \A s \in Subs : signaling[s] = "grant" =>
        /\ TypeOf[subKey[s]] # "DelayReq"
        /\ \/ \E p \in Routines : WillCancel(p, s)
           \/ \E h \in General : WillStart(h, s)

\* The message of s is queued, or its sender is about to queue it.
Pending(s) ==
    \/ \E p \in Routines : routine[p].sub = s /\ routine[p].pc = "cancelSend"
    \/ \E h \in General : handler[h].sub = s /\ handler[h].pc \in {"rejectSend", "grantSend"}
    \/ Queued(s)

SignalledCurrent == \A s \in Subs : signalled[s] = signaling[s] \/ Pending(s)

Inv == TypeOK /\ Allocated /\ Keyed /\ RunningServed /\ GrantServed /\ SignalledCurrent

-----------------------------------------------------------------------------
(* Queueing s on the signaling queue queues s and loses nothing queued.      *)
LEMMA OnceSignalingQueues ==
    ASSUME QueueType, NEW s \in Subs, OnceSignaling(s)
    PROVE  Queued(s)' /\ \A t \in Subs : Queued(t) => Queued(t)'
<1>1. CASE signalingQueue' = Append(signalingQueue, s) /\ UNCHANGED worker
  <2>1. signalingQueue \in Seq(Subs)
    BY DEF QueueType
  <2>2. /\ Len(signalingQueue') = Len(signalingQueue) + 1
        /\ signalingQueue'[Len(signalingQueue) + 1] = s
        /\ \A n \in 1..Len(signalingQueue) : signalingQueue'[n] = signalingQueue[n]
        /\ Len(signalingQueue) \in Nat
    BY <1>1, <2>1
  <2> QED
    BY <1>1, <2>2 DEF Queued
<1>2. CASE /\ signalingQueue = <<>> /\ worker = Free
           /\ worker' = [from |-> "signaling", sub |-> s]
  BY <1>2 DEF Queued, Free, None
<1> QED
  BY <1>1, <1>2 DEF OnceSignaling

(* Queueing on the data queue, or taking from it, leaves what is queued on   *)
(* the signaling queue.                                                      *)
LEMMA OnceKeepsQueued ==
    ASSUME QueueType, NEW s \in Subs, Once(s)
    PROVE  \A t \in Subs : Queued(t) => Queued(t)'
<1>1. UNCHANGED signalingQueue /\ (UNCHANGED worker \/ worker = Free)
  BY DEF Once
<1> QED
  BY <1>1 DEF Queued, Free, None

(* The worker that takes the head of the signaling queue holds it.           *)
LEMMA ReceiveKeepsQueued ==
    ASSUME QueueType, WorkerReceiveSignaling
    PROVE  \A t \in Subs : Queued(t) => Queued(t)'
<1> SUFFICES ASSUME NEW t \in Subs, Queued(t) PROVE Queued(t)'
  OBVIOUS
<1>1. signalingQueue \in Seq(Subs) /\ worker = Free /\ signalingQueue # <<>>
  BY DEF QueueType, WorkerReceiveSignaling
<1>2. PICK n \in 1..Len(signalingQueue) : signalingQueue[n] = t
  BY <1>1 DEF Queued, Free, None
<1>3. CASE n = 1
  BY <1>1, <1>2, <1>3 DEF WorkerReceiveSignaling, Queued
<1>4. CASE n # 1
  <2>1. n - 1 \in 1..Len(signalingQueue') /\ signalingQueue'[n - 1] = t
    BY <1>1, <1>2, <1>4 DEF WorkerReceiveSignaling
  <2> QED
    BY <2>1 DEF Queued
<1> QED
  BY <1>3, <1>4

(* go sc.Start uses a goroutine that was not there and leaves the others.    *)
LEMMA SpawnFresh ==
    ASSUME TypeOK, Allocated, NEW s \in Subs, Spawn(s)
    PROVE  /\ routines + 1 \in Routines
           /\ routine[routines + 1].pc = "none"
           /\ routine'[routines + 1] = [pc |-> "spawned", sub |-> s, ctx |-> ctx]
           /\ \A p \in Routines \ {routines + 1} : routine'[p] = routine[p]
<1>1. routines + 1 \in Routines
  BY ConstantsAssumption DEF TypeOK, CounterType, Spawn, Routines
<1> QED
  BY <1>1, ConstantsAssumption DEF TypeOK, CounterType, RoutineType, Allocated, Spawn, Routines

(* The inductive invariant holds initially: nothing is granted. *)
LEMMA InitInv == Init => Inv
<1> SUFFICES ASSUME Init PROVE Inv
  OBVIOUS
<1> USE DEF Init, Idle, NotStarted, None
<1>1. Allocated
  BY ConstantsAssumption DEF Allocated, Handlers, Subs
<1>2. Keyed
  BY DEF Keyed, Answering, Handlers
<1>3. RunningServed /\ GrantServed
  BY DEF RunningServed, GrantServed
<1>4. SignalledCurrent
  BY DEF SignalledCurrent
<1> QED
  BY <1>1, <1>2, <1>3, <1>4, InitTypeOK DEF Inv

(* Every step preserves it. *)
LEMMA NextInv == Inv /\ [Next]_vars => Inv'
<1> SUFFICES ASSUME Inv, [Next]_vars PROVE Inv'
  OBVIOUS
<1> TypeOK /\ Allocated /\ Keyed /\ RunningServed /\ GrantServed /\ SignalledCurrent
  BY DEF Inv
<1>0. TypeOK'
  BY NextTypeOK
<1> USE ConstantsAssumption
<1>37. ASSUME UNCHANGED <<clients, subKey, running, signaling, handler, routine, counts>>
       PROVE  Allocated' /\ Keyed' /\ RunningServed' /\ GrantServed'
  <2>1. Allocated' /\ RunningServed'
    BY <1>37 DEF Allocated, RunningServed, Streaming, counts
  <2>2. Keyed' /\ GrantServed'
    BY SMTT(30), <1>37 DEF Keyed, Answering, GrantServed, WillCancel, WillStart
  <2> QED
    BY <2>1, <2>2
<1>1. ASSUME NEW h \in General, NEW k \in Keys, NEW i \in Intervals, ReceiveRequest(h, k, i) PROVE Inv'
  <2>1. Allocated'
    BY <1>1 DEF ReceiveRequest, Allocated, TypeOK, HandlerType, Handlers, sigVars,
       counts
  <2>2. Keyed'
    BY <1>1 DEF ReceiveRequest, Keyed, Answering, TypeOK, HandlerType, Handlers, scVars
  <2>3. GrantServed'
    BY SMTT(30), <1>1 DEF ReceiveRequest, GrantServed, WillCancel, WillStart, TypeOK, HandlerType,
       Handlers, scVars, sigVars
  <2>4. SignalledCurrent'
    BY <1>1 DEF ReceiveRequest, SignalledCurrent, Pending, Queued, TypeOK, HandlerType,
       Handlers, sigVars, queueVars
  <2> QED
    BY <1>0, <1>1, <2>1, <2>2, <2>3, <2>4 DEF Inv, ReceiveRequest, RunningServed, Streaming,
       scVars
<1>2. ASSUME NEW h \in General, NEW k \in Keys, ReceiveCancel(h, k) PROVE Inv'
  <2>1. Allocated'
    BY <1>2 DEF ReceiveCancel, Allocated, TypeOK, HandlerType, Handlers, sigVars, counts
  <2>2. Keyed'
    BY <1>2 DEF ReceiveCancel, Keyed, Answering, TypeOK, HandlerType, Handlers, scVars
  <2>3. GrantServed'
    BY <1>2 DEF ReceiveCancel, GrantServed, WillCancel, WillStart, TypeOK, HandlerType,
       Handlers, scVars, sigVars
  <2>4. SignalledCurrent'
    BY <1>2 DEF ReceiveCancel, SignalledCurrent, Pending, Queued, TypeOK, HandlerType,
       Handlers, sigVars, queueVars
  <2> QED
    BY <1>0, <1>2, <2>1, <2>2, <2>3, <2>4 DEF Inv, ReceiveCancel, RunningServed, Streaming,
       scVars
<1>3. ASSUME NEW h \in General, CreateSubscription(h) PROVE Inv'
  <2>1. Allocated'
    BY <1>3 DEF CreateSubscription, Allocated, Register, TypeOK, HandlerType, Handlers,
       SubscriptionType, CounterType, sigVars, counts
  <2>2. Keyed'
    BY <1>3 DEF CreateSubscription, Keyed, Answering, Register, TypeOK, HandlerType,
       Handlers, SubscriptionType
  <2>3. GrantServed'
    <3>1. /\ UNCHANGED <<routine, sigVars>> /\ handler[h].pc = "found"
          /\ \A g \in General : g # h => handler'[g] = handler[g]
      BY <1>3 DEF CreateSubscription, TypeOK, HandlerType, Handlers
    <3>2. \A s \in Subs : s <= subs => subKey'[s] = subKey[s]
      BY <1>3 DEF CreateSubscription, Register, TypeOK, SubscriptionType, CounterType, Subs
    <3> QED
      BY <3>1, <3>2 DEF GrantServed, Allocated, WillCancel, WillStart, sigVars
  <2>4. SignalledCurrent'
    BY <1>3 DEF CreateSubscription, SignalledCurrent, Pending, Queued, Register, TypeOK,
       HandlerType, Handlers, sigVars, queueVars
  <2> QED
    BY <1>0, <1>3, <2>1, <2>2, <2>3, <2>4 DEF Inv, CreateSubscription, RunningServed,
       Streaming, Register, scVars
<1>4. ASSUME NEW h \in General, RenewSubscription(h) PROVE Inv'
  <2>1. Allocated'
    BY <1>4 DEF RenewSubscription, Allocated, TypeOK, HandlerType, Handlers, sigVars,
       counts
  <2>2. Keyed'
    BY <1>4 DEF RenewSubscription, Keyed, Answering, TypeOK, HandlerType, Handlers,
       scVars
  <2>3. GrantServed'
    BY <1>4 DEF RenewSubscription, GrantServed, WillCancel, WillStart, TypeOK,
       HandlerType, Handlers, scVars, sigVars
  <2>4. SignalledCurrent'
    BY <1>4 DEF RenewSubscription, SignalledCurrent, Pending, Queued, TypeOK,
       HandlerType, Handlers, sigVars, queueVars
  <2> QED
    BY <1>0, <1>4, <2>1, <2>2, <2>3, <2>4 DEF Inv, RenewSubscription, RunningServed,
       Streaming, scVars
<1>5. ASSUME NEW h \in General, AnswerRequest(h) PROVE Inv'
  <2>1. Allocated'
    BY <1>5 DEF AnswerRequest, Allocated, TypeOK, HandlerType, Handlers, SignalingType,
       counts
  <2>2. Keyed'
    BY <1>5 DEF AnswerRequest, Keyed, Answering, TypeOK, HandlerType, Handlers, scVars
  <2>3. GrantServed'
    <3> SUFFICES ASSUME NEW s \in Subs, signaling'[s] = "grant"
                 PROVE  /\ TypeOf[subKey[s]] # "DelayReq"
                        /\ \/ \E q \in Routines : WillCancel(q, s)
                           \/ \E g \in General : WillStart(g, s)'
      BY <1>5 DEF AnswerRequest, GrantServed, WillCancel, scVars
    <3>1. CASE s = handler[h].sub
      <4>1. handler'[h].sub = s /\ handler'[h].pc = "grantSend"
        BY <1>5, <3>1 DEF AnswerRequest, TypeOK, HandlerType, SignalingType, Handlers
      <4>2. TypeOf[subKey[s]] # "DelayReq"
        BY <1>5, <3>1 DEF AnswerRequest, Keyed, Answering, Subs, None
      <4> QED
        BY <4>1, <4>2 DEF WillStart
    <3>2. CASE s # handler[h].sub
      <4>1. signaling[s] = "grant" /\ \A g \in General : g # h => handler'[g] = handler[g]
        BY <1>5, <3>2 DEF AnswerRequest, TypeOK, HandlerType, SignalingType, Handlers
      <4> QED
        BY <1>5, <3>2, <4>1 DEF AnswerRequest, GrantServed, WillStart
    <3> QED
      BY <3>1, <3>2
  <2>4. SignalledCurrent'
    BY <1>5 DEF AnswerRequest, SignalledCurrent, Pending, Queued, TypeOK, HandlerType,
       Handlers, SignalingType, sigVars, queueVars
  <2> QED
    BY <1>0, <1>5, <2>1, <2>2, <2>3, <2>4 DEF Inv, AnswerRequest, RunningServed, Streaming,
       scVars
<1>6. ASSUME NEW h \in General, SendReject(h) PROVE Inv'
  <2>1. Allocated'
    BY SMTT(30), <1>6 DEF SendReject, Idle, Allocated, None, TypeOK, CounterType, HandlerType, Handlers, sigVars, counts
  <2>2. Keyed'
    BY SMTT(30), <1>6 DEF SendReject, Keyed, Answering, OnceSignaling, Idle, TypeOK, HandlerType,
       Handlers, scVars
  <2>3. GrantServed'
    BY <1>6 DEF SendReject, GrantServed, WillCancel, WillStart, OnceSignaling, Idle,
       TypeOK, HandlerType, Handlers, scVars, sigVars
  <2>4. SignalledCurrent'
    <3>0. PICK s \in Subs : s = handler[h].sub
      BY <1>6 DEF SendReject, TypeOK, HandlerType, Handlers
    <3>1. Queued(s)' /\ \A t \in Subs : Queued(t) => Queued(t)'
      BY <1>6, <3>0, OnceSignalingQueues DEF SendReject, TypeOK
    <3>2. UNCHANGED <<routine, sigVars>>
      BY <1>6 DEF SendReject
    <3>3. \A g \in General : g # h => handler'[g] = handler[g]
      BY <1>6 DEF SendReject, TypeOK, HandlerType, Handlers
    <3> QED
      BY <3>0, <3>1, <3>2, <3>3 DEF SignalledCurrent, Pending, sigVars
  <2> QED
    BY SMTT(30), <1>0, <1>6, <2>1, <2>2, <2>3, <2>4 DEF Inv, SendReject, RunningServed, Streaming,
       OnceSignaling, Idle, scVars
<1>7. ASSUME NEW h \in General, SendGrant(h) PROVE Inv'
  <2>1. Allocated'
    BY <1>7 DEF SendGrant, Allocated, OnceSignaling, TypeOK, HandlerType, Handlers,
       sigVars, counts
  <2>2. Keyed'
    BY <1>7 DEF SendGrant, Keyed, Answering, OnceSignaling, TypeOK, HandlerType,
       Handlers, scVars
  <2>3. GrantServed'
    BY <1>7 DEF SendGrant, GrantServed, WillCancel, WillStart, OnceSignaling, TypeOK,
       HandlerType, Handlers, scVars, sigVars
  <2>4. SignalledCurrent'
    <3>0. PICK s \in Subs : s = handler[h].sub
      BY <1>7 DEF SendGrant, TypeOK, HandlerType, Handlers
    <3>1. Queued(s)' /\ \A t \in Subs : Queued(t) => Queued(t)'
      BY <1>7, <3>0, OnceSignalingQueues DEF SendGrant, TypeOK
    <3>2. UNCHANGED <<routine, sigVars>>
      BY <1>7 DEF SendGrant
    <3>3. \A g \in General : g # h => handler'[g] = handler[g]
      BY <1>7 DEF SendGrant, TypeOK, HandlerType, Handlers
    <3> QED
      BY <3>0, <3>1, <3>2, <3>3 DEF SignalledCurrent, Pending, sigVars
  <2> QED
    BY <1>0, <1>7, <2>1, <2>2, <2>3, <2>4 DEF Inv, SendGrant, RunningServed, Streaming,
       OnceSignaling, scVars
<1>8. ASSUME NEW h \in General, StartIfNotRunning(h) PROVE Inv'
  <2>1. PICK s \in Subs : s = handler[h].sub /\ s <= subs
    BY <1>8 DEF StartIfNotRunning, TypeOK, HandlerType, Handlers, Allocated
  <2>2. /\ UNCHANGED <<clients, scVars, sigVars, queueVars, subs>> /\ handler[h].pc = "start"
        /\ handler'[h] = Idle /\ \A g \in Handlers : g # h => handler'[g] = handler[g]
    BY <1>8 DEF StartIfNotRunning, TypeOK, HandlerType, Handlers
  <2>3. Keyed'
    BY <2>2 DEF Keyed, Answering, Idle, Handlers, scVars
  <2>4. CASE ~running[s]
    <3>1. /\ routines + 1 \in Routines /\ routines' = routines + 1
          /\ routine[routines + 1].pc = "none"
          /\ routine'[routines + 1] = [pc |-> "spawned", sub |-> s, ctx |-> ctx]
          /\ \A p \in Routines \ {routines + 1} : routine'[p] = routine[p]
      BY SMTT(30), <1>8, <2>1, <2>4, SpawnFresh DEF StartIfNotRunning, Spawn
    <3>2. Allocated'
      BY SMTT(30), <2>1, <2>2, <3>1 DEF Allocated, Idle, None, TypeOK, CounterType, Routines, sigVars
    <3>3. RunningServed'
      BY SMTT(30), <2>2, <3>1 DEF RunningServed, Streaming, scVars
    <3>4. GrantServed'
      BY SMTT(30), <2>1, <2>2, <3>1 DEF GrantServed, WillCancel, WillStart, Handlers, sigVars, scVars
    <3>5. SignalledCurrent'
      BY <2>2, <3>1 DEF SignalledCurrent, Pending, Queued, Handlers, sigVars, queueVars
    <3> QED
      BY SMTT(30), <1>0, <2>3, <3>2, <3>3, <3>4, <3>5 DEF Inv
  <2>5. CASE running[s]
    <3>1. UNCHANGED <<routine, routines>>
      BY SMTT(30), <1>8, <2>1, <2>5 DEF StartIfNotRunning
    <3>2. Allocated'
      BY <2>2, <3>1 DEF Allocated, Idle, None, TypeOK, CounterType, sigVars
    <3>3. RunningServed'
      BY <2>2, <3>1 DEF RunningServed, Streaming, scVars
    <3>4. \E p \in Routines : WillCancel(p, s)
      BY SMTT(30), <2>1, <2>5 DEF RunningServed, Streaming, WillCancel
    <3>5. GrantServed'
      BY <2>1, <2>2, <3>1, <3>4 DEF GrantServed, WillCancel, WillStart, Handlers, sigVars, scVars
    <3>6. SignalledCurrent'
      BY <2>2, <3>1 DEF SignalledCurrent, Pending, Queued, Handlers, sigVars, queueVars
    <3> QED
      BY <1>0, <2>3, <3>2, <3>3, <3>5, <3>6 DEF Inv
  <2> QED
    BY SMTT(30), <2>4, <2>5
<1>9. ASSUME NEW h \in General, Stop(h) PROVE Inv'
  <2>1. Allocated'
    BY <1>9 DEF Stop, Idle, Allocated, None, TypeOK, CounterType, HandlerType, Handlers, sigVars, counts
  <2>2. Keyed'
    BY <1>9 DEF Stop, Keyed, Answering, Idle, TypeOK, HandlerType, Handlers, scVars
  <2>3. GrantServed'
    BY <1>9 DEF Stop, GrantServed, WillCancel, WillStart, Idle, TypeOK, HandlerType,
       Handlers, scVars, sigVars
  <2>4. SignalledCurrent'
    BY <1>9 DEF Stop, SignalledCurrent, Pending, Queued, Idle, TypeOK, HandlerType,
       Handlers, sigVars, queueVars
  <2> QED
    BY <1>0, <1>9, <2>1, <2>2, <2>3, <2>4 DEF Inv, Stop, RunningServed, Streaming, Idle,
       scVars
<1>10. ASSUME NEW h \in General, StopUnblocked(h) PROVE Inv'
  <2>1. Allocated'
    BY SMTT(30), <1>10 DEF StopUnblocked, Idle, Allocated, None, TypeOK, CounterType, HandlerType, Handlers, sigVars, counts
  <2>2. Keyed'
    BY SMTT(30), <1>10 DEF StopUnblocked, Keyed, Answering, Idle, TypeOK, HandlerType, Handlers,
       scVars
  <2>3. GrantServed'
    BY SMTT(30), <1>10 DEF StopUnblocked, GrantServed, WillCancel, WillStart, Idle, TypeOK,
       HandlerType, Handlers, scVars, sigVars
  <2>4. SignalledCurrent'
    BY SMTT(30), <1>10 DEF StopUnblocked, SignalledCurrent, Pending, Queued, Idle, TypeOK,
       HandlerType, Handlers, sigVars, queueVars
  <2> QED
    BY SMTT(30), <1>0, <1>10, <2>1, <2>2, <2>3, <2>4 DEF Inv, StopUnblocked, RunningServed, Streaming,
       Idle, scVars
<1>11. ASSUME NEW h \in Event, NEW k \in Keys, ReceiveDelayReq(h, k) PROVE Inv'
  <2>1. Allocated'
    BY SMTT(30), <1>11 DEF ReceiveDelayReq, Allocated, TypeOK, HandlerType, Handlers, sigVars,
       counts
  <2>2. Keyed'
    BY SMTT(30), <1>11 DEF ReceiveDelayReq, Keyed, Answering, TypeOK, HandlerType, Handlers,
       scVars
  <2>3. GrantServed'
    BY SMTT(30), <1>11 DEF ReceiveDelayReq, GrantServed, WillCancel, WillStart, TypeOK,
       HandlerType, Handlers, scVars, sigVars
  <2>4. SignalledCurrent'
    BY <1>11 DEF ReceiveDelayReq, SignalledCurrent, Pending, Queued, TypeOK,
       HandlerType, Handlers, sigVars, queueVars
  <2> QED
    BY SMTT(30), <1>0, <1>11, <2>1, <2>2, <2>3, <2>4 DEF Inv, ReceiveDelayReq, RunningServed, Streaming,
       scVars
<1>12. ASSUME NEW h \in Event, CreateSptpSubscription(h) PROVE Inv'
  <2>0. /\ routines + 1 \in Routines
        /\ routine[routines + 1].pc = "none"
        /\ \A p \in Routines \ {routines + 1} : routine'[p] = routine[p]
    BY ZenonT(30), <1>12, SpawnFresh DEF CreateSptpSubscription, Register
  <2>1. Allocated'
    BY <1>12 DEF CreateSptpSubscription, Allocated, Register, Spawn, TypeOK,
       HandlerType, Handlers, RoutineType, SubscriptionType, CounterType, sigVars
  <2>2. Keyed'
    BY <1>12 DEF CreateSptpSubscription, Keyed, Answering, Register, Spawn, TypeOK,
       HandlerType, Handlers, SubscriptionType
  <2>3. RunningServed'
    <3>1. UNCHANGED running
      BY <1>12 DEF CreateSptpSubscription, Register
    <3> QED
      BY <3>1, <2>0 DEF RunningServed, Streaming
  <2>4. GrantServed'
    <3>1. UNCHANGED sigVars /\ \A g \in General : handler'[g] = handler[g]
      BY <1>12 DEF CreateSptpSubscription, TypeOK, HandlerType, Handlers
    <3>2. \A s \in Subs : s <= subs => subKey'[s] = subKey[s]
      BY <1>12 DEF CreateSptpSubscription, Register, TypeOK, SubscriptionType, CounterType, Subs
    <3> SUFFICES ASSUME NEW s \in Subs, signaling'[s] = "grant"
                 PROVE  /\ TypeOf[subKey'[s]] # "DelayReq"
                        /\ \/ \E p \in Routines : WillCancel(p, s)'
                           \/ \E g \in General : WillStart(g, s)'
      BY DEF GrantServed
    <3>3. signaling[s] = "grant"
      BY <3>1 DEF sigVars
    <3>4. subKey'[s] = subKey[s]
      BY <3>2, <3>3 DEF Allocated
    <3>5. ASSUME NEW p \in Routines, WillCancel(p, s) PROVE WillCancel(p, s)'
      BY <3>5, <2>0 DEF WillCancel
    <3>6. ASSUME NEW g \in General, WillStart(g, s) PROVE WillStart(g, s)'
      BY <3>6, <3>1 DEF WillStart
    <3> QED
      BY <3>3, <3>4, <3>5, <3>6 DEF GrantServed
  <2>5. SignalledCurrent'
    <3>1. /\ UNCHANGED <<sigVars, queueVars>>
          /\ \A g \in General : handler'[g] = handler[g]
      BY <1>12 DEF CreateSptpSubscription, TypeOK, HandlerType, Handlers
    <3> QED
      BY <3>1, <2>0 DEF SignalledCurrent, Pending, Queued, sigVars, queueVars
  <2> QED
    BY <1>0, <2>1, <2>2, <2>3, <2>4, <2>5 DEF Inv
<1>13. ASSUME NEW h \in Event, BumpSubscription(h) PROVE Inv'
  <2>1. Allocated'
    BY <1>13 DEF BumpSubscription, Allocated, TypeOK, HandlerType, Handlers, sigVars,
       counts
  <2>2. Keyed'
    BY <1>13 DEF BumpSubscription, Keyed, Answering, TypeOK, HandlerType, Handlers,
       scVars
  <2>3. GrantServed'
    BY <1>13 DEF BumpSubscription, GrantServed, WillCancel, WillStart, TypeOK,
       HandlerType, Handlers, scVars, sigVars
  <2>4. SignalledCurrent'
    BY SMTT(30), <1>13 DEF BumpSubscription, SignalledCurrent, Pending, Queued, TypeOK,
       HandlerType, Handlers, sigVars, queueVars
  <2> QED
    BY <1>0, <1>13, <2>1, <2>2, <2>3, <2>4 DEF Inv, BumpSubscription, RunningServed,
       Streaming, scVars
<1>14. ASSUME NEW h \in Event, QueueResponse(h) PROVE Inv'
  <2>1. Allocated'
    BY SMTT(30), <1>14 DEF QueueResponse, Idle, Allocated, None, TypeOK, CounterType, HandlerType, Handlers, sigVars, counts
  <2>2. Keyed'
    BY SMTT(30), <1>14 DEF QueueResponse, Keyed, Answering, Once, Idle, TypeOK, HandlerType,
       Handlers, scVars
  <2>3. GrantServed'
    BY SMTT(30), <1>14 DEF QueueResponse, GrantServed, WillCancel, WillStart, Once, Idle, TypeOK,
       HandlerType, Handlers, scVars, sigVars
  <2>4. SignalledCurrent'
    <3>1. \A t \in Subs : Queued(t) => Queued(t)'
      BY <1>14, OnceKeepsQueued DEF QueueResponse, TypeOK, HandlerType, Handlers
    <3>2. UNCHANGED <<routine, sigVars>> /\ \A g \in General : handler'[g] = handler[g]
      BY <1>14 DEF QueueResponse, TypeOK, HandlerType, Handlers
    <3> QED
      BY <3>1, <3>2 DEF SignalledCurrent, Pending, sigVars
  <2> QED
    BY SMTT(30), <1>0, <1>14, <2>1, <2>2, <2>3, <2>4 DEF Inv, QueueResponse, RunningServed, Streaming,
       Once, Idle, scVars
<1>15. ASSUME NEW p \in Routines, SetRunning(p) PROVE Inv'
  <2>1. Allocated'
    BY <1>15 DEF SetRunning, Allocated, TypeOK, RoutineType, sigVars, counts
  <2>2. RunningServed'
    BY <1>15 DEF SetRunning, RunningServed, Streaming, TypeOK, RoutineType,
       SubscriptionType
  <2>3. GrantServed'
    BY <1>15 DEF SetRunning, GrantServed, WillCancel, WillStart, TypeOK, RoutineType,
       scVars, sigVars
  <2>4. SignalledCurrent'
    BY <1>15 DEF SetRunning, SignalledCurrent, Pending, Queued, TypeOK, RoutineType,
       sigVars, queueVars
  <2> QED
    BY <1>0, <1>15, <2>1, <2>2, <2>3, <2>4 DEF Inv, SetRunning, Keyed, Answering, scVars
<1>16. ASSUME NEW p \in Routines, SendFirst(p) PROVE Inv'
  <2>1. Allocated'
    BY <1>16 DEF SendFirst, Allocated, Once, TypeOK, RoutineType, sigVars, counts
  <2>2. RunningServed'
    BY <1>16 DEF SendFirst, RunningServed, Streaming, Once, TypeOK, RoutineType, scVars
  <2>3. GrantServed'
    BY <1>16 DEF SendFirst, GrantServed, WillCancel, WillStart, Once, TypeOK,
       RoutineType, scVars, sigVars
  <2>4. SignalledCurrent'
    <3>1. \A t \in Subs : Queued(t) => Queued(t)'
      BY <1>16, OnceKeepsQueued DEF SendFirst, TypeOK, RoutineType
    <3>2. UNCHANGED <<handler, sigVars>> /\ routine[p].pc # "cancelSend"
      BY <1>16 DEF SendFirst
    <3>3. \A q \in Routines : q # p => routine'[q] = routine[q]
      BY <1>16 DEF SendFirst, TypeOK, RoutineType
    <3> QED
      BY <3>1, <3>2, <3>3 DEF SignalledCurrent, Pending, sigVars
  <2> QED
    BY <1>0, <1>16, <2>1, <2>2, <2>3, <2>4 DEF Inv, SendFirst, Keyed, Answering, Once, scVars
<1>17. ASSUME NEW p \in Routines, SelectDone(p) PROVE Inv'
  <2>1. Allocated'
    BY <1>17 DEF SelectDone, Allocated, TypeOK, RoutineType, sigVars, counts
  <2>2. RunningServed'
    BY <1>17 DEF SelectDone, RunningServed, Streaming, TypeOK, RoutineType, scVars
  <2>3. GrantServed'
    BY <1>17 DEF SelectDone, GrantServed, WillCancel, WillStart, TypeOK, RoutineType,
       scVars, sigVars
  <2>4. SignalledCurrent'
    BY <1>17 DEF SelectDone, SignalledCurrent, Pending, Queued, TypeOK, RoutineType,
       sigVars, queueVars
  <2> QED
    BY <1>0, <1>17, <2>1, <2>2, <2>3, <2>4 DEF Inv, SelectDone, Keyed, Answering, scVars
<1>18. ASSUME NEW p \in Routines, SelectStop(p) PROVE Inv'
  <2>1. Allocated'
    BY <1>18 DEF SelectStop, Allocated, TypeOK, RoutineType, sigVars, counts
  <2>2. RunningServed'
    BY <1>18 DEF SelectStop, RunningServed, Streaming, TypeOK, RoutineType, scVars
  <2>3. GrantServed'
    BY <1>18 DEF SelectStop, GrantServed, WillCancel, WillStart, TypeOK, RoutineType,
       scVars, sigVars
  <2>4. SignalledCurrent'
    BY <1>18 DEF SelectStop, SignalledCurrent, Pending, Queued, TypeOK, RoutineType,
       sigVars, queueVars
  <2> QED
    BY <1>0, <1>18, <2>1, <2>2, <2>3, <2>4 DEF Inv, SelectStop, Keyed, Answering, scVars
<1>19. ASSUME NEW p \in Routines, SelectTick(p) PROVE Inv'
  <2>1. Allocated'
    BY <1>19 DEF SelectTick, Allocated, TypeOK, RoutineType, sigVars, counts
  <2>2. RunningServed'
    BY <1>19 DEF SelectTick, RunningServed, Streaming, TypeOK, RoutineType, scVars
  <2>3. GrantServed'
    BY <1>19 DEF SelectTick, GrantServed, WillCancel, WillStart, TypeOK, RoutineType,
       scVars, sigVars
  <2>4. SignalledCurrent'
    BY SMTT(30), <1>19 DEF SelectTick, SignalledCurrent, Pending, Queued, TypeOK, RoutineType,
       sigVars, queueVars
  <2> QED
    BY <1>0, <1>19, <2>1, <2>2, <2>3, <2>4 DEF Inv, SelectTick, Keyed, Answering, scVars
<1>20. ASSUME NEW p \in Routines, Tick(p) PROVE Inv'
  <2>1. Allocated'
    BY <1>20 DEF Tick, Allocated, TypeOK, RoutineType, sigVars, counts
  <2>2. RunningServed'
    BY <1>20 DEF Tick, RunningServed, Streaming, TypeOK, RoutineType, scVars
  <2>3. GrantServed'
    BY <1>20 DEF Tick, GrantServed, WillCancel, WillStart, TypeOK, RoutineType, scVars,
       sigVars
  <2>4. SignalledCurrent'
    BY <1>20 DEF Tick, SignalledCurrent, Pending, Queued, TypeOK, RoutineType, sigVars,
       queueVars
  <2> QED
    BY <1>0, <1>20, <2>1, <2>2, <2>3, <2>4 DEF Inv, Tick, Keyed, Answering, scVars
<1>21. ASSUME NEW p \in Routines, TickOnce(p) PROVE Inv'
  <2>1. Allocated'
    BY <1>21 DEF TickOnce, Allocated, Once, TypeOK, RoutineType, sigVars, counts
  <2>2. RunningServed'
    BY <1>21 DEF TickOnce, RunningServed, Streaming, Once, TypeOK, RoutineType, scVars
  <2>3. GrantServed'
    BY <1>21 DEF TickOnce, GrantServed, WillCancel, WillStart, Once, TypeOK,
       RoutineType, scVars, sigVars
  <2>4. SignalledCurrent'
    <3>1. \A t \in Subs : Queued(t) => Queued(t)'
      BY <1>21, OnceKeepsQueued DEF TickOnce, TypeOK, RoutineType
    <3>2. UNCHANGED <<handler, sigVars>> /\ routine[p].pc # "cancelSend"
      BY <1>21 DEF TickOnce
    <3>3. \A q \in Routines : q # p => routine'[q] = routine[q]
      BY <1>21 DEF TickOnce, TypeOK, RoutineType
    <3> QED
      BY <3>1, <3>2, <3>3 DEF SignalledCurrent, Pending, sigVars
  <2> QED
    BY <1>0, <1>21, <2>1, <2>2, <2>3, <2>4 DEF Inv, TickOnce, Keyed, Answering, Once, scVars
<1>22. ASSUME NEW p \in Routines, ClearRunning(p) PROVE Inv'
  <2>1. Allocated'
    BY <1>22 DEF ClearRunning, Allocated, TypeOK, RoutineType, sigVars, counts
  <2>2. RunningServed'
    BY <1>22 DEF ClearRunning, RunningServed, Streaming, TypeOK, RoutineType,
       SubscriptionType
  <2>3. GrantServed'
    BY <1>22 DEF ClearRunning, GrantServed, WillCancel, WillStart, TypeOK, RoutineType,
       scVars, sigVars
  <2>4. SignalledCurrent'
    BY <1>22 DEF ClearRunning, SignalledCurrent, Pending, Queued, TypeOK, RoutineType,
       sigVars, queueVars
  <2> QED
    BY <1>0, <1>22, <2>1, <2>2, <2>3, <2>4 DEF Inv, ClearRunning, Keyed, Answering, scVars
<1>23. ASSUME NEW p \in Routines, UpdateSignalingCancel(p) PROVE Inv'
  <2>1. Allocated'
    BY <1>23 DEF UpdateSignalingCancel, Allocated, TypeOK, RoutineType, SignalingType,
       counts
  <2>2. RunningServed'
    BY <1>23 DEF UpdateSignalingCancel, RunningServed, Streaming, TypeOK, RoutineType,
       scVars
  <2>3. GrantServed'
    BY <1>23 DEF UpdateSignalingCancel, GrantServed, WillCancel, WillStart, TypeOK,
       RoutineType, SignalingType, scVars
  <2>4. SignalledCurrent'
    BY <1>23 DEF UpdateSignalingCancel, SignalledCurrent, Pending, Queued, TypeOK,
       RoutineType, SignalingType, sigVars, queueVars
  <2> QED
    BY <1>0, <1>23, <2>1, <2>2, <2>3, <2>4 DEF Inv, UpdateSignalingCancel, Keyed, Answering,
       scVars
<1>24. ASSUME NEW p \in Routines, SendCancel(p) PROVE Inv'
  <2>1. Allocated'
    BY <1>24 DEF SendCancel, Allocated, OnceSignaling, TypeOK, RoutineType, sigVars,
       counts
  <2>2. RunningServed'
    BY <1>24 DEF SendCancel, RunningServed, Streaming, OnceSignaling, TypeOK,
       RoutineType, scVars
  <2>3. GrantServed'
    BY SMTT(30), <1>24 DEF SendCancel, GrantServed, WillCancel, WillStart, OnceSignaling, TypeOK,
       RoutineType, scVars, sigVars
  <2>4. SignalledCurrent'
    <3>0. PICK s \in Subs : s = routine[p].sub
      BY <1>24 DEF SendCancel, TypeOK, RoutineType
    <3>1. Queued(s)' /\ \A t \in Subs : Queued(t) => Queued(t)'
      BY <1>24, <3>0, OnceSignalingQueues DEF SendCancel, TypeOK
    <3>2. UNCHANGED <<handler, sigVars>>
      BY <1>24 DEF SendCancel
    <3>3. \A q \in Routines : q # p => routine'[q] = routine[q]
      BY <1>24 DEF SendCancel, TypeOK, RoutineType
    <3> QED
      BY <3>0, <3>1, <3>2, <3>3 DEF SignalledCurrent, Pending, sigVars
  <2> QED
    BY <1>0, <1>24, <2>1, <2>2, <2>3, <2>4 DEF Inv, SendCancel, Keyed, Answering,
       OnceSignaling, scVars
<1>25. CASE WorkerReceive
  <2>1. SignalledCurrent'
    <3>1. UNCHANGED <<handler, routine, sigVars, signalingQueue>> /\ worker = Free
      BY <1>25 DEF WorkerReceive
    <3> QED
      BY ZenonT(30), <3>1 DEF SignalledCurrent, Pending, Queued, Free, None, sigVars
  <2> QED
    BY SMTT(30), <1>0, <1>25, <1>37, <2>1 DEF Inv, WorkerReceive, scVars, sigVars
<1>26. CASE WorkerReceiveSignaling
  <2>1. SignalledCurrent'
    <3>1. \A t \in Subs : Queued(t) => Queued(t)'
      BY <1>26, ReceiveKeepsQueued DEF TypeOK
    <3>2. UNCHANGED <<handler, routine, sigVars>>
      BY SMTT(30), <1>26 DEF WorkerReceiveSignaling
    <3> QED
      BY <3>1, <3>2 DEF SignalledCurrent, Pending, sigVars
  <2> QED
    BY <1>0, <1>26, <1>37, <2>1 DEF Inv, WorkerReceiveSignaling, scVars, sigVars
<1>27. CASE WorkerSend
  <2>1. SignalledCurrent'
    <3>1. UNCHANGED <<signaling, handler, routine, signalingQueue>>
      BY ZenonT(30), <1>27 DEF WorkerSend
    <3>2. ASSUME NEW t \in Subs, worker # [from |-> "signaling", sub |-> t]
          PROVE  signalled'[t] = signalled[t] /\ (Queued(t) => Queued(t)')
      BY <1>27, <3>2 DEF WorkerSend, Queued, Free, TypeOK, QueueType, SignalingType
    <3>3. ASSUME NEW t \in Subs, worker = [from |-> "signaling", sub |-> t]
          PROVE  signalled'[t] = signaling'[t]
      BY <1>27, <3>3 DEF WorkerSend, TypeOK, SignalingType
    <3> QED
      BY SMTT(30), <3>1, <3>2, <3>3 DEF SignalledCurrent, Pending
  <2> QED
    BY <1>0, <1>27, <1>37, <2>1 DEF Inv, WorkerSend, scVars, sigVars
<1>29. ASSUME NEW i \in {"metrics", "drain"}, NEW k \in Keys, InventoryCheck(i, k) PROVE Inv'
  <2>1. Allocated'
    <3>1. /\ UNCHANGED <<handler, routine, signaling, subs, routines>>
          /\ \A j \in Keys : clients'[j] = clients[j] \/ clients'[j] = 0
      BY <1>29 DEF InventoryCheck, None, TypeOK, SubscriptionType, sigVars, counts
    <3>2. subs >= 0
      BY SMTT(30) DEF TypeOK, CounterType
    <3> QED
      BY ZenonT(30), <3>1, <3>2 DEF Allocated
  <2>2. Keyed'
    BY <1>29 DEF InventoryCheck, Keyed, Answering, TypeOK, SubscriptionType, scVars
  <2>3. UNCHANGED <<subKey, running, sigVars, handler, routine, queueVars>>
    BY SMTT(30), <1>29 DEF InventoryCheck, scVars
  <2>4. RunningServed' /\ GrantServed'
    BY SMTT(30), <2>3 DEF RunningServed, GrantServed, Streaming, WillCancel, WillStart, sigVars
  <2>5. SignalledCurrent'
    BY ZenonT(30), <2>3 DEF SignalledCurrent, Pending, Queued, queueVars, sigVars
  <2> QED
    BY SMTT(30), <1>0, <2>1, <2>2, <2>4, <2>5 DEF Inv
<1>35. ASSUME UNCHANGED <<clients, subKey, running, sigVars, handler, routine, queueVars, counts>>
      PROVE Inv'
  <2>1. SignalledCurrent'
    BY <1>35 DEF SignalledCurrent, Pending, Queued, sigVars, queueVars
  <2> QED
    BY <1>0, <1>35, <1>37, <2>1 DEF Inv, sigVars
<1>28. ASSUME NEW i \in {"metrics", "drain"}, InventoryLock(i) PROVE Inv'
  BY <1>28, <1>35 DEF InventoryLock, scVars
<1>30. ASSUME NEW i \in {"metrics", "drain"}, InventoryUnlock(i) PROVE Inv'
  BY <1>30, <1>35 DEF InventoryUnlock, scVars
<1>31. CASE MetricsTick
  BY <1>31, <1>35 DEF MetricsTick, scVars
<1>32. CASE Drain
  BY <1>32, <1>35 DEF Drain, scVars
<1>33. CASE Undrain
  BY <1>33, <1>35 DEF Undrain, scVars
<1>34. ASSUME NEW s \in Subs, Expire(s) PROVE Inv'
  BY <1>34, <1>35 DEF Expire, scVars
<1>36. CASE UNCHANGED vars
  BY <1>36, <1>35 DEF vars, scVars
<1> QED
  BY <1>1, <1>2, <1>3, <1>4, <1>5, <1>6, <1>7, <1>8, <1>9, <1>10, <1>11, <1>12, <1>13,
     <1>14, <1>15, <1>16, <1>17, <1>18, <1>19, <1>20, <1>21, <1>22, <1>23, <1>24,
     <1>25, <1>26, <1>27, <1>28, <1>29, <1>30, <1>31, <1>32, <1>33, <1>34, <1>35,
     <1>36 DEF Next, GeneralStep, EventStep, RoutineStep, InventoryStep

(* NoSilentEnd for any number of clients, requests and receive goroutines,   *)
(* and any capacity of the queues: a client that was told it has a grant is  *)
(* being served, or will be told otherwise.                                  *)
THEOREM GrantsAreServed == Spec => []NoSilentEnd
<1>1. Inv => NoSilentEnd
  <2> SUFFICES ASSUME Inv, NEW s \in Subs, signalled[s] = "grant" PROVE Served(s)
    BY DEF NoSilentEnd
  <2>1. CASE Pending(s)
    BY <2>1 DEF Pending, Served, Queued
  <2>2. CASE signaling[s] = "grant"
    BY <2>2 DEF Inv, GrantServed, WillCancel, WillStart, Served
  <2> QED
    BY <2>1, <2>2 DEF Inv, SignalledCurrent
<1> QED
  BY <1>1, InitInv, NextInv, PTL DEF Spec
=============================================================================
