-------------------------- MODULE NtpResponderProofs --------------------------
(* The NTP responder loses no request, for any number of addresses, workers and requests. *)
EXTENDS NtpResponder, FiniteSetTheorems, SequenceTheorems, TLAPS

\* What a listener makes of a request.
RequestTasks ==
  [ id : {r.id : r \in NrRequests}, settings : {r.settings : r \in NrRequests},
    addr : IPs \X {r.id : r \in NrRequests}, at : Nat, offset : Int, received : Int ]

Counters == [requests : Int, responses : Int, invalidFormat : Int, readError : Int, failed : Int]

Busy(f, S) == {x \in S : f[x] # NoTask}
BusyListeners == Busy(held, IPs)
TaskOf == [w \in NrWorkers |-> nrWorker[w].task]
BusyWorkers == Busy(TaskOf, NrWorkers)

\* A listener holds a task while it hands it over, a worker until it is idle again.
NrInv ==
  /\ nrNow \in Nat /\ phcOffset \in Int /\ nrStats \in Counters
  /\ inbox \in [IPs -> SUBSET NrRequests]
  /\ tasks \in Seq(RequestTasks)
  /\ held \in [IPs -> RequestTasks \cup {NoTask}]
  /\ nrListener \in [IPs -> {"starting", "reading", "handing", "gone"}]
  /\ nrWorker \in [NrWorkers -> [stage : {"idle", "serve", "send"}, task : RequestTasks \cup {NoTask}]]
  /\ \A ip \in IPs : nrListener[ip] = "handing" <=> held[ip] # NoTask
  /\ \A w \in NrWorkers : nrWorker[w].stage = "idle" <=> nrWorker[w].task = NoTask
  /\ nrStats.requests = nrStats.responses + nrStats.invalidFormat + nrStats.failed + Len(tasks)
                        + Cardinality(BusyListeners) + Cardinality(BusyWorkers)

------------------------------------------------------------------------------
LEMMA NoTaskIsNone == NoTask \notin RequestTasks
<1>1. \A t \in RequestTasks : DOMAIN t = {"id", "settings", "addr", "at", "offset", "received"}
  BY DEF RequestTasks
<1>2. DOMAIN NoTask = {"id"}
  BY DEF NoTask
<1> QED BY <1>1, <1>2

\* One more or one less of a finite set is busy.
LEMMA BusyMore ==
  ASSUME NEW S, IsFiniteSet(S), NEW x \in S, NEW f, NEW g, \A y \in S \ {x} : g[y] = f[y],
         f[x] = NoTask, g[x] # NoTask
  PROVE  Cardinality(Busy(g, S)) = Cardinality(Busy(f, S)) + 1
<1>1. IsFiniteSet(Busy(f, S))
  BY FS_Subset DEF Busy
<1>2. Busy(g, S) = Busy(f, S) \cup {x} /\ x \notin Busy(f, S)
  BY DEF Busy
<1> QED BY <1>1, <1>2, FS_AddElement

LEMMA BusyLess ==
  ASSUME NEW S, IsFiniteSet(S), NEW x \in S, NEW f, NEW g, \A y \in S \ {x} : g[y] = f[y],
         f[x] # NoTask, g[x] = NoTask
  PROVE  Cardinality(Busy(g, S)) = Cardinality(Busy(f, S)) - 1
<1>1. IsFiniteSet(Busy(f, S))
  BY FS_Subset DEF Busy
<1>2. Busy(g, S) = Busy(f, S) \ {x} /\ x \in Busy(f, S)
  BY DEF Busy
<1> QED BY <1>1, <1>2, FS_RemoveElement

LEMMA WorkersCounted == Cardinality(BusyWorkers) \in Nat
BY FS_Subset, FS_CardinalityType, NrConstants DEF BusyWorkers, Busy

LEMMA ListenersCounted == Cardinality(BusyListeners) \in Nat
BY FS_Subset, FS_CardinalityType, NrConstants DEF BusyListeners, Busy

LEMMA StatsCounted ==
  ASSUME NrInv
  PROVE  /\ nrStats \in Counters /\ Len(tasks) \in Nat
         /\ nrStats.requests \in Int /\ nrStats.responses \in Int /\ nrStats.invalidFormat \in Int /\ nrStats.failed \in Int
         /\ nrStats.requests = nrStats.responses + nrStats.invalidFormat + nrStats.failed + Len(tasks)
                               + Cardinality(BusyListeners) + Cardinality(BusyWorkers)
BY DEF NrInv, Counters

LEMMA NrInvInit == NrInit => NrInv
<1> SUFFICES ASSUME NrInit PROVE NrInv
  OBVIOUS
<1> USE DEF NrInit, NrStart
<1>1. BusyListeners = {} /\ BusyWorkers = {}
  BY DEF BusyListeners, BusyWorkers, Busy, TaskOf, NrIdle
<1>2. /\ nrStats \in Counters
      /\ nrStats.requests = nrStats.responses + nrStats.invalidFormat + nrStats.failed + Len(tasks)
                            + Cardinality(BusyListeners) + Cardinality(BusyWorkers)
  BY <1>1, FS_EmptySet DEF Counters
<1>3. tasks \in Seq(RequestTasks)
  OBVIOUS
<1> QED BY <1>2, <1>3 DEF NrInv, NrIdle

\* Steps of the listeners' and the workers' tasks; the counters follow.
LEMMA ReadsKeeps ==
  ASSUME NrInv, NEW ip \in IPs, ListenerReads(ip)
  PROVE  NrInv'
<1>1. PICK r \in inbox[ip] :
        /\ inbox' = [inbox EXCEPT ![ip] = @ \ {r}]
        /\ IF r.short
           THEN /\ nrStats' = [nrStats EXCEPT !.readError = @ + 1]
                /\ UNCHANGED <<nrListener, held>>
           ELSE /\ nrStats' = [nrStats EXCEPT !.requests = @ + 1]
                /\ held' = [held EXCEPT ![ip] =
                     [ id |-> r.id, settings |-> r.settings, addr |-> <<ip, r.id>>, at |-> nrNow,
                       offset |-> phcOffset, received |-> nrNow + Skew + phcOffset ]]
                /\ nrListener' = [nrListener EXCEPT ![ip] = "handing"]
  BY DEF ListenerReads
<1>2. /\ r \in NrRequests /\ inbox' \in [IPs -> SUBSET NrRequests]
      /\ nrListener[ip] = "reading" /\ UNCHANGED <<tasks, nrWorker, phcOffset, nrNow>>
  BY <1>1 DEF ListenerReads, NrInv
<1>3. UNCHANGED BusyWorkers
  BY <1>2 DEF BusyWorkers, Busy, TaskOf
<1>4. CASE r.short
  <2>1. nrStats' = [nrStats EXCEPT !.readError = @ + 1] /\ UNCHANGED <<nrListener, held, BusyListeners>>
    BY <1>1, <1>4 DEF BusyListeners, Busy
  <2>2. /\ nrStats' \in Counters /\ nrStats'.requests = nrStats.requests /\ nrStats'.responses = nrStats.responses
        /\ nrStats'.invalidFormat = nrStats.invalidFormat /\ nrStats'.failed = nrStats.failed
    BY <2>1, StatsCounted DEF Counters
  <2> QED BY <1>2, <1>3, <2>1, <2>2 DEF NrInv
<1>5. CASE ~r.short
  <2> DEFINE task == [ id |-> r.id, settings |-> r.settings, addr |-> <<ip, r.id>>, at |-> nrNow,
                       offset |-> phcOffset, received |-> nrNow + Skew + phcOffset ]
  <2>1. /\ nrStats' = [nrStats EXCEPT !.requests = @ + 1] /\ held' = [held EXCEPT ![ip] = task]
        /\ nrListener' = [nrListener EXCEPT ![ip] = "handing"]
    BY <1>1, <1>5
  <2>2. task \in RequestTasks
    BY <1>2, NrConstants DEF NrInv, RequestTasks
  <2>3. task # NoTask
    BY <2>2, NoTaskIsNone
  <2> HIDE DEF task
  <2>4. /\ nrStats' \in Counters /\ nrStats'.requests = nrStats.requests + 1 /\ nrStats'.responses = nrStats.responses
        /\ nrStats'.invalidFormat = nrStats.invalidFormat /\ nrStats'.failed = nrStats.failed
    <3>1. nrStats \in Counters /\ nrStats' = [nrStats EXCEPT !.requests = @ + 1]
      BY <2>1, StatsCounted
    <3> QED BY <3>1 DEF Counters
  <2>5. /\ held' \in [IPs -> RequestTasks \cup {NoTask}]
        /\ nrListener' \in [IPs -> {"starting", "reading", "handing", "gone"}]
        /\ \A i \in IPs : nrListener'[i] = "handing" <=> held'[i] # NoTask
    BY <2>1, <2>2, <2>3 DEF NrInv
  <2>6. Cardinality(BusyListeners)' = Cardinality(BusyListeners) + 1 /\ Cardinality(BusyListeners) \in Nat
    <3>1. held[ip] = NoTask /\ held'[ip] # NoTask /\ \A i \in IPs \ {ip} : held'[i] = held[i]
      BY <1>2, <2>1, <2>3 DEF NrInv
    <3>2. Cardinality(Busy(held', IPs)) = Cardinality(Busy(held, IPs)) + 1
      BY <3>1, BusyMore, NrConstants
    <3> QED BY <3>2, ListenersCounted DEF BusyListeners
  <2>7. Cardinality(BusyWorkers) \in Nat /\ Len(tasks) \in Nat
    BY WorkersCounted DEF NrInv
  <2>8. nrStats'.requests = nrStats'.responses + nrStats'.invalidFormat + nrStats'.failed + Len(tasks')
                            + Cardinality(BusyListeners)' + Cardinality(BusyWorkers)'
    <3>1. tasks' = tasks /\ Cardinality(BusyWorkers)' = Cardinality(BusyWorkers)
      BY <1>2, <1>3
    <3>2. PICK s \in Counters : s = nrStats
      BY StatsCounted
    <3>3. /\ s.requests \in Int /\ s.responses \in Int /\ s.invalidFormat \in Int /\ s.failed \in Int
          /\ s.requests = s.responses + s.invalidFormat + s.failed + Len(tasks)
                          + Cardinality(BusyListeners) + Cardinality(BusyWorkers)
      BY <3>2, StatsCounted
    <3>4. /\ nrStats'.requests = s.requests + 1 /\ nrStats'.responses = s.responses
          /\ nrStats'.invalidFormat = s.invalidFormat /\ nrStats'.failed = s.failed
      BY <2>4, <3>2
    <3> QED BY <2>6, <2>7, <3>1, <3>3, <3>4
  <2> QED BY <1>2, <2>4, <2>5, <2>8 DEF NrInv
<1> QED BY <1>4, <1>5

LEMMA HandsKeeps ==
  ASSUME NrInv, NEW ip \in IPs, ListenerHands(ip)
  PROVE  NrInv'
<1>1. /\ nrListener[ip] = "handing" /\ tasks' = Append(tasks, held[ip]) /\ held' = [held EXCEPT ![ip] = NoTask]
      /\ nrListener' = [nrListener EXCEPT ![ip] = "reading"]
      /\ UNCHANGED <<nrWorker, inbox, nrStats, phcOffset, nrNow>>
  BY DEF ListenerHands
<1>2. /\ held[ip] \in RequestTasks /\ held[ip] # NoTask
      /\ held'[ip] = NoTask /\ \A i \in IPs \ {ip} : held'[i] = held[i]
  BY <1>1 DEF NrInv
<1>3. tasks' \in Seq(RequestTasks) /\ Len(tasks') = Len(tasks) + 1 /\ Len(tasks) \in Nat
  BY <1>1, <1>2, AppendProperties DEF NrInv
<1>4. Cardinality(BusyListeners)' = Cardinality(BusyListeners) - 1 /\ Cardinality(BusyListeners) \in Nat
  <2>1. Cardinality(Busy(held', IPs)) = Cardinality(Busy(held, IPs)) - 1
    BY <1>2, BusyLess, NrConstants
  <2> QED BY <2>1, ListenersCounted DEF BusyListeners
<1>5. UNCHANGED BusyWorkers /\ Cardinality(BusyWorkers) \in Nat
  BY <1>1, WorkersCounted DEF BusyWorkers, Busy, TaskOf
<1>6. /\ held' \in [IPs -> RequestTasks \cup {NoTask}]
      /\ nrListener' \in [IPs -> {"starting", "reading", "handing", "gone"}]
      /\ \A i \in IPs : nrListener'[i] = "handing" <=> held'[i] # NoTask
  BY <1>1 DEF NrInv
<1>7. nrStats'.requests = nrStats'.responses + nrStats'.invalidFormat + nrStats'.failed + Len(tasks')
                          + Cardinality(BusyListeners)' + Cardinality(BusyWorkers)'
  <2>2. nrStats' = nrStats /\ Cardinality(BusyWorkers)' = Cardinality(BusyWorkers)
    BY <1>1, <1>5
  <2> QED BY <1>3, <1>4, <1>5, <2>2, StatsCounted
<1> QED BY <1>1, <1>3, <1>6, <1>7 DEF NrInv

LEMMA TakesKeeps ==
  ASSUME NrInv, NEW w \in NrWorkers, WorkerTakes(w)
  PROVE  NrInv'
<1>1. /\ nrWorker[w] = NrIdle /\ tasks # <<>> /\ tasks' = Tail(tasks)
      /\ nrWorker' = [nrWorker EXCEPT ![w] = [stage |-> "serve", task |-> Head(tasks)]]
      /\ UNCHANGED <<nrListener, held, inbox, nrStats, phcOffset, nrNow>>
  BY DEF WorkerTakes
<1>2. tasks \in Seq(RequestTasks) /\ Len(tasks) \in Nat
  BY DEF NrInv
<1>3. Head(tasks) \in RequestTasks /\ tasks' \in Seq(RequestTasks) /\ Len(tasks') = Len(tasks) - 1
  BY <1>1, <1>2, HeadTailProperties
<1>4. PICK task \in RequestTasks : task = Head(tasks) /\ task # NoTask
  BY <1>3, NoTaskIsNone
<1>5. /\ nrWorker' \in [NrWorkers -> [stage : {"idle", "serve", "send"}, task : RequestTasks \cup {NoTask}]]
      /\ nrWorker'[w] = [stage |-> "serve", task |-> task] /\ \A v \in NrWorkers \ {w} : nrWorker'[v] = nrWorker[v]
  BY <1>1, <1>4 DEF NrInv
<1>6. \A v \in NrWorkers : nrWorker'[v].stage = "idle" <=> nrWorker'[v].task = NoTask
  BY <1>4, <1>5 DEF NrInv
<1>7. Cardinality(BusyWorkers)' = Cardinality(BusyWorkers) + 1
  <2>1. TaskOf[w] = NoTask /\ TaskOf'[w] # NoTask /\ \A v \in NrWorkers \ {w} : TaskOf'[v] = TaskOf[v]
    BY <1>1, <1>4, <1>5 DEF TaskOf, NrIdle
  <2>2. Cardinality(Busy(TaskOf', NrWorkers)) = Cardinality(Busy(TaskOf, NrWorkers)) + 1
    BY <2>1, BusyMore, NrConstants
  <2> QED BY <2>2 DEF BusyWorkers
<1>8. nrStats'.requests = nrStats'.responses + nrStats'.invalidFormat + nrStats'.failed + Len(tasks')
                          + Cardinality(BusyListeners)' + Cardinality(BusyWorkers)'
  <2>1. nrStats' = nrStats /\ Cardinality(BusyListeners)' = Cardinality(BusyListeners)
    BY <1>1 DEF BusyListeners, Busy
  <2>3. /\ nrStats.responses + nrStats.invalidFormat + nrStats.failed \in Int
        /\ nrStats.requests = (nrStats.responses + nrStats.invalidFormat + nrStats.failed) + Len(tasks)
                              + Cardinality(BusyListeners) + Cardinality(BusyWorkers)
    BY StatsCounted
  <2>4. PICK done \in Int : done = nrStats.responses + nrStats.invalidFormat + nrStats.failed
    BY <2>3
  <2>5. PICK l \in Int, b \in Int, h \in Int :
          l = Len(tasks) /\ b = Cardinality(BusyWorkers) /\ h = Cardinality(BusyListeners)
    BY <1>2, WorkersCounted, ListenersCounted
  <2>6. nrStats.requests = done + l + h + b /\ Len(tasks') = l - 1 /\ Cardinality(BusyWorkers)' = b + 1
    BY <1>3, <1>7, <2>3, <2>4, <2>5
  <2>7. done + l + h + b = done + (l - 1) + h + (b + 1)
    OBVIOUS
  <2> QED BY <2>1, <2>4, <2>5, <2>6, <2>7
<1> QED BY <1>1, <1>3, <1>5, <1>6, <1>8 DEF NrInv

\* A worker that drops or answers its request: one of three counters takes it over.
LEMMA FinishKeeps ==
  ASSUME NrInv, NEW w \in NrWorkers, nrWorker[w].stage \in {"serve", "send"},
         nrWorker' = [nrWorker EXCEPT ![w] = NrIdle],
         \/ nrStats' = [nrStats EXCEPT !.invalidFormat = @ + 1]
         \/ nrStats' = [nrStats EXCEPT !.responses = @ + 1]
         \/ nrStats' = [nrStats EXCEPT !.failed = @ + 1],
         UNCHANGED <<nrListener, held, tasks, inbox, phcOffset, nrNow>>
  PROVE  NrInv'
<1>1. /\ nrWorker' \in [NrWorkers -> [stage : {"idle", "serve", "send"}, task : RequestTasks \cup {NoTask}]]
      /\ nrWorker'[w] = NrIdle /\ \A v \in NrWorkers \ {w} : nrWorker'[v] = nrWorker[v]
      /\ nrWorker[w].task # NoTask
  BY DEF NrInv, NrIdle
<1>2. \A v \in NrWorkers : nrWorker'[v].stage = "idle" <=> nrWorker'[v].task = NoTask
  BY <1>1 DEF NrInv, NrIdle
<1>3. Cardinality(BusyWorkers)' = Cardinality(BusyWorkers) - 1
  <2>1. TaskOf[w] # NoTask /\ TaskOf'[w] = NoTask /\ \A v \in NrWorkers \ {w} : TaskOf'[v] = TaskOf[v]
    BY <1>1 DEF TaskOf, NrIdle
  <2>2. Cardinality(Busy(TaskOf', NrWorkers)) = Cardinality(Busy(TaskOf, NrWorkers)) - 1
    BY <2>1, BusyLess, NrConstants
  <2> QED BY <2>2 DEF BusyWorkers
<1>4. PICK s \in Counters : s = nrStats
  BY StatsCounted
<1>5. /\ nrStats' \in Counters /\ nrStats'.requests = s.requests
      /\ nrStats'.responses + nrStats'.invalidFormat + nrStats'.failed = s.responses + s.invalidFormat + s.failed + 1
  BY <1>4 DEF Counters
<1>6. nrStats'.requests = nrStats'.responses + nrStats'.invalidFormat + nrStats'.failed + Len(tasks')
                          + Cardinality(BusyListeners)' + Cardinality(BusyWorkers)'
  <2>1. tasks' = tasks /\ Cardinality(BusyListeners)' = Cardinality(BusyListeners)
    BY DEF BusyListeners, Busy
  <2>2. /\ s.requests \in Int /\ s.responses \in Int /\ s.invalidFormat \in Int /\ s.failed \in Int /\ Len(tasks) \in Nat
        /\ s.requests = s.responses + s.invalidFormat + s.failed + Len(tasks)
                        + Cardinality(BusyListeners) + Cardinality(BusyWorkers)
    BY <1>4, StatsCounted
  <2> QED BY <1>3, <1>5, <2>1, <2>2, WorkersCounted, ListenersCounted
<1> QED BY <1>1, <1>2, <1>5, <1>6 DEF NrInv

LEMMA ServeKeeps ==
  ASSUME NrInv, NEW w \in NrWorkers, Serve(w)
  PROVE  NrInv'
<1>1. CASE ~ValidSettingsFormat(nrWorker[w].task.settings)
  BY <1>1, FinishKeeps DEF Serve
<1>2. CASE ValidSettingsFormat(nrWorker[w].task.settings)
  <2>1. /\ nrWorker[w].stage = "serve" /\ nrWorker' = [nrWorker EXCEPT ![w].stage = "send"]
        /\ UNCHANGED <<nrStats, nrListener, held, tasks, inbox, phcOffset, nrNow>>
    BY <1>2 DEF Serve
  <2>2. /\ nrWorker' \in [NrWorkers -> [stage : {"idle", "serve", "send"}, task : RequestTasks \cup {NoTask}]]
        /\ \A v \in NrWorkers : /\ nrWorker'[v].task = nrWorker[v].task
                                /\ nrWorker'[v].stage = "idle" <=> nrWorker[v].stage = "idle"
    BY <2>1 DEF NrInv
  <2>3. BusyWorkers' = BusyWorkers /\ BusyListeners' = BusyListeners
    BY <2>1, <2>2 DEF BusyWorkers, BusyListeners, Busy, TaskOf
  <2> QED BY <2>1, <2>2, <2>3 DEF NrInv
<1> QED BY <1>1, <1>2

LEMMA NrInvNext == NrInv /\ [NrNext]_nrVars => NrInv'
<1> SUFFICES ASSUME NrInv, [NrNext]_nrVars PROVE NrInv'
  OBVIOUS
\* Steps that move no task: a listener that does not hand over changes its state.
<1>a. ASSUME UNCHANGED <<held, tasks, nrWorker, nrStats, inbox>>, nrNow' \in Nat, phcOffset' \in Int,
             nrListener' \in [IPs -> {"starting", "reading", "handing", "gone"}],
             \A ip \in IPs : nrListener'[ip] = "handing" <=> nrListener[ip] = "handing"
      PROVE  NrInv'
  <2>1. BusyWorkers' = BusyWorkers /\ BusyListeners' = BusyListeners
    BY <1>a DEF BusyWorkers, BusyListeners, Busy, TaskOf
  <2> QED BY <1>a, <2>1 DEF NrInv
<1>1. ASSUME NEW ip \in IPs, StartListener(ip) \/ ListenerEnds(ip) \/ DeleteIP(ip) PROVE NrInv'
  <2>1. /\ UNCHANGED <<held, tasks, nrWorker, nrStats, inbox, nrNow, phcOffset>>
        /\ \/ UNCHANGED nrListener
           \/ nrListener[ip] # "handing" /\ \E s \in {"reading", "gone"} : nrListener' = [nrListener EXCEPT ![ip] = s]
    BY <1>1 DEF StartListener, ListenerEnds, DeleteIP
  <2>2. /\ nrListener' \in [IPs -> {"starting", "reading", "handing", "gone"}]
        /\ \A i \in IPs : nrListener'[i] = "handing" <=> nrListener[i] = "handing"
    BY <2>1 DEF NrInv
  <2>3. nrNow' \in Nat /\ phcOffset' \in Int
    BY <2>1 DEF NrInv
  <2> QED BY <1>a, <2>1, <2>2, <2>3
<1>2. ASSUME NEW ip \in IPs, ListenerReads(ip) PROVE NrInv'
  BY <1>2, ReadsKeeps
<1>3. ASSUME NEW ip \in IPs, ListenerHands(ip) PROVE NrInv'
  BY <1>3, HandsKeeps
<1>4. ASSUME NEW w \in NrWorkers, WorkerTakes(w) PROVE NrInv'
  BY <1>4, TakesKeeps
<1>5. ASSUME NEW w \in NrWorkers, Serve(w) PROVE NrInv'
  BY <1>5, ServeKeeps
<1>6. ASSUME NEW w \in NrWorkers, Sendto(w) PROVE NrInv'
  BY <1>6, FinishKeeps DEF Sendto
<1>7. CASE Check \/ MeasurePHC \/ Advertise \/ NrStop \/ Exit \/ NrTick \/ UNCHANGED nrVars
  <2>1. UNCHANGED <<nrListener, held, tasks, nrWorker, nrStats, inbox>>
    BY <1>7 DEF Check, MeasurePHC, Advertise, NrStop, Exit, NrTick, nrVars
  <2>2. nrNow' \in Nat /\ phcOffset' \in Int
    BY <1>7, NrConstants DEF NrInv, Check, MeasurePHC, Advertise, NrStop, Exit, NrTick, nrVars
  <2>3. nrListener' \in [IPs -> {"starting", "reading", "handing", "gone"}]
    BY <2>1 DEF NrInv
  <2> QED BY <1>a, <2>1, <2>2, <2>3
<1> QED BY <1>1, <1>2, <1>3, <1>4, <1>5, <1>6, <1>7 DEF NrNext, NrWorkerStep

\* Every request a listener counted is in one place: held by it, in the channel, with a worker, or in
\* one of the counters of what became of it.
THEOREM RequestsAccountedFor == NrSpec => []NoRequestLost
<1>1. NrInv => NoRequestLost
  <2> SUFFICES ASSUME NrInv PROVE NoRequestLost
    OBVIOUS
  <2>1. /\ BusyListeners = {ip \in IPs : held[ip] # NoTask}
        /\ BusyWorkers = {w \in NrWorkers : nrWorker[w].task # NoTask}
    BY DEF BusyListeners, BusyWorkers, Busy, TaskOf
  <2> QED BY <2>1, StatsCounted DEF NoRequestLost
<1> QED BY <1>1, NrInvInit, NrInvNext, PTL DEF NrSpec
==============================================================================
