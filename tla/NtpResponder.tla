----------------------------- MODULE NtpResponder -----------------------------
(* The NTP responder (ntp/responder): listeners that read requests and hand them to
   workers over a bounded channel, the health check, the PHC measurement, the
   announcement and the shutdown. *)
EXTENDS NtpProtocol, Sequences, SequencesExt, FiniteSets, FiniteSetsExt

CONSTANTS
  IPs,            \* Config.IPs: one listener each
  NrWorkers,      \* Config.Workers goroutines; also the capacity of the channel
  NrRequests,     \* what clients may send: [id, settings, short]
  ExtraOffset,    \* Config.ExtraOffset
  Skew,           \* PHC time minus system time when TimestampType is HWRX; 0 for SWRX
  NrMaxTime       \* bound: the last instant
ASSUME NrConstants == IsFiniteSet(NrWorkers) /\ NrWorkers # {} /\ IsFiniteSet(IPs) /\ Skew \in Int

VARIABLES
  nrListener,     \* [IPs -> "starting", "reading", "handing" or "gone"]
  held,           \* [IPs -> the task a listener is handing over]
  tasks,          \* the channel
  nrWorker,         \* [NrWorkers -> a task and how far it is]
  response,       \* [NrWorkers -> the packet the worker reuses]
  inbox,          \* [IPs -> requests on the socket]
  answers,        \* what was sent: [to, packet]
  nrStats,        \* JSONStats; failed counts responses that Sendto refused
  phcOffset,      \* Config.phcOffset
  iface,          \* the addresses on the interface, and "route" while they are announced
  nrProc,         \* "up", "cancelled", "stopping", "exited", or "fatal" after log.Fatalf
  undeleted,      \* what DeleteAllIPs has not come to yet
  nrNow           \* system time
nrVars == <<nrListener, held, tasks, nrWorker, response, inbox, answers, nrStats, phcOffset, iface,
            nrProc, undeleted, nrNow>>

NoTask == [id |-> 0]
NrIdle == [stage |-> "idle", task |-> NoTask]
NrIds == {r.id : r \in {q \in NrRequests : ~q.short}}

\* A request is sent at instant 0; its id is its transmit time, which the reply must echo.
NrStart(proc) ==
  /\ nrListener = [ip \in IPs |-> "starting"]
  /\ held = [ip \in IPs |-> NoTask]
  /\ tasks = <<>>
  /\ nrWorker = [w \in NrWorkers |-> NrIdle]
  /\ response = [w \in NrWorkers |-> [orig |-> 0]]
  /\ inbox = [ip \in IPs |-> NrRequests]
  /\ answers = {}
  /\ nrStats = [requests |-> 0, responses |-> 0, invalidFormat |-> 0, readError |-> 0, failed |-> 0]
  /\ phcOffset = 0
  /\ iface = {}
  /\ nrProc = proc
  /\ undeleted = IPs
  /\ nrNow = 0
NrInit == NrStart("up")
NrOff  == NrStart("exited")

Alive == nrProc \notin {"exited", "fatal"}

\* The goroutine of an address: addIPToInterface, whose failure is logged, ListenUDP, startListener
\* up to its loop; a socket that cannot be opened ends the process on the spot.
StartListener(ip) ==
  /\ Alive /\ nrListener[ip] = "starting"
  /\ iface' = iface \cup {ip} \/ UNCHANGED iface
  /\ \/ nrListener' = [nrListener EXCEPT ![ip] = "reading"] /\ UNCHANGED nrProc
     \/ nrProc' = "fatal" /\ UNCHANGED nrListener
  /\ UNCHANGED <<held, tasks, nrWorker, response, inbox, answers, nrStats, phcOffset, undeleted, nrNow>>

\* One pass of the loop: read, convert the timestamp, parse, count.
ListenerReads(ip) ==
  /\ Alive /\ nrListener[ip] = "reading"
  /\ \E r \in inbox[ip] :
       /\ inbox' = [inbox EXCEPT ![ip] = @ \ {r}]
       /\ IF r.short
          THEN /\ nrStats' = [nrStats EXCEPT !.readError = @ + 1]
               /\ UNCHANGED <<nrListener, held>>
          ELSE /\ nrStats' = [nrStats EXCEPT !.requests = @ + 1]
               /\ held' = [held EXCEPT ![ip] =
                    [ id |-> r.id, settings |-> r.settings, addr |-> <<ip, r.id>>, at |-> nrNow,
                      offset |-> phcOffset, received |-> nrNow + Skew + phcOffset ]]
               /\ nrListener' = [nrListener EXCEPT ![ip] = "handing"]
  /\ UNCHANGED <<tasks, nrWorker, response, answers, phcOffset, iface, nrProc, undeleted, nrNow>>

\* Mutant of ListenerHands: a full channel drops the task.
ListenerHandsOrDrops(ip) ==
  /\ Alive /\ nrListener[ip] = "handing"
  /\ tasks' = IF Len(tasks) < Cardinality(NrWorkers) THEN Append(tasks, held[ip]) ELSE tasks
  /\ held' = [held EXCEPT ![ip] = NoTask]
  /\ nrListener' = [nrListener EXCEPT ![ip] = "reading"]
  /\ UNCHANGED <<nrWorker, response, inbox, answers, nrStats, phcOffset, iface, nrProc, undeleted, nrNow>>

\* s.tasks <- task: blocks while the channel is full.
ListenerHands(ip) ==
  /\ Alive /\ nrListener[ip] = "handing" /\ Len(tasks) < Cardinality(NrWorkers)
  /\ tasks' = Append(tasks, held[ip])
  /\ held' = [held EXCEPT ![ip] = NoTask]
  /\ nrListener' = [nrListener EXCEPT ![ip] = "reading"]
  /\ UNCHANGED <<nrWorker, response, inbox, answers, nrStats, phcOffset, iface, nrProc, undeleted, nrNow>>

\* The connection is closed under the listener: it leaves its loop.
ListenerEnds(ip) ==
  /\ Alive /\ nrListener[ip] = "reading"
  /\ nrListener' = [nrListener EXCEPT ![ip] = "gone"]
  /\ UNCHANGED <<held, tasks, nrWorker, response, inbox, answers, nrStats, phcOffset, iface, nrProc,
                 undeleted, nrNow>>

WorkerTakes(w) ==
  /\ Alive /\ nrWorker[w] = NrIdle /\ tasks # <<>>
  /\ nrWorker' = [nrWorker EXCEPT ![w] = [stage |-> "serve", task |-> Head(tasks)]]
  /\ tasks' = Tail(tasks)
  /\ UNCHANGED <<nrListener, held, response, inbox, answers, nrStats, phcOffset, iface, nrProc,
                 undeleted, nrNow>>

\* Mutant of generateResponse: the receive time is that of the answer.
generateResponseNow(now, received, request) ==
  [ settings |-> ((request.settings \div 8) % 8) * 8 + modeServer,
    ref |-> (now \div 1000) * 1000, orig |-> request.id, rx |-> now, tx |-> now ]

generateResponse(now, received, request) ==
  [ settings |-> ((request.settings \div 8) % 8) * 8 + modeServer,
    ref |-> (now \div 1000) * 1000, orig |-> request.id, rx |-> received, tx |-> now ]

\* Mutant of Serve: the goroutine ends on a request of the wrong format.
ServeEnds(w) ==
  /\ Alive /\ nrWorker[w].stage = "serve"
  /\ LET t == nrWorker[w].task IN
     IF ~ValidSettingsFormat(t.settings)
     THEN /\ nrStats' = [nrStats EXCEPT !.invalidFormat = @ + 1]
          /\ nrWorker' = [nrWorker EXCEPT ![w] = [stage |-> "ended", task |-> NoTask]]
          /\ UNCHANGED response
     ELSE /\ response' = [response EXCEPT ![w] =
               generateResponse(nrNow + ExtraOffset, t.received + ExtraOffset, t)]
          /\ nrWorker' = [nrWorker EXCEPT ![w].stage = "send"]
          /\ UNCHANGED nrStats
  /\ UNCHANGED <<nrListener, held, tasks, inbox, answers, phcOffset, iface, nrProc, undeleted, nrNow>>

\* serve up to Sendto: a request of the wrong format is dropped, otherwise the worker's
\* packet is filled.
Serve(w) ==
  /\ Alive /\ nrWorker[w].stage = "serve"
  /\ LET t == nrWorker[w].task IN
     IF ~ValidSettingsFormat(t.settings)
     THEN /\ nrStats' = [nrStats EXCEPT !.invalidFormat = @ + 1]
          /\ nrWorker' = [nrWorker EXCEPT ![w] = NrIdle]
          /\ UNCHANGED response
     ELSE /\ response' = [response EXCEPT ![w] =
               generateResponse(nrNow + ExtraOffset, t.received + ExtraOffset, t)]
          /\ nrWorker' = [nrWorker EXCEPT ![w].stage = "send"]
          /\ UNCHANGED nrStats
  /\ UNCHANGED <<nrListener, held, tasks, inbox, answers, phcOffset, iface, nrProc, undeleted, nrNow>>
Sendto(w) ==
  /\ Alive /\ nrWorker[w].stage = "send"
  /\ nrWorker' = [nrWorker EXCEPT ![w] = NrIdle]
  /\ \/ /\ answers' = answers \cup {[to |-> nrWorker[w].task, packet |-> response[w]]}
        /\ nrStats' = [nrStats EXCEPT !.responses = @ + 1]
     \/ /\ nrStats' = [nrStats EXCEPT !.failed = @ + 1]
        /\ UNCHANGED answers
  /\ UNCHANGED <<nrListener, held, tasks, response, inbox, phcOffset, iface, nrProc, undeleted, nrNow>>

\* SimpleChecker.Check, once a minute: by then every listener has started.
Check ==
  /\ nrProc = "up" /\ \A ip \in IPs : nrListener[ip] # "starting"
  /\ \E ip \in IPs : nrListener[ip] = "gone"
  /\ nrProc' = "cancelled"
  /\ UNCHANGED <<nrListener, held, tasks, nrWorker, response, inbox, answers, nrStats, phcOffset, iface,
                 undeleted, nrNow>>
\* The measurement between PHC and system clock, once a second; a failure cancels the server.
MeasurePHC ==
  /\ nrProc = "up" /\ Skew # 0
  /\ \/ phcOffset' = -Skew /\ UNCHANGED nrProc
     \/ nrProc' = "cancelled" /\ UNCHANGED phcOffset
  /\ UNCHANGED <<nrListener, held, tasks, nrWorker, response, inbox, answers, nrStats, iface, undeleted, nrNow>>

\* Every 30 s, until the context is cancelled: a signal does not cancel it.
Advertise ==
  /\ nrProc \in {"up", "stopping"} /\ "route" \notin iface
  /\ iface' = iface \cup {"route"}
  /\ UNCHANGED <<nrListener, held, tasks, nrWorker, response, inbox, answers, nrStats, phcOffset, nrProc,
                 undeleted, nrNow>>

\* A signal, or the cancelled context.  Withdraw may fail, which is logged.
NrStop ==
  /\ nrProc \in {"up", "cancelled"}
  /\ nrProc' = "stopping"
  /\ iface' = iface \ {"route"} \/ UNCHANGED iface
  /\ UNCHANGED <<nrListener, held, tasks, nrWorker, response, inbox, answers, nrStats, phcOffset,
                 undeleted, nrNow>>
\* DeleteAllIPs, one address; a failure is logged and the loop goes on.
DeleteIP(ip) ==
  /\ nrProc = "stopping" /\ ip \in undeleted
  /\ undeleted' = undeleted \ {ip}
  /\ iface' = iface \ {ip} \/ UNCHANGED iface
  /\ UNCHANGED <<nrListener, held, tasks, nrWorker, response, inbox, answers, nrStats, phcOffset, nrProc, nrNow>>
Exit ==
  /\ nrProc = "stopping" /\ undeleted = {}
  /\ nrProc' = "exited"
  /\ UNCHANGED <<nrListener, held, tasks, nrWorker, response, inbox, answers, nrStats, phcOffset, iface,
                 undeleted, nrNow>>

NrTick ==
  /\ nrNow < NrMaxTime /\ nrNow' = nrNow + 1
  /\ UNCHANGED <<nrListener, held, tasks, nrWorker, response, inbox, answers, nrStats, phcOffset, iface,
                 nrProc, undeleted>>

NrWorkerStep(w) == WorkerTakes(w) \/ Serve(w) \/ Sendto(w)
NrNext ==
  \/ \E ip \in IPs : \/ StartListener(ip) \/ ListenerReads(ip) \/ ListenerHands(ip)
                     \/ ListenerEnds(ip) \/ DeleteIP(ip)
  \/ \E w \in NrWorkers : NrWorkerStep(w)
  \/ Check \/ MeasurePHC \/ Advertise \/ NrStop \/ Exit \/ NrTick
NrSpec == NrInit /\ [][NrNext]_nrVars

\* Goroutines that are ready run; the checker's and the shutdown's steps are taken.
NrFairness ==
  /\ \A ip \in IPs : WF_nrVars(StartListener(ip)) /\ WF_nrVars(ListenerHands(ip)) /\ WF_nrVars(DeleteIP(ip))
  /\ \A w \in NrWorkers : WF_nrVars(NrWorkerStep(w))
  /\ WF_nrVars(Check) /\ WF_nrVars(nrProc = "cancelled" /\ NrStop) /\ WF_nrVars(Exit)

------------------------------------------------------------------------------
\* Every answer belongs to one request: it goes back to where that request came from,
\* echoes its transmit time and version, and its times are that request's arrival and a
\* later departure, both moved by ExtraOffset; the arrival is in system time once the PHC
\* has been measured.
AnswersTheRequest ==
  /\ \A a \in answers :
       /\ a.packet.orig = a.to.id
       /\ a.packet.settings % 8 = modeServer /\ a.packet.settings \div 8 = (a.to.settings \div 8) % 8
       /\ a.to.offset = -Skew => a.packet.rx = a.to.at + ExtraOffset
       /\ a.to.offset = -Skew => a.packet.rx <= a.packet.tx
       /\ a.packet.ref <= a.packet.tx
  /\ \A a, b \in answers : a.to.addr = b.to.addr => a = b

\* No request is lost or counted twice between the listeners, the channel, the workers
\* and the counters, however they interleave.
NoRequestLost ==
  nrStats.requests =
      nrStats.responses + nrStats.invalidFormat + nrStats.failed + Len(tasks)
    + Cardinality({ip \in IPs : held[ip] # NoTask}) + Cardinality({w \in NrWorkers : nrWorker[w].task # NoTask})

\* A task between its listener and the end of serve.
InHand(addr) ==
  LET mine(t) == t # NoTask /\ t.addr = addr IN
  \/ \E ip \in IPs : mine(held[ip])
  \/ \E k \in DOMAIN tasks : mine(tasks[k])
  \/ \E w \in NrWorkers : mine(nrWorker[w].task)

\* A request that was read is answered, dropped or refused by the socket, unless the process
\* ends: a full channel delays a listener and never blocks it for good.
RequestsServed ==
  \A ip \in IPs, id \in NrIds : InHand(<<ip, id>>) ~> (~InHand(<<ip, id>>) \/ ~Alive)
==============================================================================
