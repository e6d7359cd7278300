---------------------------- MODULE SptpExchange ----------------------------
(***************************************************************************)
(* One SPTP client (ptp/sptp/client) and the ptp4u server that answers it, *)
(* over a network that loses, delays and reorders packets. Each RunOnce    *)
(* sends a DelayReq; the server answers with a Sync, which carries T4, and *)
(* an Announce, which carries T1 and the correction of the request. Client *)
(* and server each have several goroutines, and a step is what one of them *)
(* does between two points where another can interfere.                    *)
(*                                                                         *)
(* A timestamp is the name of the event it was taken of: T3, T4 and the    *)
(* correction C2 name a request (the number of its RunOnce), T1 and T2 a   *)
(* Sync (its number). 0 is the zero time.                                  *)
(*                                                                         *)
(* The client calls RunOnce again only after the goroutine of the last one *)
(* has got its TX timestamp: with the default configuration that takes at  *)
(* most half of the interval. The server already has the subscription of   *)
(* the client; Ptp4u is about how it comes and goes.                       *)
(***************************************************************************)
EXTENDS Integers

CONSTANTS MaxRuns,     \* bound on the calls of RunOnce
          SeqCount,    \* how many sequence IDs GenerateMaskAndValue leaves
          ChanSize,    \* the capacity of inChan, 100 in the code
          Handlers,    \* the goroutines of handleEventMessages
          Overlap      \* whether a request may arrive while one is answered

ASSUME ConstantsAssumption ==
    /\ MaxRuns \in Nat \ {0} /\ SeqCount \in Nat \ {0} /\ ChanSize \in Nat \ {0}
    /\ Handlers # {} /\ Overlap \in BOOLEAN

VARIABLES
    eventSequence, started,
    routine,       \* the goroutine of each RunOnce: pc and the sequence ID it used
    ctxDone,       \* the contexts that are done
    measurement,   \* result.Measurement of each RunOnce, or None
    returned,      \* what each RunOnce returned: None yet, Failed or a measurement
    data,          \* m.data, with zero entries for absent ones
    inChan,        \* the number of tokens in it
    listener,      \* the two goroutines of RunListener: pc and packet
    arrived,       \* the number of Syncs received, the time of T2
    handler,       \* the goroutines of handleEventMessages: pc and packet
    syncP, announceP, worker,  \* the subscription's packets and the send worker
    sent,          \* the number of Syncs sent
    requests, syncs, announces   \* the packets in the network

client == <<eventSequence, started, routine, ctxDone, measurement, returned>>
received == <<data, inChan, listener, arrived>>
server == <<handler, syncP, announceP, worker, sent>>
network == <<requests, syncs, announces>>
vars == <<client, received, server, network>>

Runs == 1..MaxRuns
Seqs == 0..(SeqCount - 1)
None == [none |-> TRUE]
Failed == [error |-> TRUE]
Zero == [t1 |-> 0, t2 |-> 0, at |-> 0, t3 |-> 0, t4 |-> 0, c2 |-> 0, announce |-> FALSE]

Idle == [pc |-> "idle"]

Init ==
    /\ eventSequence \in Seqs /\ started = 0
    /\ routine = [i \in Runs |-> [pc |-> "none", seq |-> 0]]
    /\ ctxDone = {} /\ measurement = [i \in Runs |-> None] /\ returned = [i \in Runs |-> None]
    /\ data = [q \in Seqs |-> Zero] /\ inChan = 0 /\ arrived = 0
    /\ listener = [event |-> Idle, general |-> Idle]
    /\ handler = [h \in Handlers |-> Idle] /\ worker = Idle /\ sent = 0
    /\ syncP = [seq |-> 0, t4 |-> 0] /\ announceP = [seq |-> 0, c2 |-> 0]
    /\ requests = {} /\ syncs = {} /\ announces = {}

-----------------------------------------------------------------------------
(* measurements.go *)
Complete(d) == d.t1 # 0 /\ d.t2 # 0 /\ d.t3 # 0 /\ d.t4 # 0 /\ d.announce

\* The complete entries that arrived last.
latest ==
    LET complete == {q \in Seqs : Complete(data[q])}
    IN  {data[q] : q \in {r \in complete : \A o \in complete : data[o].at <= data[r].at}}

\* Mutant of cleanup: the entries of the last exchange stay.
cleanupNothing == data

cleanup == [q \in Seqs |-> Zero]

-----------------------------------------------------------------------------
(* RunOnce and its goroutine, client.go *)
Waiting(i) == i = started /\ returned[i] = None

\* RunOnce up to the select it waits in.
RunOnce ==
    LET i == started + 1
    IN  /\ started < MaxRuns
        /\ started > 0 => /\ ~Waiting(started)
                          /\ routine[started].pc \in {"loop", "error", "ok", "done"}
        /\ started' = i
        /\ data' = cleanup
        /\ routine' = [routine EXCEPT ![i].pc = "send"]
        /\ UNCHANGED <<eventSequence, ctxDone, measurement, returned, inChan, listener, arrived,
                       server, network>>

Goto(i, pc) == routine' = [routine EXCEPT ![i].pc = pc]

\* SendEventMsg until the packet is out.
SendEventMsg(i) ==
    /\ routine[i].pc = "send"
    /\ routine' = [routine EXCEPT ![i] = [pc |-> "txts", seq |-> eventSequence]]
    /\ requests' = requests \cup {[seq |-> eventSequence, req |-> i]}
    /\ UNCHANGED <<eventSequence, started, ctxDone, measurement, returned, received, server,
                   syncs, announces>>

incrementSequence == (eventSequence + 1) % SeqCount

\* The rest of SendEventMsg: the TX timestamp is read, or not.
TxTimestamp(i) ==
    /\ routine[i].pc = "txts"
    /\ eventSequence' = incrementSequence
    /\ Goto(i, "t3") \/ Goto(i, "error")
    /\ UNCHANGED <<started, ctxDone, measurement, returned, received, server, network>>

addT3(i) ==
    /\ routine[i].pc = "t3"
    /\ data' = [data EXCEPT ![routine[i].seq].t3 = i]
    /\ Goto(i, "loop")
    /\ UNCHANGED <<eventSequence, started, ctxDone, measurement, returned, inChan, listener, arrived,
                   server, network>>

\* case <-ctx.Done() of the goroutine.
LoopDone(i) ==
    /\ routine[i].pc = "loop" /\ i \in ctxDone
    /\ Goto(i, "error")
    /\ UNCHANGED <<eventSequence, started, ctxDone, measurement, returned, received, server, network>>

\* case <-c.inChan of the goroutine.
LoopIn(i) ==
    /\ routine[i].pc = "loop" /\ inChan > 0
    /\ inChan' = inChan - 1
    /\ \/ latest = {} /\ UNCHANGED <<routine, measurement>>
       \/ \E m \in latest : measurement' = [measurement EXCEPT ![i] = m] /\ Goto(i, "ok")
    /\ UNCHANGED <<eventSequence, started, ctxDone, returned, data, listener, arrived, server, network>>

\* The goroutine sends on errchan, which has no buffer, and RunOnce returns.
Return(i) ==
    /\ Waiting(i) /\ routine[i].pc \in {"error", "ok"}
    /\ returned' = [returned EXCEPT ![i] = IF routine[i].pc = "ok" THEN measurement[i] ELSE Failed]
    /\ Goto(i, "done") /\ ctxDone' = ctxDone \cup {i}
    /\ UNCHANGED <<eventSequence, started, measurement, received, server, network>>

\* Mutant of Timeout: RunOnce's context has no timeout.
TimeoutNever(i) == FALSE /\ UNCHANGED vars

Timeout(i) ==
    /\ Waiting(i) /\ i \notin ctxDone
    /\ ctxDone' = ctxDone \cup {i}
    /\ UNCHANGED <<eventSequence, started, routine, measurement, returned, received, server, network>>

\* case <-ctx.Done() of RunOnce.
ReturnTimeout(i) ==
    /\ Waiting(i) /\ i \in ctxDone
    /\ returned' = [returned EXCEPT ![i] = IF measurement[i] = None THEN Failed ELSE measurement[i]]
    /\ UNCHANGED <<eventSequence, started, routine, ctxDone, measurement, received, server, network>>

-----------------------------------------------------------------------------
(* RunListener, with handleSync and handleAnnounce: every add takes the mutex *)
(* of the measurements on its own.                                            *)
Add(q, field, value) == data' = [data EXCEPT ![q][field] = value]

Listen(l, pc) == listener' = [listener EXCEPT ![l].pc = pc]

\* A listener reads a packet; one that is never read is lost.
Deliver(l, pc, p, net) ==
    /\ listener[l].pc = "idle"
    /\ listener' = [listener EXCEPT ![l] = [pc |-> pc, packet |-> p]]
    /\ net' = net \ {p}

addT2andCF1(p) ==
    /\ Deliver("event", "t4", p, syncs)
    /\ arrived' = arrived + 1
    /\ data' = [data EXCEPT ![p.seq].t2 = p.id, ![p.seq].at = arrived']
    /\ UNCHANGED <<client, inChan, server, requests, announces>>

addT4 ==
    /\ listener.event.pc = "t4"
    /\ LET p == listener.event.packet IN Add(p.seq, "t4", p.t4)
    /\ Listen("event", "signal")
    /\ UNCHANGED <<client, inChan, arrived, server, network>>

addT1(p) ==
    /\ Deliver("general", "c2", p, announces)
    /\ Add(p.seq, "t1", p.t1)
    /\ UNCHANGED <<client, inChan, arrived, server, requests, syncs>>

\* Mutant of addCF2: handleAnnounce adds the announce and no correction.
addCF2Not ==
    /\ listener.general.pc = "c2"
    /\ Listen("general", "announce")
    /\ UNCHANGED <<client, data, inChan, arrived, server, network>>

addCF2 ==
    /\ listener.general.pc = "c2"
    /\ LET p == listener.general.packet IN Add(p.seq, "c2", p.c2)
    /\ Listen("general", "announce")
    /\ UNCHANGED <<client, inChan, arrived, server, network>>

addAnnounce ==
    /\ listener.general.pc = "announce"
    /\ Add(listener.general.packet.seq, "announce", TRUE)
    /\ Listen("general", "signal")
    /\ UNCHANGED <<client, inChan, arrived, server, network>>

\* cc.inChan <- true
Signal(l) ==
    /\ listener[l].pc = "signal" /\ inChan < ChanSize
    /\ inChan' = inChan + 1
    /\ listener' = [listener EXCEPT ![l] = Idle]
    /\ UNCHANGED <<client, data, arrived, server, network>>

-----------------------------------------------------------------------------
(* ptp4u: handleEventMessages fills the packets of the subscription and      *)
(* queues it; the send worker reads them later. Nothing locks the packets.   *)
ServerIdle == worker.pc = "idle" /\ \A h \in Handlers : handler[h].pc = "idle"

handleEventMessages(h, p) ==
    /\ handler[h].pc = "idle" /\ (Overlap \/ ServerIdle)
    /\ handler' = [handler EXCEPT ![h] = [pc |-> "seq", packet |-> p]]
    /\ requests' = requests \ {p}
    /\ UNCHANGED <<client, received, syncP, announceP, worker, sent, syncs, announces>>

\* One assignment of UpdateSyncDelayReq or UpdateAnnounceDelayReq.
UpdateSyncDelayReq(h) ==
    /\ \/ /\ handler[h].pc = "seq"
          /\ syncP' = [syncP EXCEPT !.seq = handler[h].packet.seq]
          /\ handler' = [handler EXCEPT ![h].pc = "t4"]
       \/ /\ handler[h].pc = "t4"
          /\ syncP' = [syncP EXCEPT !.t4 = handler[h].packet.req]
          /\ handler' = [handler EXCEPT ![h].pc = "announceSeq"]
    /\ UNCHANGED <<client, received, announceP, worker, sent, network>>

UpdateAnnounceDelayReq(h) ==
    /\ \/ /\ handler[h].pc = "announceSeq"
          /\ announceP' = [announceP EXCEPT !.seq = handler[h].packet.seq]
          /\ handler' = [handler EXCEPT ![h].pc = "c2"]
       \/ /\ handler[h].pc = "c2"
          /\ announceP' = [announceP EXCEPT !.c2 = handler[h].packet.req]
          /\ handler' = [handler EXCEPT ![h].pc = "once"]
    /\ UNCHANGED <<client, received, syncP, worker, sent, network>>

\* Once: the queue has no buffer by default, so the worker has to be there.
Once(h) ==
    /\ handler[h].pc = "once" /\ worker.pc = "idle"
    /\ handler' = [handler EXCEPT ![h] = Idle]
    /\ worker' = [pc |-> "sync"]
    /\ UNCHANGED <<client, received, syncP, announceP, sent, network>>

\* The worker serialises the Sync, first the header and then the body, and sends it.
SerialiseSync ==
    /\ worker.pc = "sync"
    /\ worker' = [pc |-> "send", seq |-> syncP.seq]
    /\ UNCHANGED <<client, received, handler, syncP, announceP, sent, network>>

SendSync ==
    /\ worker.pc = "send"
    /\ sent' = sent + 1
    /\ syncs' = syncs \cup {[seq |-> worker.seq, t4 |-> syncP.t4, id |-> sent + 1]}
    /\ worker' = [pc |-> "announce"]
    /\ UNCHANGED <<client, received, handler, syncP, announceP, requests, announces>>

\* UpdateAnnounceFollowUp and the Announce, if the TX timestamp of the Sync was read.
SendAnnounce ==
    /\ worker.pc = "announce"
    /\ worker' = Idle
    /\ \/ announces' = announces \cup {[seq |-> announceP.seq, c2 |-> announceP.c2, t1 |-> sent]}
       \/ UNCHANGED announces
    /\ UNCHANGED <<client, received, handler, syncP, announceP, sent, requests, syncs>>

-----------------------------------------------------------------------------
Routine(i) ==
    \/ SendEventMsg(i) \/ TxTimestamp(i) \/ addT3(i) \/ LoopDone(i) \/ LoopIn(i)

Client == \E i \in Runs : Routine(i) \/ Return(i) \/ Timeout(i) \/ ReturnTimeout(i)

Listener ==
    \/ \E p \in syncs : addT2andCF1(p)
    \/ \E p \in announces : addT1(p)
    \/ addT4 \/ addCF2 \/ addAnnounce
    \/ \E l \in {"event", "general"} : Signal(l)

Server ==
    \/ \E h \in Handlers :
          \/ \E p \in requests : handleEventMessages(h, p)
          \/ UpdateSyncDelayReq(h) \/ UpdateAnnounceDelayReq(h) \/ Once(h)
    \/ SerialiseSync \/ SendSync \/ SendAnnounce

Next == RunOnce \/ Client \/ Listener \/ Server

Spec == Init /\ [][Next]_vars

\* Goroutines are scheduled and timers fire. Nothing is assumed of the network,
\* the server or which ready case a select takes.
Fairness == \A i \in Runs : WF_vars(Timeout(i)) /\ WF_vars(Return(i) \/ ReturnTimeout(i))

FairSpec == Spec /\ Fairness

-----------------------------------------------------------------------------
(* Properties *)

\* measurements.go:41-46: the timestamps of a measurement RunOnce returns belong
\* together. T1 and T2 are those of one Sync; T4 and the correction are those of
\* the request whose departure is T3.
MeasurementConsistent ==
    \A i \in Runs : returned[i] \notin {None, Failed} =>
        LET m == returned[i] IN m.t1 = m.t2 /\ m.t4 = m.t3 /\ m.c2 = m.t3

\* RunOnce returns a measurement of its own request, never one of an earlier
\* call whose answer came late: no offset is given to the servo twice.
MeasurementFresh ==
    \A i \in Runs : returned[i] \notin {None, Failed} => returned[i].t3 = i

\* Every RunOnce returns, whatever is lost: runInternal waits for all of them.
RunReturns == \A i \in Runs : (started = i) ~> (returned[i] # None)
=============================================================================
