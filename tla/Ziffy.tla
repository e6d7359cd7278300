-------------------------------- MODULE Ziffy --------------------------------
(* ziffy (cmd/ziffy): the sender traces one route per source port, with packets of
   growing hop limit; each switch that drops one returns it in an ICMP message with
   the correction field it had.  One goroutine traces each route, one reads ICMP
   and fills a queue per route, and the receiver answers at the destination. *)
EXTENDS Integers, Sequences, SequencesExt, FiniteSets, FiniteSetsExt

CONSTANTS
  Topologies,     \* what the network may be: route -> sequence of addresses, the destination last
  Residence,      \* address -> what its transparent clock adds to the correction field
  HopMax, PacketsPerHop, QueueCap, PTPRecvHandlers, cfThreshold,
  Spikes,         \* what a transient spike may add
  ZMaxFaults      \* bound: traces failed, packets lost, late, returned twice or with a spike

VARIABLES
  zNet,           \* [topology, icmp, faults, clean]
  zTrace,         \* route -> [pc, hop, i, destReached, switches]
  zQueue,         \* inputQueue: route -> sequence of SwitchTrafficInfo
  zMon,           \* monitorIcmp: [pc, held]
  zRecv,          \* the receiver: packets in its handlers
  zMain           \* Start: [pc, paths]

zVars == <<zNet, zTrace, zQueue, zMon, zRecv, zMain>>
HopMin == 1
Routes == DOMAIN zTrace
Nobody == [ip |-> "", corrField |-> 0, hop |-> 0, routeIdx |-> 0]

------------------------------------------------------------------------------
(* The sender. *)

ZifInit ==
  \E t \in Topologies :
    /\ zNet = [topology |-> t, icmp |-> {}, faults |-> 0, clean |-> TRUE]
    \* prepareTracing: one task per route
    /\ zTrace = [r \in DOMAIN t |-> [pc |-> "socket", hop |-> HopMin, i |-> 0, destReached |-> FALSE, switches |-> <<>>]]
    /\ zQueue = [r \in DOMAIN t |-> <<>>]
    /\ zMon = [pc |-> "read", held |-> Nobody]
    /\ zRecv = {} /\ zMain = [pc |-> "wait", paths |-> <<>>]
ZifOff ==
  /\ zNet = [topology |-> <<>>, icmp |-> {}, faults |-> 0, clean |-> TRUE]
  /\ zTrace = <<>> /\ zQueue = <<>> /\ zMon = [pc |-> "done", held |-> Nobody]
  /\ zRecv = {} /\ zMain = [pc |-> "off", paths |-> <<>>]

\* traceRoute up to its loop; a failure is logged and leaves routes[r] nil.
OpenSocket(r) ==
  /\ zTrace[r].pc = "socket"
  /\ \/ zTrace' = [zTrace EXCEPT ![r].pc = "send"] /\ UNCHANGED zNet
     \/ /\ zNet.faults < ZMaxFaults
        /\ zTrace' = [zTrace EXCEPT ![r].pc = "failed"] /\ zNet' = [zNet EXCEPT !.faults = @ + 1]
  /\ UNCHANGED <<zQueue, zMon, zRecv, zMain>>

\* The ICMP message that reports packet hop of route r from address ip; a switch may send it
\* twice, and it may be that the correction field had a spike.
CorrUpTo(r, hop) == MapThenSumSet(LAMBDA j : Residence[zNet.topology[r][j]], 1..(hop - 1))
Reported(r, hop, spike, copies) ==
  {[ip |-> zNet.topology[r][hop], corrField |-> CorrUpTo(r, hop) + spike, hop |-> hop, routeIdx |-> r, copy |-> c] :
     c \in 1..copies}
Info(m) == [ip |-> m.ip, corrField |-> m.corrField, hop |-> m.hop, routeIdx |-> m.routeIdx]

\* The loop's condition, and one packet: SequenceID is the hop, PortNumber the route.
SendPacket(r) ==
  /\ zTrace[r].pc = "send"
  /\ LET t == zTrace[r]
         far == Len(zNet.topology[r])
         hop == IF t.hop >= far THEN far ELSE t.hop     \* where the packet ends
     IN IF t.hop > HopMax \/ (t.destReached /\ t.i = 0)
        THEN zTrace' = [zTrace EXCEPT ![r].pc = "done"] /\ UNCHANGED <<zNet, zRecv>>
        ELSE /\ zTrace' = [zTrace EXCEPT ![r].pc = "wait"]
             /\ \/ /\ zNet.faults < ZMaxFaults       \* lost on the way
                   /\ zNet' = [zNet EXCEPT !.faults = @ + 1] /\ UNCHANGED zRecv
                \/ /\ hop < far
                   /\ \E spike \in Spikes, twice \in {0, 1} :
                        LET faults == zNet.faults + twice + (IF spike = 0 THEN 0 ELSE 1) IN
                        /\ faults <= ZMaxFaults
                        /\ zNet' = [zNet EXCEPT !.icmp = @ \cup Reported(r, hop, spike, 1 + twice),
                                                !.faults = faults, !.clean = @ /\ spike = 0]
                   /\ UNCHANGED zRecv
                \/ /\ hop = far
                   \* The receiver's incRunningHandlers: no handler for it, no answer.
                   /\ zRecv' = IF Cardinality(zRecv) < PTPRecvHandlers THEN zRecv \cup {<<r, t.hop, t.i>>} ELSE zRecv
                   /\ UNCHANGED zNet
  /\ UNCHANGED <<zQueue, zMon, zMain>>

\* handlePacket of the receiver returns the packet with its hop and route, and its handler ends.
handlePacket ==
  \E p \in zRecv :
    /\ zRecv' = zRecv \ {p}
    /\ zNet' = [zNet EXCEPT !.icmp = @ \cup
         {[Nobody EXCEPT !.ip = Last(zNet.topology[p[1]]), !.corrField = CorrUpTo(p[1], Len(zNet.topology[p[1]])),
                         !.hop = p[2], !.routeIdx = p[1]] @@ [copy |-> p[3]]}]
    /\ UNCHANGED <<zTrace, zQueue, zMon, zMain>>

\* The select of traceRoute: an answer of the queue, or IcmpTimeout.
NextPacket(t) ==
  IF t.i + 1 < PacketsPerHop THEN [t EXCEPT !.pc = "send", !.i = @ + 1]
  ELSE [t EXCEPT !.pc = "send", !.i = 0, !.hop = @ + 1]
WithSample(switches, sw) ==
  IF switches # <<>> /\ Last(switches).hop = sw.hop
  THEN IF sw.corrField < Last(switches).corrField THEN [switches EXCEPT ![Len(switches)] = sw] ELSE switches
  ELSE Append(switches, sw)
TakeAnswer(r) ==
  /\ zTrace[r].pc = "wait" /\ zQueue[r] # <<>>
  /\ LET sw == Head(zQueue[r]) IN
       /\ zTrace' = [zTrace EXCEPT ![r] = [NextPacket(@) EXCEPT !.switches = WithSample(@, sw),
                                             !.destReached = @ \/ sw.ip = Last(zNet.topology[r])]]
       /\ zQueue' = [zQueue EXCEPT ![r] = Tail(@)]
  /\ UNCHANGED <<zNet, zMon, zRecv, zMain>>
IcmpTimeout(r) ==
  /\ zTrace[r].pc = "wait" /\ zQueue[r] = <<>>
  /\ LET late == zMon.held.routeIdx = r \/ (\E m \in zNet.icmp : m.routeIdx = r) \/ (\E p \in zRecv : p[1] = r) IN
       /\ late => zNet.faults < ZMaxFaults
       /\ zNet' = [zNet EXCEPT !.faults = IF late THEN @ + 1 ELSE @]
  /\ zTrace' = [zTrace EXCEPT ![r] = NextPacket(@)]
  /\ UNCHANGED <<zQueue, zMon, zRecv, zMain>>

\* monitorIcmp and handleIcmpPacket: a message of this run, or one of another sender, which
\* is not ours to queue; the queue may be full.
ReadFrom ==
  /\ zMon.pc = "read"
  /\ \E m \in zNet.icmp :
       /\ zNet' = [zNet EXCEPT !.icmp = @ \ {m}]
       /\ zMon' = [pc |-> "queue", held |-> Info(m)]
  /\ UNCHANGED <<zTrace, zQueue, zRecv, zMain>>
QueueInfo ==
  /\ zMon.pc = "queue" /\ Len(zQueue[zMon.held.routeIdx]) < QueueCap
  /\ zQueue' = [zQueue EXCEPT ![zMon.held.routeIdx] = Append(@, zMon.held)]
  /\ zMon' = [pc |-> "select", held |-> Nobody]
  /\ UNCHANGED <<zNet, zTrace, zRecv, zMain>>

\* Mutant of SelectDoneOrRead: the reader does not look at icmpDone.
SelectRead ==
  /\ zMon.pc = "select"
  /\ zMon' = [zMon EXCEPT !.pc = "read"]
  /\ UNCHANGED <<zNet, zTrace, zQueue, zRecv, zMain>>

SelectDoneOrRead ==
  /\ zMon.pc = "select"
  /\ IF zMain.pc = "done"
     THEN zMon' = [zMon EXCEPT !.pc = "done"] /\ zMain' = [zMain EXCEPT !.pc = "returned"]
     ELSE zMon' = [zMon EXCEPT !.pc = "read"] /\ UNCHANGED zMain
  /\ UNCHANGED <<zNet, zTrace, zQueue, zRecv>>
\* Any other ICMP message wakes the reader.
OtherIcmp ==
  /\ zMon.pc = "read" /\ zMain.pc = "done"
  /\ zMon' = [zMon EXCEPT !.pc = "select"]
  /\ UNCHANGED <<zNet, zTrace, zQueue, zRecv, zMain>>

\* Start after the WaitGroup: popAllQueue puts what is queued into the routes, and panics on
\* the nil route of a trace that failed, as clearPaths does.
SortsByHop(switches) == {s \in SetToSeqs(ToSet([i \in DOMAIN switches |-> <<i, switches[i]>>])) :
                            \A i \in 1..(Len(s) - 1) : s[i][2].hop <= s[i + 1][2].hop}

Deduplicated(s) ==
  LET keep == SelectSeq([j \in DOMAIN s |-> j], LAMBDA j : j = Len(s) \/ s[j].hop # s[j + 1].hop)
  IN [k \in DOMAIN keep |-> s[keep[k]]]
popAllQueue ==
  /\ zMain.pc = "wait" /\ \A r \in Routes : zTrace[r].pc \in {"done", "failed"}
  /\ IF \E r \in Routes : zTrace[r].pc = "failed"
     THEN zMain' = [zMain EXCEPT !.pc = "panic"] /\ UNCHANGED <<zTrace, zQueue>>
     ELSE /\ zTrace' = [r \in Routes |-> [zTrace[r] EXCEPT !.switches = @ \o zQueue[r]]]
          /\ zQueue' = [r \in Routes |-> <<>>]
          /\ zMain' = [zMain EXCEPT !.pc = "sort"]
  /\ UNCHANGED <<zNet, zMon, zRecv>>
\* clearPaths: sort.Slice may put equal hops in any order; the last of them stays.
clearPaths ==
  /\ zMain.pc = "sort"
  /\ \E order \in [Routes -> UNION {SortsByHop(zTrace[r].switches) : r \in Routes}] :
       /\ \A r \in Routes : order[r] \in SortsByHop(zTrace[r].switches)
       /\ zMain' = [pc |-> "done",
            paths |-> [r \in Routes |-> Deduplicated([i \in DOMAIN order[r] |-> order[r][i][2]])]]
  /\ UNCHANGED <<zNet, zTrace, zQueue, zMon, zRecv>>

------------------------------------------------------------------------------
(* The report. *)

tcTrue == "On"
tcFalse == "Off"
tcNA == "Unknown"
correctionField(i, switches) == switches[i + 1].corrField - switches[i].corrField
NoInfo == [routes |-> 0, totalCF |-> 0, divRoutes |-> 0, last |-> TRUE]

\* Mutant of AddSwitch: a hop that did not answer goes unnoticed.
AddSwitchOverGaps(info, switches, i) ==
  LET last == switches[i].ip = Last(switches).ip
      cf == IF last THEN 0 ELSE correctionField(i, switches)
  IN IF info = NoInfo THEN [routes |-> 1, totalCF |-> cf, divRoutes |-> 1, last |-> last]
     ELSE [info EXCEPT !.routes = @ + 1,
             !.totalCF = IF last THEN @ ELSE @ + cf, !.divRoutes = IF last THEN @ ELSE @ + 1]

\* What switch i of a path adds to the information about its (host, hop) pair.
AddSwitch(info, switches, i) ==
  LET last == \/ switches[i].ip = Last(switches).ip
              \/ switches[i + 1].hop # switches[i].hop + 1
      cf == IF last THEN 0 ELSE correctionField(i, switches)
  IN IF info = NoInfo THEN [routes |-> 1, totalCF |-> cf, divRoutes |-> 1, last |-> last]
     ELSE [info EXCEPT !.routes = @ + 1,
             !.totalCF = IF last THEN @ ELSE @ + cf, !.divRoutes = IF last THEN @ ELSE @ + 1]
computeInfo(paths, pair) ==
  LET seen == FlattenSeq([r \in DOMAIN paths |->
                SelectSeq([i \in DOMAIN paths[r] |-> <<r, i>>],
                          LAMBDA x : paths[x[1]][x[2]].ip = pair[1] /\ paths[x[1]][x[2]].hop = pair[2])])
      info == FoldLeft(LAMBDA acc, x : AddSwitch(acc, paths[x[1]], x[2]), NoInfo, seen)
      avg == info.totalCF \div info.divRoutes
  IN IF info.last THEN [avgCF |-> 0, tcEnable |-> tcNA]
     ELSE [avgCF |-> avg, tcEnable |-> IF avg > cfThreshold \/ -avg > cfThreshold THEN tcTrue ELSE tcFalse]

ZifStep == \/ \E r \in Routes : OpenSocket(r) \/ SendPacket(r) \/ TakeAnswer(r) \/ IcmpTimeout(r)
           \/ handlePacket \/ QueueInfo \/ SelectDoneOrRead \/ ReadFrom \/ OtherIcmp \/ popAllQueue \/ clearPaths
ZifNext == ZifStep
ZifFairness == WF_zVars(ZifStep)

------------------------------------------------------------------------------
\* The path of a route lists switches by strictly growing hop, each of them one that really is
\* on that route at that hop: answers that come late, twice or to another route's packets are
\* put where they belong.
ZifPathsRight ==
  zMain.pc \in {"done", "returned"} =>
    \A r \in Routes :
      LET p == zMain.paths[r] IN
      \A i \in DOMAIN p :
        /\ p[i].routeIdx = r
        /\ p[i].ip = zNet.topology[r][IF p[i].hop > Len(zNet.topology[r]) THEN Len(zNet.topology[r]) ELSE p[i].hop]
        /\ i < Len(p) => p[i].hop < p[i + 1].hop

\* A switch is reported as a transparent clock only if it is one and as none only if it is
\* none, from any number of routes, gaps and late answers, when no correction field had a spike.
ZifVerdictRight ==
  (zMain.pc = "done" /\ zNet.clean) =>
    \A r \in Routes : \A i \in DOMAIN zMain.paths[r] :
      LET sw == zMain.paths[r][i]
          verdict == computeInfo([k \in 1..Cardinality(Routes) |-> zMain.paths[k]], <<sw.ip, sw.hop>>)
      IN /\ verdict.tcEnable = tcTrue => Residence[sw.ip] > cfThreshold
         /\ verdict.tcEnable = tcFalse => Residence[sw.ip] <= cfThreshold

\* Start returns whatever was lost, late or doubled, given that some ICMP message arrives in the
\* end; only a trace that could not open its socket ends it otherwise, with the nil route.
ZifReturns ==
  (zMain.pc = "wait") ~> (zMain.pc = "returned" \/ (zMain.pc = "panic" /\ \E r \in Routes : zTrace[r].pc = "failed"))

\* What ziffy reports of a switch is true of it: the paths are the routes, and the verdict on the
\* transparent clock follows from them.
ZifReportRight == ZifPathsRight /\ ZifVerdictRight
==============================================================================
