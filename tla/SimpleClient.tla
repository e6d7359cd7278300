----------------------------- MODULE SimpleClient -----------------------------
(* The simple two-step unicast PTP client (ptp/simpleclient): the handshake of
   three grants, the two receivers that feed the main loop through a channel, and
   the measurements.  Corrections are zero; times are ticks. *)
EXTENDS Integers, Sequences, SequencesExt, FiniteSets, FiniteSetsExt

CONSTANTS
  ScDelays,      \* how long an event message may travel
  ScSkew,        \* the client's clock minus the server's
  ScChan,        \* capacity of inChan, 10 in the code
  ScMaxAsks,     \* bound: requests for Announce
  ScMaxLosses,   \* bound: messages the network loses
  ScMaxSyncs     \* bound: Syncs of the server; sequence numbers do not wrap within it

VARIABLES
  sc,            \* the client: [pc, state, genSequence, eventSequence, utc, s2c, c2s, result]
  scIn,          \* inChan
  scGen, scEvent,\* what has arrived on the two ports
  scSrv          \* the server and the network: [granted, syncs, lost, now]

sclVars == <<sc, scIn, scGen, scEvent, scSrv>>

NoTS == -100

------------------------------------------------------------------------------
(* measurements. *)

ScEntry(f, seq, fields) == IF seq \in DOMAIN f THEN f[seq] ELSE [k \in fields |-> NoTS]
Put(f, seq, v) == [s \in DOMAIN f \cup {seq} |-> IF s = seq THEN v ELSE f[s]]
addSync(f, seq, ts) == Put(f, seq, [ScEntry(f, seq, {"t1", "t2"}) EXCEPT !.t2 = ts])

\* Mutant of addFollowUp: taken to belong to the Sync that came last.
addFollowUpLast(f, seq, ts) ==
  LET s == Max({seq} \cup DOMAIN f) IN Put(f, s, [ScEntry(f, s, {"t1", "t2"}) EXCEPT !.t1 = ts])

addFollowUp(f, seq, ts) == Put(f, seq, [ScEntry(f, seq, {"t1", "t2"}) EXCEPT !.t1 = ts])
addDelayReq(f, seq, ts) == Put(f, seq, [ScEntry(f, seq, {"t3", "t4"}) EXCEPT !.t3 = ts])
addDelayResp(f, seq, ts) == Put(f, seq, [ScEntry(f, seq, {"t3", "t4"}) EXCEPT !.t4 = ts])

NoResult == [Delay |-> NoTS]
\* Durations are doubled, so that half of one is exact.
latest(s2c, c2s) ==
  LET syncs == {q \in DOMAIN s2c : s2c[q].t1 # NoTS /\ s2c[q].t2 # NoTS}
      delays == {q \in DOMAIN c2s : c2s[q].t3 # NoTS /\ c2s[q].t4 # NoTS}
      lastSync == s2c[CHOOSE q \in syncs : \A p \in syncs : s2c[p].t2 <= s2c[q].t2]
      lastDelay == c2s[CHOOSE q \in delays : \A p \in delays : c2s[p].t4 <= c2s[q].t4]
      clientToServerDiff == lastDelay.t4 - lastDelay.t3
      serverToClientDiff == lastSync.t2 - lastSync.t1
      delay2 == clientToServerDiff + serverToClientDiff
  IN IF syncs = {} \/ delays = {} THEN NoResult
     ELSE [Delay |-> delay2, Offset |-> 2 * serverToClientDiff - delay2, Timestamp |-> lastDelay.t4]

------------------------------------------------------------------------------

ScStart(pc) ==
  /\ sc = [ pc |-> pc, state |-> "init", genSequence |-> 0, eventSequence |-> 0, utc |-> 0,
            s2c |-> <<>>, c2s |-> <<>>, result |-> NoResult ]
  /\ scIn = <<>> /\ scGen = <<>> /\ scEvent = <<>>
  /\ scSrv = [granted |-> {}, syncs |-> 0, lost |-> 0, now |-> 0]
ScInit == ScStart("running")
ScOff == ScStart("returned")

(* The server (external) answers a signaling request at once, or the answer is lost.  It
   grants a type with duration 0 when it is drained. *)
Losses == IF scSrv.lost < ScMaxLosses THEN {0, 1} ELSE {0}
Carried(queue, m, loss) == IF loss = 1 THEN queue ELSE Append(queue, m)
reqUnicast(what) ==
  \E d \in {0, 1}, loss \in Losses :
    /\ scGen' = Carried(scGen, [type |-> "grant", what |-> what, Duration |-> d], loss)
    /\ scSrv' = [scSrv EXCEPT !.granted = IF d = 1 THEN @ \cup {what} ELSE @, !.lost = @ + loss]
\* The acknowledgement carries the TLV type of a cancel, and the server takes it for one.
reqAckCancelUnicast(what) ==
  scSrv' = [scSrv EXCEPT !.granted = @ \ {what}] /\ UNCHANGED scGen

(* The two receivers, each of which waits when inChan is full.  Two messages on their way
   may overtake one another. *)
ReceiveGeneral ==
  /\ sc.pc = "running" /\ Len(scIn) < ScChan
  /\ \E k \in DOMAIN scGen :
       k <= 2 /\ scIn' = Append(scIn, scGen[k]) /\ scGen' = RemoveAt(scGen, k)
  /\ UNCHANGED <<sc, scEvent, scSrv>>
ReceiveEvent ==
  /\ sc.pc = "running" /\ scEvent # <<>> /\ Len(scIn) < ScChan
  /\ scIn' = Append(scIn, Head(scEvent)) /\ scEvent' = Tail(scEvent)
  /\ UNCHANGED <<sc, scGen, scSrv>>

(* The main loop: one message of inChan per iteration. *)
Returned(r) == [sc EXCEPT !.pc = "returned", !.state = r]
Incoming(type) == sc.pc = "running" /\ scIn # <<>> /\ Head(scIn).type = type /\ scIn' = Tail(scIn)

handleGrantUnicast ==
  /\ Incoming("grant")
  /\ LET m == Head(scIn)
         next == IF m.what = "Announce" THEN "Sync" ELSE "DelayResp"
     IN IF m.Duration = 0
        THEN sc' = Returned("denied") /\ UNCHANGED <<scGen, scSrv>>
        ELSE IF m.what = "DelayResp"
        THEN UNCHANGED <<sc, scGen, scSrv>>
        ELSE /\ sc' = [sc EXCEPT !.state = IF m.what = "Announce" THEN "inProgress" ELSE @,
                                 !.genSequence = @ + 1]
             /\ reqUnicast(next)
  /\ UNCHANGED scEvent
handleCancelUnicast ==
  /\ Incoming("cancel")
  /\ sc' = [sc EXCEPT !.state = "done", !.genSequence = @ + 1]
  /\ reqAckCancelUnicast(Head(scIn).what)
  /\ UNCHANGED scEvent
handleAnnounce ==
  /\ Incoming("announce")
  /\ sc' = [sc EXCEPT !.utc = Head(scIn).utc]
  /\ UNCHANGED <<scGen, scEvent, scSrv>>
handleSync ==
  /\ Incoming("sync")
  /\ sc' = [sc EXCEPT !.s2c = addSync(@, Head(scIn).seq, Head(scIn).ts)]
  /\ UNCHANGED <<scGen, scEvent, scSrv>>

handleDelay ==
  /\ Incoming("delayResp")
  /\ LET c2s == addDelayResp(sc.c2s, Head(scIn).seq, Head(scIn).ts)
         res == latest(sc.s2c, c2s)
     IN sc' = [sc EXCEPT !.c2s = c2s, !.result = IF res = NoResult THEN @ ELSE res]
  /\ UNCHANGED <<scGen, scEvent, scSrv>>
\* The DelayReq leaves at a time of its own, and its DelayResp may be lost.
handleFollowUp ==
  /\ Incoming("followUp")
  /\ \E d \in ScDelays, loss \in Losses :
       LET seq == sc.eventSequence
           t3 == scSrv.now + ScSkew
       IN /\ sc' = [sc EXCEPT !.s2c = addFollowUp(@, Head(scIn).seq, Head(scIn).ts),
                              !.c2s = addDelayReq(@, seq, t3), !.eventSequence = @ + 1]
          /\ scGen' = IF "DelayResp" \notin scSrv.granted THEN scGen
                      ELSE Carried(scGen, [type |-> "delayResp", seq |-> seq, ts |-> scSrv.now + d], loss)
          /\ scSrv' = [scSrv EXCEPT !.now = @ + d, !.lost = @ + loss]
  /\ UNCHANGED scEvent
\* No message waits: ask for Announce again, once a second, or leave.
runInternal ==
  /\ sc.pc = "running" /\ scIn = <<>>
  /\ \/ /\ sc.state = "init" /\ sc.genSequence < ScMaxAsks
        /\ sc' = [sc EXCEPT !.genSequence = @ + 1]
        /\ reqUnicast("Announce")
     \/ /\ sc.state = "done"
        /\ sc' = Returned("done") /\ UNCHANGED <<scGen, scSrv>>
  /\ UNCHANGED <<scIn, scEvent>>
\* The context's deadline.
ScTimeout ==
  /\ sc.pc = "running"
  /\ sc' = Returned("timeout")
  /\ UNCHANGED <<scIn, scGen, scEvent, scSrv>>

(* What the server sends by itself (external). *)
ServerAnnounces ==
  /\ "Announce" \in scSrv.granted /\ sc.utc = 0 /\ sc.pc = "running" /\ scGen = <<>>
  /\ scGen' = Append(scGen, [type |-> "announce", utc |-> 37])
  /\ UNCHANGED <<sc, scIn, scEvent, scSrv>>
\* Sync travels to the event port; either of Sync and FollowUp may be lost.
ServerSyncs ==
  /\ "Sync" \in scSrv.granted /\ scSrv.syncs < ScMaxSyncs /\ sc.pc = "running"
  /\ \E d \in ScDelays, loss \in Losses, followLoss \in Losses :
       /\ scEvent' = Carried(scEvent, [type |-> "sync", seq |-> scSrv.syncs, ts |-> scSrv.now + d + ScSkew], loss)
       /\ scGen' = Carried(scGen, [type |-> "followUp", seq |-> scSrv.syncs, ts |-> scSrv.now], followLoss)
       /\ scSrv' = [scSrv EXCEPT !.syncs = @ + 1, !.now = @ + d, !.lost = @ + loss + followLoss]
  /\ UNCHANGED <<sc, scIn>>
ServerCancels ==
  /\ scSrv.granted = {"Announce", "Sync", "DelayResp"} /\ scSrv.syncs = ScMaxSyncs /\ sc.pc = "running"
  /\ scGen' = Append(scGen, [type |-> "cancel", what |-> "Sync"])
  /\ scSrv' = [scSrv EXCEPT !.granted = @ \ {"Sync"}]
  /\ UNCHANGED <<sc, scIn, scEvent>>

ScClient == handleGrantUnicast \/ handleCancelUnicast \/ handleAnnounce \/ handleSync \/ handleDelay
              \/ handleFollowUp \/ runInternal
ScNext == ReceiveGeneral \/ ReceiveEvent \/ ScClient \/ ScTimeout
            \/ ServerAnnounces \/ ServerSyncs \/ ServerCancels

------------------------------------------------------------------------------
\* Whatever is lost, late or out of order between the two ports, a measurement is made of a
\* Sync and its own FollowUp and of a DelayReq and its own DelayResp: the offset it reports
\* is the true one to within half the difference of two travel times.
ScOffsetIsRight ==
  sc.result # NoResult =>
    LET error == sc.result.Offset - 2 * ScSkew IN
    \E d, e \in ScDelays : error = d - e /\ sc.result.Delay = d + e

==============================================================================
