-------------------------------- MODULE NtpDate --------------------------------
(* ntpcheck utils ntpdate: a number of requests to an NTP server over one socket,
   with replies that may be lost, late or duplicated. *)
EXTENDS NtpProtocol, Sequences, FiniteSets

CONSTANTS
  NdRequests,   \* --requests
  NdMaxTime,    \* bound: the last instant
  ServerSkew    \* the server's clock minus the client's

VARIABLE nd     \* the loop, the network, the socket and the samples

NdOff == nd = [stage |-> "off"]
NdInit ==
  nd = [ stage |-> "send", i |-> 0, now |-> 1, sent |-> <<>>, flying |-> {}, dups |-> 0,
         queue |-> <<>>, samples |-> {}, skipped |-> 0 ]

\* The request of iteration i leaves with the client's time; the server stamps it on
\* arrival and on departure (here: the same instant) and echoes the origin.
NdSend ==
  /\ nd.stage = "send" /\ nd.i < NdRequests
  /\ \A k \in 1..Len(nd.sent) : nd.sent[k] < nd.now     \* an iteration takes time
  /\ nd' = [nd EXCEPT !.stage = "receive", !.sent = Append(@, nd.now),
              !.flying = @ \cup {[n |-> nd.i + 1, orig |-> nd.now, server |-> -1, copy |-> 0]}]
NdServer ==
  /\ \E p \in nd.flying : p.server = -1 /\
       nd' = [nd EXCEPT !.flying = (@ \ {p}) \cup {[p EXCEPT !.server = nd.now]}]
\* The network (external): a reply is delivered, lost or duplicated.
NdDeliver ==
  \E p \in nd.flying : p.server >= 0 /\
    nd' = [nd EXCEPT !.flying = @ \ {p}, !.queue = Append(@, [p EXCEPT !.copy = nd.now])]
NdLose == \E p \in nd.flying : nd' = [nd EXCEPT !.flying = @ \ {p}]
NdDuplicate ==
  /\ nd.dups = 0
  /\ \E p \in nd.flying : p.server >= 0 /\
       nd' = [nd EXCEPT !.dups = 1, !.queue = Append(@, [p EXCEPT !.copy = nd.now])]
NdTick == nd.now < NdMaxTime /\ nd' = [nd EXCEPT !.now = @ + 1]

\* The four timestamps of a reply, the client's receive time being the kernel's (copy).
Sample(p) ==
  LET t2 == p.server + ServerSkew IN
  [ n |-> p.n, iteration |-> nd.i + 1,
    delay |-> RoundTripDelay(p.orig, t2, t2, p.copy),
    offset |-> NtpOffset(p.orig, t2, t2, p.copy), t1 |-> p.orig, t2 |-> p.server, t4 |-> p.copy ]
NextIteration(samples) ==
  nd' = [nd EXCEPT !.stage = "send", !.i = @ + 1, !.samples = samples,
           !.queue = IF nd.queue = <<>> THEN @ ELSE Tail(@),
           !.skipped = IF nd.stage = "again" THEN @ + 1 ELSE @]

\* Mutant of NdReceive: the origin of the reply is not compared.
NdReceiveAny ==
  /\ nd.stage = "receive"
  /\ NextIteration(IF nd.queue = <<>> THEN nd.samples ELSE nd.samples \cup {Sample(Head(nd.queue))})

\* receiveNTPPacketWithRetries: the head of the socket's queue, or an error once the tries
\* are used up.  A reply to another request is dropped and one more packet is read.
NdReceive ==
  /\ nd.stage = "receive"
  /\ IF nd.queue = <<>> THEN NextIteration(nd.samples)
     ELSE LET p == Head(nd.queue) IN
          IF p.orig # nd.sent[nd.i + 1] THEN nd' = [nd EXCEPT !.stage = "again", !.queue = Tail(@)]
          ELSE NextIteration(nd.samples \cup {Sample(p)})
NdReceiveAgain ==
  /\ nd.stage = "again"
  /\ IF nd.queue = <<>> THEN nd' = [nd EXCEPT !.stage = "failed"]
     ELSE NextIteration(nd.samples \cup {Sample(Head(nd.queue))})
NdDone ==
  /\ nd.stage = "send" /\ nd.i = NdRequests
  /\ nd' = [nd EXCEPT !.stage = "done"]

NdNext ==
  /\ nd.stage \notin {"off", "done", "failed"}
  /\ \/ NdSend \/ NdServer \/ NdDeliver \/ NdLose \/ NdDuplicate \/ NdTick
     \/ NdReceive \/ NdReceiveAgain \/ NdDone

\* A sample measures one exchange, whatever was lost, late or duplicated: the four
\* timestamps are of one request and one reply, so the delay is what the network took and
\* the offset misses the server's skew by at most half of it.
SampleIsOneExchange ==
  nd.stage # "off" =>
    \A s \in nd.samples :
      /\ s.t1 = nd.sent[s.n] /\ s.t1 <= s.t2 /\ s.t2 <= s.t4
      /\ s.delay = s.t4 - s.t1
      /\ 2 * (s.offset - ServerSkew) <= s.delay + 1 /\ 2 * (ServerSkew - s.offset) <= s.delay + 1

\* A sample of an older request is only taken in an iteration that had already dropped one
\* packet, and no iteration takes two.
StaleOnlyAfterSkip ==
  nd.stage # "off" =>
    /\ Cardinality({s \in nd.samples : s.n # s.iteration}) <= nd.skipped
    /\ Cardinality(nd.samples) <= nd.i
    /\ \A s \in nd.samples : s.n <= s.iteration

\* ntpdate's samples and the NTP arithmetic under them: a sample is one exchange, an older
\* request's only after a packet was dropped, and the time format and the offset formula lose no
\* more than a nanosecond and half the delay.
NtpMeasurementRight ==
  SampleIsOneExchange /\ StaleOnlyAfterSkip /\ NtpTimeRoundTrip /\ SettingsAsDocumented /\ OffsetWithinHalfDelay
==============================================================================
