---------------------------- MODULE Linearizability ----------------------------
(* The linearizability tests (ptp/linearizability): the tester that sends one
   DelayReq and compares its own transmit time with the server's receive time,
   again with a subscription when the first attempt times out, and the SPTP variant
   that reads the client's statistics. *)
EXTENDS Integers, Sequences, SequencesExt, FiniteSets, FiniteSetsExt

CONSTANTS
  LinTests,       \* bound: calls of RunTest
  LinMaxSends,    \* bound: messages sent in all
  LinTravel,      \* travel times of a DelayReq, all positive
  LinBehind,      \* how far behind the server's clock may be
  SptpStats,      \* statistics the SPTP client may report: sequences of [GMAddress, Offset, ClockClass, Error]
  LinMaxGMOffset  \* the bound on the offset in the SPTP test

VARIABLES
  lin,            \* [pc, state, sub, sequence, sendTS, result, verdicts, server]
  linIn,          \* inChan
  linWire         \* answers of the server on their way: a set of messages

linVars == <<lin, linIn, linWire>>

NoTest == [Server |-> "none"]

Verdict(tr) == [Good |-> tr.Error = "" /\ tr.RX - tr.TX > 0, Error |-> tr.Error, tr |-> tr]

------------------------------------------------------------------------------
(* PTP4lTester. *)

LinStart(pc) ==
  /\ \E behind \in LinBehind, subscribed \in BOOLEAN :
       lin = [ pc |-> pc, state |-> "init", sub |-> FALSE, sequence |-> 0, sendTS |-> <<>>,
               result |-> NoTest, verdicts |-> <<>>,
               server |-> [behind |-> behind, subscribed |-> subscribed, now |-> 0] ]
  /\ linIn = <<>> /\ linWire = {}
\* The SPTP test is one step: what it makes of the statistics.
SptpStart == \E s \in SptpStats : lin = [pc |-> "sptp", stats |-> s, verdicts |-> <<>>] /\ linIn = <<>> /\ linWire = {}
LinInit == LinStart("idle") \/ SptpStart
LinOff == lin = [pc |-> "off", verdicts |-> <<>>] /\ linIn = <<>> /\ linWire = {}

\* RunTest up to the loop of its first runSingleTest.
RunTest ==
  /\ lin.pc = "idle" /\ Len(lin.verdicts) < LinTests
  /\ lin' = [lin EXCEPT !.pc = "loop", !.state = "init", !.sub = FALSE]
  /\ UNCHANGED <<linIn, linWire>>

\* sendDelay: the server (external) answers when there is a subscription; the answer may be
\* lost, and duplicated.
sendDelay(l) ==
  [l EXCEPT !.sendTS = [q \in DOMAIN @ \cup {l.sequence} |-> IF q = l.sequence THEN l.server.now ELSE @[q]],
            !.sequence = @ + 1, !.server.now = @ + 1]
DelayAnswers(l) ==
  {{}} \cup {{[type |-> "delayResp", seq |-> l.sequence, RX |-> l.server.now + d - l.server.behind, copy |-> c]
               : c \in copies} :
             d \in LinTravel, copies \in {{1}, {1, 2}}}

\* The default branch of the loop, taken when inChan is empty.
LinSend ==
  /\ lin.pc = "loop" /\ linIn = <<>> /\ lin.state = "init" /\ lin.sequence < LinMaxSends
  /\ IF lin.sub
     THEN /\ lin' = [lin EXCEPT !.result = NoTest, !.state = "inProgress", !.sequence = @ + 1]
          /\ \E grants \in {{}, {0}, {60}} :
               linWire' = linWire \cup {[type |-> "grant", seq |-> lin.sequence, Duration |-> d] : d \in grants}
     ELSE /\ lin' = [sendDelay(lin) EXCEPT !.result = NoTest, !.state = "inProgress"]
          /\ \E a \in DelayAnswers(lin) : linWire' = linWire \cup (IF lin.server.subscribed THEN a ELSE {})
  /\ UNCHANGED linIn
runListener ==
  /\ lin.pc \in {"idle", "loop"}
  /\ \E m \in linWire : linWire' = linWire \ {m} /\ linIn' = Append(linIn, m)
  /\ UNCHANGED lin

\* runSingleTest returns; a deadline leads RunTest to a second attempt with a subscription.
LinFinish(l, err) ==
  IF err = "deadline" /\ ~l.sub THEN [l EXCEPT !.sub = TRUE, !.state = "init"]
  ELSE LET tr == IF l.result = NoTest THEN [Server |-> "gm", TX |-> 0, RX |-> 0, Error |-> err]
                 ELSE [l.result EXCEPT !.Error = err]
       IN [l EXCEPT !.pc = "idle", !.verdicts = Append(@, Verdict(tr))]

LinGrant ==
  /\ lin.pc = "loop" /\ linIn # <<>> /\ Head(linIn).type = "grant"
  /\ linIn' = Tail(linIn)
  /\ IF Head(linIn).Duration = 0
     THEN lin' = LinFinish(lin, "denied") /\ UNCHANGED linWire
     ELSE /\ lin.sequence < LinMaxSends
          /\ lin' = [sendDelay(lin) EXCEPT !.server.subscribed = TRUE]
          /\ \E a \in DelayAnswers(lin) : linWire' = linWire \cup a

\* Mutant of LinDelayResp: the transmit time is that of the last DelayReq.
LinDelayRespLast ==
  /\ lin.pc = "loop" /\ linIn # <<>> /\ Head(linIn).type = "delayResp"
  /\ linIn' = Tail(linIn)
  /\ LET m == Head(linIn) IN
       IF m.seq \notin DOMAIN lin.sendTS
       THEN lin' = LinFinish(lin, "unexpected")
       ELSE lin' = [lin EXCEPT !.sendTS = [q \in DOMAIN @ \ {m.seq} |-> @[q]], !.state = "done",
                      !.result = [Server |-> "gm", TX |-> lin.sendTS[Max(DOMAIN lin.sendTS)], RX |-> m.RX,
                                  Error |-> ""]]
  /\ UNCHANGED linWire

LinDelayResp ==
  /\ lin.pc = "loop" /\ linIn # <<>> /\ Head(linIn).type = "delayResp"
  /\ linIn' = Tail(linIn)
  /\ LET m == Head(linIn) IN
       IF m.seq \notin DOMAIN lin.sendTS
       THEN lin' = LinFinish(lin, "unexpected")
       ELSE lin' = [lin EXCEPT !.sendTS = [q \in DOMAIN @ \ {m.seq} |-> @[q]], !.state = "done",
                      !.result = [Server |-> "gm", TX |-> lin.sendTS[m.seq], RX |-> m.RX, Error |-> ""]]
  /\ UNCHANGED linWire
LinDone ==
  /\ lin.pc = "loop" /\ linIn = <<>> /\ lin.state = "done"
  /\ lin' = LinFinish(lin, "")
  /\ UNCHANGED <<linIn, linWire>>
LinTimeout ==
  /\ lin.pc = "loop"
  /\ lin' = LinFinish(lin, "deadline")
  /\ UNCHANGED <<linIn, linWire>>

LinNext == RunTest \/ LinSend \/ runListener \/ LinGrant \/ LinDelayResp \/ LinDone \/ LinTimeout

------------------------------------------------------------------------------
(* SPTPTester, and the counters made of the results. *)

SptpRunTest(stats, server) ==
  LET found == {i \in DOMAIN stats : stats[i].GMAddress = server}
      s == stats[Min(found)]
  IN IF found = {} THEN [Offset |-> 0, ClockClass |-> 0, Error |-> "failed to find offset results"]
     ELSE [Offset |-> s.Offset, ClockClass |-> s.ClockClass, Error |-> s.Error]

SptpGood(tr) ==
  /\ tr.Error = ""
  /\ tr.Offset \in -LinMaxGMOffset..LinMaxGMOffset \/ tr.ClockClass # 6
ProcessMonitoringResults(good) ==
  LET failed == Cardinality({t \in DOMAIN good : ~good[t]}) IN
  [total |-> Cardinality(DOMAIN good), failed |-> failed, passed |-> Cardinality(DOMAIN good) - failed]

------------------------------------------------------------------------------
\* A server whose clock is not behind is never reported to have failed the test, whichever
\* packets were lost, duplicated, or answered after the test they belong to; and one that is
\* behind by more than any packet travels never passes.
LinVerdictIsRight ==
  \A i \in DOMAIN lin.verdicts :
    LET v == lin.verdicts[i] IN
    v.Error = "" =>
      /\ lin.server.behind <= 0 => v.Good
      /\ lin.server.behind > Max(LinTravel) => ~v.Good

\* A test that could not be completed is never reported as passed, even when an older result
\* is still stored.
LinErrorIsNotGood == \A i \in DOMAIN lin.verdicts : lin.verdicts[i].Error # "" => ~lin.verdicts[i].Good

\* The SPTP test passes a locked server only within the bound on its offset, fails one that
\* the statistics report an error for or do not know, and the counters add up.
SptpVerdictIsRight ==
  lin.pc = "sptp" =>
    LET stats == lin.stats
        servers == {"gm1", "gm2"}
        tr == [g \in servers |-> SptpRunTest(stats, g)]
        counts == ProcessMonitoringResults([g \in servers |-> SptpGood(tr[g])])
        bad(g) == \/ \A i \in DOMAIN stats : stats[i].GMAddress # g
                  \/ LET i == CHOOSE i \in DOMAIN stats : stats[i].GMAddress = g IN
                     stats[i].Error # "" \/ (stats[i].ClockClass = 6 /\ stats[i].Offset \notin -LinMaxGMOffset..LinMaxGMOffset)
    IN counts.failed = Cardinality({g \in servers : bad(g)}) /\ counts.passed + counts.failed = counts.total

\* Neither test reports a good server as failed, a bad one or an unfinished test as passed, and
\* the counters are those of the verdicts.
LinVerdictsRight == LinVerdictIsRight /\ LinErrorIsNotGood /\ SptpVerdictIsRight
==============================================================================
