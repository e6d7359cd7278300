---------------------------------- MODULE Pps ----------------------------------
(* ts2phc: a PHC (the sink) follows another one (the source) whose pulses per second
   it timestamps (phc/pps_source.go, cmd/ptpcheck/cmd/ts2phc.go).  The loop may be
   late, pulses may be lost, and calls to the devices may fail. *)
EXTENDS Integers, Sequences

CONSTANTS
  PpsSecond,      \* ticks of a second
  PpsAhead,       \* how far the sink's clock may be ahead of the source's
  PpsMaxTime,     \* bound: ticks
  PpsMaxFaults    \* bound: failed calls and lost pulses

ASSUME PpsConstants == PpsSecond \in Nat \ {0} /\ PpsAhead \subseteq Int /\ PpsMaxFaults \in Nat

VARIABLES
  ppsNow,         \* the source's clock
  ppsAhead,       \* the sink's clock is ppsNow + ppsAhead
  ppsEvents,      \* timestamps t of pulses, in the kernel's queue, and how far ahead the sink was
  pps,            \* the loop: [pc, event, src, off, servo, ahead]
  ppsFaults

ppsVars == <<ppsNow, ppsAhead, ppsEvents, pps, ppsFaults>>
StateInit == "init"
StateJump == "jump"
StateLocked == "locked"

PpsStart(pc) ==
  /\ ppsNow = 0 /\ ppsAhead \in (IF pc = "off" THEN {0} ELSE PpsAhead) /\ ppsEvents = <<>> /\ ppsFaults = 0
  /\ pps = [pc |-> pc, event |-> 0, src |-> 0, off |-> 0, servo |-> StateInit, ahead |-> 0]
PpsInit == PpsStart("source")
PpsOff == PpsStart("off")

Fails == IF ppsFaults < PpsMaxFaults THEN BOOLEAN ELSE {FALSE}
Counted(failed) == ppsFaults' = IF failed THEN ppsFaults + 1 ELSE ppsFaults

\* ActivatePPSSource: a pin that cannot be set is only logged, the request is retried once without
\* the duty cycle; PPSSinkFromDevice fails at once.
ActivatePPSSource ==
  /\ pps.pc = "source"
  /\ \E pin, first, second \in Fails :
       /\ Counted(pin \/ first \/ second) /\ (second => first)
       /\ pps' = [pps EXCEPT !.pc = IF first /\ second THEN "exited" ELSE "sink"]
  /\ UNCHANGED <<ppsNow, ppsAhead, ppsEvents>>
PPSSinkFromDevice ==
  /\ pps.pc = "sink"
  /\ \E failed \in Fails : Counted(failed) /\ pps' = [pps EXCEPT !.pc = IF failed THEN "exited" ELSE "servo"]
  /\ UNCHANGED <<ppsNow, ppsAhead, ppsEvents>>
\* NewPiServo fails if the frequency of the sink cannot be read.
NewPiServo ==
  /\ pps.pc = "servo"
  /\ \E failed \in Fails : Counted(failed) /\ pps' = [pps EXCEPT !.pc = IF failed THEN "exited" ELSE "poll"]
  /\ UNCHANGED <<ppsNow, ppsAhead, ppsEvents>>

\* Time goes on; the source has a pulse at each of its seconds, which the sink timestamps.
Pulse ==
  /\ pps.pc \notin {"off", "exited", "source"} /\ ppsNow < PpsMaxTime
  /\ ppsNow' = ppsNow + 1
  /\ IF ppsNow' % PpsSecond = 0 /\ pps.pc # "sink"
     THEN \E lost \in Fails : Counted(lost) /\ ppsEvents' = IF lost THEN ppsEvents ELSE Append(ppsEvents, [t |-> ppsNow' + ppsAhead, ahead |-> ppsAhead])
     ELSE UNCHANGED <<ppsEvents, ppsFaults>>
  /\ UNCHANGED <<ppsAhead, pps>>

\* PollPPSSink takes the first event; without one it waits its second and the loop polls again.
PollPPSSink ==
  /\ pps.pc = "poll" /\ ppsEvents # <<>>
  /\ ppsEvents' = Tail(ppsEvents)
  /\ \E failed \in Fails : Counted(failed) /\ pps' = IF failed THEN pps ELSE [pps EXCEPT !.pc = "timestamp", !.event = Head(ppsEvents).t, !.ahead = Head(ppsEvents).ahead]
  /\ UNCHANGED <<ppsNow, ppsAhead>>
\* Timestamp: the second of the source's clock.
Timestamp ==
  /\ pps.pc = "timestamp"
  /\ \E failed \in Fails :
       /\ Counted(failed)
       /\ pps' = IF failed THEN [pps EXCEPT !.pc = "poll"]
                 ELSE [pps EXCEPT !.pc = "sync", !.src = (ppsNow \div PpsSecond) * PpsSecond]
  /\ UNCHANGED <<ppsNow, ppsAhead, ppsEvents>>

\* Mutant of validatePPSEvent: stale events pass.
validatePPSEventNot == TRUE

\* validatePPSEvent: an event more than a second from the sink's clock is stale.
validatePPSEvent == LET d == ppsNow + ppsAhead - pps.event IN d <= PpsSecond /\ -d <= PpsSecond
\* PPSClockSync up to the servo's decision, which the servo (servo/pi.go) takes on the offset.
SampleOffset ==
  /\ pps.pc = "sync"
  /\ \/ /\ ~validatePPSEvent
        /\ pps' = [pps EXCEPT !.pc = "poll"]
     \/ /\ validatePPSEvent
        /\ \E state \in {StateInit, StateJump, StateLocked, "filter"} :
             pps' = [pps EXCEPT !.pc = IF state \in {StateJump, StateLocked} THEN "freq" ELSE "poll",
                                !.off = pps.event - pps.src, !.servo = state]
  /\ UNCHANGED <<ppsNow, ppsAhead, ppsEvents, ppsFaults>>
\* AdjFreq; only in the locked state does a failure unlock the servo.
AdjFreq ==
  /\ pps.pc = "freq"
  /\ \E failed \in Fails :
       /\ Counted(failed)
       /\ pps' = IF failed THEN [pps EXCEPT !.pc = "poll", !.servo = IF @ = StateLocked THEN StateInit ELSE @]
                 ELSE [pps EXCEPT !.pc = IF pps.servo = StateJump THEN "step" ELSE "poll"]
  /\ UNCHANGED <<ppsNow, ppsAhead, ppsEvents>>

ClockStep ==
  /\ pps.pc = "step"
  /\ \E failed \in Fails :
       /\ Counted(failed)
       /\ ppsAhead' = IF failed THEN ppsAhead ELSE ppsAhead - pps.off
       /\ pps' = [pps EXCEPT !.pc = "poll", !.servo = IF failed THEN StateInit ELSE @]
  /\ UNCHANGED <<ppsNow, ppsEvents>>

PpsNext ==
  \/ ActivatePPSSource \/ PPSSinkFromDevice \/ NewPiServo
  \/ Pulse \/ PollPPSSink \/ Timestamp \/ SampleOffset \/ AdjFreq \/ ClockStep
PpsSpec == PpsInit /\ [][PpsNext]_ppsVars

------------------------------------------------------------------------------
\* The offset the servo gets is the one the clocks had at the pulse, however late the loop is and
\* whatever is queued or lost, as long as no step came between the pulse and now; unless the loop read the
\* source exactly one second after the pulse, which passes for fresh.
PpsOffsetRight ==
  pps.pc \in {"freq", "step"} /\ ppsAhead = pps.ahead =>
    pps.off = pps.ahead \/ pps.src = pps.event - pps.ahead + PpsSecond
==============================================================================
