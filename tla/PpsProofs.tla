------------------------------- MODULE PpsProofs -------------------------------
(* The offset ts2phc gives its servo, for every length of a second, every delay of the loop and any
   number of queued or lost pulses and failed calls. *)
EXTENDS Pps, SequenceTheorems, TLAPS

Multiples == {k * PpsSecond : k \in Int}

Loop ==
  [ pc : {"source", "sink", "servo", "poll", "timestamp", "sync", "freq", "step", "exited"},
    event : Int, src : Int, off : Int, servo : {StateInit, StateJump, StateLocked, "filter"}, ahead : Int ]

\* A pulse came at a whole second of the source's clock, not after now.
Pulsed(p, now) == p \in Multiples /\ p <= now
Pulses(now) == {e \in [t : Int, ahead : Int] : Pulsed(e.t - e.ahead, now)}

PpsType ==
  /\ ppsNow \in Nat /\ ppsAhead \in Int /\ ppsFaults \in Nat
  /\ ppsEvents \in Seq(Pulses(ppsNow))
  /\ pps \in Loop

\* What is queued and what was polled are pulses.  The source's second that is read afterwards is not
\* before the pulse, and for an event that passed the validation not more than a second after it.
PpsInv ==
  /\ PpsType
  /\ pps.pc \in {"timestamp", "sync", "freq", "step"} => Pulsed(pps.event - pps.ahead, ppsNow)
  /\ pps.pc \in {"sync", "freq", "step"} =>
       pps.src \in Multiples /\ pps.event - pps.ahead <= pps.src /\ pps.src <= ppsNow
  /\ pps.pc \in {"freq", "step"} =>
       /\ pps.off = pps.event - pps.src
       /\ ppsAhead = pps.ahead => pps.src <= pps.event - pps.ahead + PpsSecond

------------------------------------------------------------------------------
\* Two seconds that are at most a second apart are the same or neighbours.
LEMMA Neighbours ==
  ASSUME NEW S \in Nat \ {0}, NEW j \in Int, NEW k \in Int, j * S <= k * S, k * S <= j * S + S
  PROVE  k = j \/ k = j + 1
<1>1. (k - j) * S = k * S - j * S
  OBVIOUS
<1>2. 0 <= (k - j) * S /\ (k - j) * S <= S
  BY <1>1
<1>3. ~(k - j < 0)
  BY <1>2
<1>4. ~(k - j > 1)
  BY <1>2
<1> QED BY <1>3, <1>4

\* The second of a time is a second, not later than the time, and no second lies between them.
LEMMA Truncation ==
  ASSUME NEW S \in Nat \ {0}, NEW t \in Nat
  PROVE  /\ t \div S \in Int /\ (t \div S) * S <= t
         /\ t % S = 0 => t = (t \div S) * S
         /\ \A j \in Int : j * S <= t => j * S <= (t \div S) * S
<1>1. t \div S \in Int /\ t % S \in 0..(S - 1) /\ t = S * (t \div S) + (t % S)
  OBVIOUS
<1>2. ASSUME NEW j \in Int, j * S <= t PROVE j * S <= (t \div S) * S
  <2> DEFINE q == t \div S
  <2>1. q \in Int /\ j * S < (q + 1) * S
    BY <1>1, <1>2
  <2>2. j < q + 1
    <3> HIDE DEF q
    <3> QED BY <2>1
  <2>3. j <= q
    BY <2>1, <2>2
  <2> HIDE DEF q
  <2>4. j * S <= q * S
    BY <2>1, <2>3
  <2> QED BY <2>4 DEF q
<1> QED BY <1>1, <1>2

LEMMA PpsInvInit == PpsInit => PpsInv
<1> SUFFICES ASSUME PpsInit PROVE PpsInv
  OBVIOUS
<1>1. ppsNow = 0 /\ ppsAhead \in Int /\ ppsEvents = <<>> /\ ppsFaults = 0 /\ pps.pc = "source"
  BY PpsConstants DEF PpsInit, PpsStart
<1>2. pps \in Loop
  BY DEF PpsInit, PpsStart, Loop
<1> QED BY <1>1, <1>2 DEF PpsInv, PpsType, Loop

LEMMA QueueGrows == ASSUME NEW A, NEW B, A \subseteq B, NEW s \in Seq(A) PROVE s \in Seq(B)
OBVIOUS

\* Steps of the loop that only set where it is, and how often calls failed.
LEMMA LoopOnly ==
  ASSUME PpsInv, ppsFaults' \in Nat, UNCHANGED <<ppsNow, ppsAhead, ppsEvents>>,
         pps' \in Loop,
         pps'.pc \notin {"timestamp", "sync", "freq", "step"}
  PROVE  PpsInv'
BY DEF PpsInv, PpsType, Loop, Pulsed

LEMMA PpsInvNext == PpsInv /\ [PpsNext]_ppsVars => PpsInv'
<1> SUFFICES ASSUME PpsInv, [PpsNext]_ppsVars PROVE PpsInv'
  OBVIOUS
<1> USE PpsConstants
<1>T. PpsType
  BY DEF PpsInv
<1>F. Fails \subseteq BOOLEAN
  BY DEF Fails
<1>1. CASE ActivatePPSSource
  <2>1. ppsFaults' \in Nat
    BY <1>1, <1>F, <1>T DEF ActivatePPSSource, Counted, PpsType, Loop
  <2> QED BY <1>1, <1>T, <2>1, LoopOnly DEF ActivatePPSSource, PpsType, Loop
<1>2. CASE PPSSinkFromDevice
  <2>1. ppsFaults' \in Nat
    BY <1>2, <1>F, <1>T DEF PPSSinkFromDevice, Counted, PpsType, Loop
  <2> QED BY <1>2, <1>T, <2>1, LoopOnly DEF PPSSinkFromDevice, PpsType, Loop
<1>3. CASE NewPiServo
  <2>1. ppsFaults' \in Nat
    BY <1>3, <1>F, <1>T DEF NewPiServo, Counted, PpsType, Loop
  <2> QED BY <1>3, <1>T, <2>1, LoopOnly DEF NewPiServo, PpsType, Loop
<1>4. CASE Pulse
  <2>1. ppsNow' \in Nat /\ ppsNow <= ppsNow' /\ UNCHANGED <<ppsAhead, pps>>
    BY <1>4, <1>T DEF Pulse, PpsType
  <2>2. ppsFaults' \in Nat
    BY <1>4, <1>F, <1>T DEF Pulse, Counted, PpsType
  <2>3. ppsEvents \in Seq(Pulses(ppsNow'))
    <3>1. Pulses(ppsNow) \subseteq Pulses(ppsNow')
      <4> SUFFICES ASSUME NEW e \in Pulses(ppsNow) PROVE e \in Pulses(ppsNow')
        OBVIOUS
      <4>1. e \in [t : Int, ahead : Int] /\ e.t - e.ahead \in Multiples /\ e.t - e.ahead <= ppsNow
        BY DEF Pulses, Pulsed
      <4>2. e.t - e.ahead \in Int
        BY <4>1
      <4>3. e.t - e.ahead <= ppsNow'
        BY <2>1, <4>1, <4>2, <1>T DEF PpsType
      <4> QED BY <4>1, <4>3 DEF Pulses, Pulsed
    <3> QED BY <3>1, <1>T, QueueGrows DEF PpsType
  <2>4. ppsEvents' \in Seq(Pulses(ppsNow'))
    <3>1. CASE UNCHANGED ppsEvents
      BY <2>3, <3>1
    <3>2. CASE ppsNow' % PpsSecond = 0 /\ ppsEvents' = Append(ppsEvents, [t |-> ppsNow' + ppsAhead, ahead |-> ppsAhead])
      <4>1. ppsNow' \in Multiples
        BY <2>1, <3>2, Truncation DEF Multiples
      <4>2. [t |-> ppsNow' + ppsAhead, ahead |-> ppsAhead] \in Pulses(ppsNow')
        BY <2>1, <4>1, <1>T DEF Pulses, Pulsed, PpsType
      <4> QED BY <2>3, <3>2, <4>2, AppendProperties
    <3> QED BY <1>4, <3>1, <3>2 DEF Pulse
  <2> QED BY <2>1, <2>2, <2>4 DEF PpsInv, PpsType, Pulsed, Loop
<1>5. CASE PollPPSSink
  <2>1. ppsFaults' \in Nat
    BY <1>5, <1>F, <1>T DEF PollPPSSink, Counted, PpsType
  <2>2. /\ UNCHANGED <<ppsNow, ppsAhead>> /\ ppsEvents' = Tail(ppsEvents) /\ ppsEvents # <<>> /\ pps.pc = "poll"
        /\ \/ pps' = pps
           \/ pps' = [pps EXCEPT !.pc = "timestamp", !.event = Head(ppsEvents).t, !.ahead = Head(ppsEvents).ahead]
    BY <1>5 DEF PollPPSSink
  <2>3. Head(ppsEvents) \in Pulses(ppsNow) /\ Tail(ppsEvents) \in Seq(Pulses(ppsNow))
    BY <2>2, <1>T, HeadTailProperties DEF PpsType
  <2>4. CASE pps' = pps
    BY <2>1, <2>2, <2>3, <2>4, <1>T DEF PpsInv, PpsType
  <2>5. CASE pps' = [pps EXCEPT !.pc = "timestamp", !.event = Head(ppsEvents).t, !.ahead = Head(ppsEvents).ahead]
    <3>1. PICK e \in Pulses(ppsNow) : e = Head(ppsEvents)
      BY <2>3
    <3>2. pps' = [pps EXCEPT !.pc = "timestamp", !.event = e.t, !.ahead = e.ahead]
      BY <2>5, <3>1
    <3>3. e.t \in Int /\ e.ahead \in Int /\ Pulsed(e.t - e.ahead, ppsNow)
      BY DEF Pulses
    <3>4. pps' \in Loop /\ pps'.pc = "timestamp" /\ pps'.event = e.t /\ pps'.ahead = e.ahead
      BY <3>2, <3>3, <1>T DEF PpsType, Loop
    <3> QED BY <2>1, <2>2, <2>3, <3>3, <3>4, <1>T DEF PpsInv, PpsType
  <2> QED BY <2>2, <2>4, <2>5
<1>6. CASE Timestamp
  <2>1. ppsFaults' \in Nat /\ UNCHANGED <<ppsNow, ppsAhead, ppsEvents>> /\ pps.pc = "timestamp"
    BY <1>6, <1>F, <1>T DEF Timestamp, Counted, PpsType, Loop
  <2>2. CASE pps' = [pps EXCEPT !.pc = "poll"]
    BY <2>1, <2>2, <1>T, LoopOnly DEF PpsType, Loop
  <2>3. CASE pps' = [pps EXCEPT !.pc = "sync", !.src = (ppsNow \div PpsSecond) * PpsSecond]
    <3> DEFINE src == (ppsNow \div PpsSecond) * PpsSecond
    <3>1. Pulsed(pps.event - pps.ahead, ppsNow)
      BY <2>1 DEF PpsInv
    <3>2. src \in Multiples /\ src \in Int /\ src <= ppsNow
      BY <1>T, Truncation DEF PpsType, Multiples
    <3>3. PICK j \in Int : pps.event - pps.ahead = j * PpsSecond
      BY <3>1 DEF Pulsed, Multiples
    <3>4. pps.event - pps.ahead <= src
      BY <3>1, <3>3, <1>T, Truncation DEF PpsType, Pulsed
    <3> HIDE DEF src
    <3>5. pps' = [pps EXCEPT !.pc = "sync", !.src = src]
      BY <2>3 DEF src
    <3>6. /\ pps' \in Loop
          /\ pps'.pc = "sync" /\ pps'.event = pps.event /\ pps'.ahead = pps.ahead /\ pps'.src = src
      BY <3>2, <3>5, <1>T DEF PpsType, Loop
    <3> QED BY <2>1, <3>1, <3>2, <3>4, <3>6, <1>T DEF PpsInv, PpsType, Loop, Pulsed
  <2> QED BY <1>6, <2>2, <2>3 DEF Timestamp
<1>7. CASE SampleOffset
  <2>1. pps.pc = "sync" /\ UNCHANGED <<ppsNow, ppsAhead, ppsEvents, ppsFaults>>
    BY <1>7 DEF SampleOffset
  <2>2. CASE pps' = [pps EXCEPT !.pc = "poll"]
    BY <2>1, <2>2, <1>T, LoopOnly DEF PpsType, Loop
  <2>3. ASSUME NEW state \in {StateInit, StateJump, StateLocked, "filter"}, validatePPSEvent,
               pps' = [pps EXCEPT !.pc = IF state \in {StateJump, StateLocked} THEN "freq" ELSE "poll",
                                  !.off = pps.event - pps.src, !.servo = state]
        PROVE  PpsInv'
    <3>0. PICK off \in Int : off = pps.event - pps.src
      BY <1>T DEF PpsType, Loop
    <3>1. PICK pc \in {"freq", "poll"} : pps' = [pps EXCEPT !.pc = pc, !.off = off, !.servo = state]
      BY <2>3, <3>0
    <3>2. /\ pps' \in Loop
          /\ pps'.pc \in {"freq", "poll"} /\ pps'.event = pps.event /\ pps'.ahead = pps.ahead
          /\ pps'.src = pps.src /\ pps'.off = pps.event - pps.src
      BY <3>0, <3>1, <1>T DEF PpsType, Loop
    <3>3. ppsAhead = pps.ahead => pps.src <= pps.event - pps.ahead + PpsSecond
      BY <2>1, <2>3, <1>T DEF validatePPSEvent, PpsInv, PpsType, Loop
    <3> QED BY <2>1, <3>2, <3>3 DEF PpsInv, PpsType, Loop, Pulsed
  <2> QED BY <1>7, <2>2, <2>3 DEF SampleOffset
<1>8. CASE AdjFreq
  <2>1. pps.pc = "freq" /\ ppsFaults' \in Nat /\ UNCHANGED <<ppsNow, ppsAhead, ppsEvents>>
    BY <1>8, <1>F, <1>T DEF AdjFreq, Counted, PpsType, Loop
  <2>2. /\ pps' \in Loop
        /\ pps'.pc \in {"poll", "step"} /\ pps'.event = pps.event /\ pps'.ahead = pps.ahead
        /\ pps'.src = pps.src /\ pps'.off = pps.off
    BY <1>8, <1>T DEF AdjFreq, PpsType, Loop
  <2> QED BY <2>1, <2>2 DEF PpsInv, PpsType, Loop, Pulsed
<1>9. CASE ClockStep
  <2>1. pps.pc = "step" /\ ppsFaults' \in Nat /\ ppsAhead' \in Int /\ UNCHANGED <<ppsNow, ppsEvents>>
    BY <1>9, <1>F, <1>T DEF ClockStep, Counted, PpsType, Loop
  <2>2. pps' \in Loop /\ pps'.pc = "poll"
    BY <1>9, <1>T DEF ClockStep, PpsType, Loop
  <2> QED BY <2>1, <2>2 DEF PpsInv, PpsType, Loop, Pulsed
<1>10. CASE UNCHANGED ppsVars
  BY <1>10 DEF ppsVars, PpsInv, PpsType, Loop, Pulsed
<1> QED BY <1>1, <1>2, <1>3, <1>4, <1>5, <1>6, <1>7, <1>8, <1>9, <1>10 DEF PpsNext

\* PPSClockSync never gives the servo another offset than the one at the pulse, or one second less when
\* the source was read exactly a second later (validatePPSEvent compares with "more than a second").
THEOREM OffsetsAreRight == PpsSpec => []PpsOffsetRight
<1>1. PpsInv => PpsOffsetRight
  <2> SUFFICES ASSUME PpsInv, pps.pc \in {"freq", "step"}, ppsAhead = pps.ahead
               PROVE  pps.off = pps.ahead \/ pps.src = pps.event - pps.ahead + PpsSecond
    BY DEF PpsOffsetRight
  <2>1. PICK j \in Int : pps.event - pps.ahead = j * PpsSecond
    <3>1. Pulsed(pps.event - pps.ahead, ppsNow)
      BY DEF PpsInv
    <3> QED BY <3>1 DEF Pulsed, Multiples
  <2>2. PICK k \in Int : pps.src = k * PpsSecond
    BY DEF PpsInv, Multiples
  <2>3. /\ pps.event - pps.ahead <= pps.src /\ pps.src <= pps.event - pps.ahead + PpsSecond
        /\ pps.off = pps.event - pps.src
        /\ pps.off \in Int /\ pps.event \in Int /\ pps.src \in Int /\ pps.ahead \in Int
    BY DEF PpsInv, PpsType, Loop
  <2>4. k = j \/ k = j + 1
    BY <2>1, <2>2, <2>3, Neighbours, PpsConstants
  <2> QED BY <2>1, <2>2, <2>3, <2>4, PpsConstants
<1> QED BY <1>1, PpsInvInit, PpsInvNext, PTL DEF PpsSpec
==============================================================================
