------------------------------- MODULE PhcOffset -------------------------------
(* How far a hardware clock (PHC) is from the system clock, and two of them from
   each other (phc/offset.go): a reading is a PHC time between two system times. *)
EXTENDS Integers, Sequences, SequencesExt

CONSTANTS PhcReadings    \* sequences of what happens at a reading: [t1, wait, width, phc, drift]

VARIABLE phc             \* the readings that are measured: [a, b, other]

\* A reading [t1, tp, t2] of a clock that is ahead of the system clock by ahead, taken when wait of
\* the width between the two system times has gone by.
Reading(r, ahead) == [t1 |-> r.t1, tp |-> r.t1 + r.wait + ahead, t2 |-> r.t1 + r.width]

sysoffFromExtendedTS(x) ==
  LET interval == x.t2 - x.t1
      timestamp == x.t1 + interval \div 2
  IN [SysTime |-> timestamp, PHCTime |-> x.tp, Delay |-> interval, Offset |-> timestamp - x.tp]
SysoffFromPrecise(x) == [SysTime |-> x.t1, PHCTime |-> x.tp, Delay |-> 0, Offset |-> x.t1 - x.tp]
SysoffEstimateBasic(x) ==
  LET interval == x.t2 - x.t1
  IN [SysTime |-> x.t1 + interval \div 2, PHCTime |-> x.tp, Delay |-> interval, Offset |-> (x.t2 - x.tp) - interval \div 2]

BestSample(readings) ==
  FoldLeft(LAMBDA best, x : LET s == sysoffFromExtendedTS(x) IN IF s.Delay < best.Delay THEN s ELSE best,
           sysoffFromExtendedTS(Head(readings)), readings)

\* Mutant of PhcDifference: the time between the readings is not taken off.
PhcDifferenceRaw(sysoffA, sysoffB) == sysoffB.PHCTime - sysoffA.PHCTime

\* The difference of two clocks by their i-th readings, and the one offsetBetweenExtendedReadings takes.
PhcDifference(sysoffA, sysoffB) == (sysoffB.PHCTime - sysoffA.PHCTime) - (sysoffB.SysTime - sysoffA.SysTime)
absolute(v) == IF v < 0 THEN -v ELSE v
offsetBetweenExtendedReadings(as, bs) ==
  LET numProbes == IF Len(bs) < Len(as) THEN Len(bs) ELSE Len(as)
      difference(i) == PhcDifference(sysoffFromExtendedTS(as[i]), sysoffFromExtendedTS(bs[i]))
  IN FoldLeft(LAMBDA shortest, i : IF absolute(difference(i)) < absolute(shortest) THEN difference(i) ELSE shortest,
              difference(1), [i \in 1..numProbes |-> i])
offsetBetweenPreciseReadings(a, b) == PhcDifference(SysoffFromPrecise(a), SysoffFromPrecise(b))
\* OffsetBetweenDevices prefers the precise readings.
OffsetBetweenDevices(precise, as, bs) ==
  IF precise THEN offsetBetweenPreciseReadings(Head(as), Head(bs)) ELSE offsetBetweenExtendedReadings(as, bs)

PhcOff == phc = [a |-> <<>>, b |-> <<>>, aheadA |-> 0, aheadB |-> 0]
PhcInit == phc \in [a : PhcReadings, b : PhcReadings, aheadA : {-3, 0, 2}, aheadB : {-1, 0, 7}]
Readings(rs, ahead) == [i \in DOMAIN rs |-> Reading(rs[i], ahead)]

------------------------------------------------------------------------------
\* The offset taken from a reading is within half of its delay, rounded up, of the real one, for
\* each way to read the clock, and the sample chosen of several is the one with the best bound.
PhcWithinHalfDelay ==
  phc.a # <<>> =>
    LET rs == Readings(phc.a, phc.aheadA)
        best == BestSample(rs)
    IN /\ \A i \in DOMAIN rs : \A s \in {sysoffFromExtendedTS(rs[i]), SysoffEstimateBasic(rs[i])} :
            absolute(s.Offset + phc.aheadA) <= (s.Delay + 1) \div 2
       /\ \A i \in DOMAIN rs : best.Delay <= rs[i].t2 - rs[i].t1
       /\ absolute(best.Offset + phc.aheadA) <= (best.Delay + 1) \div 2

\* The difference of two clocks is within the half delays of the widest pair of readings.
PhcDifferenceRight ==
  phc.a # <<>> =>
    LET as == Readings(phc.a, phc.aheadA)
        bs == Readings(phc.b, phc.aheadB)
        width(i) == (as[i].t2 - as[i].t1 + 1) \div 2 + (bs[i].t2 - bs[i].t1 + 1) \div 2
        n == IF Len(as) < Len(bs) THEN Len(as) ELSE Len(bs)
    IN \E i \in 1..n : absolute(OffsetBetweenDevices(FALSE, as, bs) - (phc.aheadB - phc.aheadA)) <= width(i)

\* Offsets between clocks are right to within the half delays of the readings they are made of,
\* for a PHC against the system clock and for two PHCs, with each of the ioctls.
PhcOffsetsRight == PhcWithinHalfDelay /\ PhcDifferenceRight
==============================================================================
