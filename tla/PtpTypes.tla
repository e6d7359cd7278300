------------------------------- MODULE PtpTypes -------------------------------
(* The conversions of ptp/protocol/types.go: clock accuracy, clock identities,
   the order of port identities, timestamps, corrections and log intervals.
   Durations of clock accuracies are in units of 25 ns, rounded up, which every
   threshold is a multiple of. *)
EXTENDS Integers, Sequences

CONSTANTS
  Conversions      \* the conversions to make: [fn, a, b] with the arguments a and b

VARIABLE
  typ              \* the one that is made

SecondsRange  == 256    \* 2^48 in the code
TopCorrection == 127    \* 2^63 - 1
CorrectionUnit == 4     \* 2^16
SmallestLog   == 8      \* 128

------------------------------------------------------------------------------
(* Clock accuracy. *)

\* From ClockAccuracyNanosecond25 (0x20) to ClockAccuracySecondGreater10 (0x31).
Accuracies == 32..49
ClockAccuracyUnknown == 254

Magnitude(offset) == IF offset < 0 THEN -offset ELSE offset

accuracyOf(o) ==
     IF o <= 1 THEN 32 ELSE IF o <= 4 THEN 33 ELSE IF o <= 10 THEN 34
     ELSE IF o <= 40 THEN 35 ELSE IF o <= 100 THEN 36 ELSE IF o <= 400 THEN 37
     ELSE IF o <= 1000 THEN 38 ELSE IF o <= 4000 THEN 39 ELSE IF o <= 10000 THEN 40
     ELSE IF o <= 40000 THEN 41 ELSE IF o <= 100000 THEN 42 ELSE IF o <= 400000 THEN 43
     ELSE IF o <= 1000000 THEN 44 ELSE IF o <= 4000000 THEN 45 ELSE IF o <= 10000000 THEN 46
     ELSE IF o <= 40000000 THEN 47 ELSE IF o <= 400000000 THEN 48 ELSE 49

\* Mutant of ClockAccuracyFromOffset: a negative offset counts as a small one.
ClockAccuracyFromOffsetSigned(offset) == accuracyOf(offset)

ClockAccuracyFromOffset(offset) == accuracyOf(Magnitude(offset))

AccuracyDuration(c) ==
  CASE c = 32 -> 1 [] c = 33 -> 4 [] c = 34 -> 10
    [] c = 35 -> 40 [] c = 36 -> 100 [] c = 37 -> 400
    [] c = 38 -> 1000 [] c = 39 -> 4000 [] c = 40 -> 10000
    [] c = 41 -> 40000 [] c = 42 -> 100000 [] c = 43 -> 400000
    [] c = 44 -> 1000000 [] c = 45 -> 4000000 [] c = 46 -> 10000000
    [] c = 47 -> 40000000 [] c = 48 -> 400000000
    [] OTHER -> 1000000000

------------------------------------------------------------------------------
(* Identities.  A MAC address and a ClockIdentity are sequences of bytes. *)

NewClockIdentity(mac) ==
  IF Len(mac) = 6 THEN <<mac[1], mac[2], mac[3], 255, 254, mac[4], mac[5], mac[6]>> ELSE mac

MAC(c) == <<c[1], c[2], c[3], c[6], c[7], c[8]>>

\* PortIdentity.Compare and Less.
Compare(p, q) ==
  CASE p.ClockIdentity < q.ClockIdentity -> -1
    [] p.ClockIdentity > q.ClockIdentity -> 1
    [] p.ClockIdentity = q.ClockIdentity ->
         CASE p.PortNumber < q.PortNumber -> -1
           [] p.PortNumber > q.PortNumber -> 1
           [] p.PortNumber = q.PortNumber -> 0
Less(p, q) == Compare(p, q) = -1

------------------------------------------------------------------------------
(* Timestamps: seconds of SecondsRange values (2^48) and nanoseconds; no time at
   all is time.Time{}. *)

NoTime == [sec |-> -1, nsec |-> 0]
NewPTPSeconds(t, range) == IF t = NoTime THEN 0 ELSE t.sec % range
PTPSecondsTime(s) == IF s = 0 THEN NoTime ELSE [sec |-> s, nsec |-> 0]
NewTimestamp(t, range) ==
  IF t = NoTime THEN [Seconds |-> 0, Nanoseconds |-> 0]
  ELSE [Seconds |-> t.sec % range, Nanoseconds |-> t.nsec]
EmptyTimestamp(ts) == ts.Nanoseconds = 0 /\ ts.Seconds = 0
Time(ts) == IF EmptyTimestamp(ts) THEN NoTime ELSE [sec |-> ts.Seconds, nsec |-> ts.Nanoseconds]

\* Corrections: int64, the low 16 bits a fraction; here top is the largest value
\* and unit the number of fractions.  The argument is a number of fractions, as
\* ns * twoPow16 is; a value below the range is whatever the conversion makes of it.
TooBig(c, top) == c = top
NewCorrection(fractions, top) == IF fractions > top THEN top ELSE fractions
TruncatedQuotient(a, b) == IF a < 0 THEN -((-a) \div b) ELSE a \div b
CorrectionDuration(c, top, unit) == IF TooBig(c, top) THEN 0 ELSE TruncatedQuotient(c, unit)

\* Log intervals of durations in units of 2^-small seconds, small = 128 in the
\* code.  int() drops the fraction of the logarithm, so it rounds a duration below
\* one second up to a power of two and one above down.
FloorLog2(d) == CHOOSE k \in 0..30 : 2^k <= d /\ d < 2^(k + 1)

NewLogInterval(d, small) ==
  LET k == FloorLog2(d)
  IN IF 2^k = d \/ k >= small THEN k - small ELSE k + 1 - small
IntervalDuration(i, small) == 2^(i + small)

\* The message type in the low half of a byte with the SdoID, or in the high half
\* with the flags of a unicast TLV.
NewSdoIDAndMsgType(type, sdo) == ((sdo * 16) % 256) + type
SdoMsgType(m) == m % 16
NewUnicastMsgTypeAndFlags(type, flags) == ((type * 16) % 256) + (flags % 16)
UnicastMsgType(m) == m \div 16

------------------------------------------------------------------------------

TypOff == typ = [fn |-> "none", a |-> 0, b |-> 0]
TypInit == typ \in Conversions

\* ClockAccuracyFromOffset names an accuracy whose duration covers the offset, and
\* no smaller duration of the table would: what c4u advertises is neither better
\* nor needlessly worse than the clock.
AccuracyCovers ==
  typ.fn = "accuracy" =>
    LET c == ClockAccuracyFromOffset(typ.a)
        covers(d) == Magnitude(typ.a) <= AccuracyDuration(d)
    IN IF c = 49 THEN \A d \in Accuracies \ {c} : ~covers(d)
       ELSE /\ covers(c)
            /\ \A d \in Accuracies : covers(d) => AccuracyDuration(c) <= AccuracyDuration(d)

\* Converting there and back gives the argument: an EUI-48 address through its
\* clock identity, a time after 1970 (or its whole seconds) within 48 bit seconds, a
\* correction of whole nanoseconds (one too big for the field becomes 0, never
\* a wrong duration), a power of two through its log interval, and a message type
\* next to any SdoID or flags.
ConversionsRoundTrip ==
  CASE typ.fn = "mac"        -> MAC(NewClockIdentity(typ.a)) = typ.a
    [] typ.fn = "timestamp"  ->
         /\ Time(NewTimestamp(typ.a, SecondsRange)) =
              (IF typ.a.sec = 0 /\ typ.a.nsec = 0 THEN NoTime ELSE typ.a)
         /\ PTPSecondsTime(NewPTPSeconds(typ.a, SecondsRange)) =
              (IF typ.a.sec = 0 THEN NoTime ELSE [typ.a EXCEPT !.nsec = 0])
    [] typ.fn = "correction" ->
         CorrectionDuration(NewCorrection(typ.a * CorrectionUnit, TopCorrection), TopCorrection, CorrectionUnit)
           = (IF typ.a * CorrectionUnit >= TopCorrection THEN 0 ELSE typ.a)
    [] typ.fn = "interval"   -> NewLogInterval(IntervalDuration(typ.a, SmallestLog), SmallestLog) = typ.a
    [] typ.fn = "nibbles"    -> /\ SdoMsgType(NewSdoIDAndMsgType(typ.a, typ.b)) = typ.a
                                /\ UnicastMsgType(NewUnicastMsgTypeAndFlags(typ.a, typ.b)) = typ.a
    [] OTHER -> TRUE

\* A requested interval is never granted as one more than twice as long or as
\* short: NewLogInterval followed by Duration is within a factor of two.
IntervalWithinTwo ==
  typ.fn = "duration" =>
    LET d == IntervalDuration(NewLogInterval(typ.a, SmallestLog), SmallestLog)
    IN d < 2 * typ.a /\ typ.a < 2 * d

\* Compare orders port identities: by the clock identity, then by the port, and
\* consistently with the arguments swapped.
PortsOrdered ==
  typ.fn = "ports" =>
    /\ Compare(typ.a, typ.b) = -Compare(typ.b, typ.a)
    /\ Compare(typ.a, typ.b) = 0 <=> typ.a = typ.b
    /\ Less(typ.a, typ.b) => typ.a.ClockIdentity <= typ.b.ClockIdentity

\* No conversion of ptp/protocol loses more than its format must: an advertised accuracy covers
\* the offset, there and back gives the argument, an interval is off by less than two times, and
\* port identities are ordered.
ConversionsFaithful == AccuracyCovers /\ ConversionsRoundTrip /\ IntervalWithinTwo /\ PortsOrdered
==============================================================================
