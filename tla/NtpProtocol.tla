----------------------------- MODULE NtpProtocol -----------------------------
(* NTP packets and time arithmetic (ntp/protocol), shared by the responder and by
   ntpcheck's ntpdate. *)
EXTENDS Integers

CONSTANTS
  NsPerSec,     \* nanoseconds in a second (scaled down for TLC)
  FracUnits,    \* 2^32, the fractions of a second in NTP format (scaled down)
  EraSeconds,   \* 2^32, the seconds of an NTP era (scaled down)
  EpochSeconds  \* NanosecondsToUnix in seconds: from the NTP to the Unix epoch

ASSUME NtpConstants ==
  /\ NsPerSec \in Nat \ {0} /\ FracUnits \in Nat \ {0} /\ EraSeconds \in Nat \ {0}
  /\ EpochSeconds \in Nat

\* Time: Unix nanoseconds to NTP seconds (uint32) and fractions.
NtpTime(t) ==
  LET nsec == t + EpochSeconds * NsPerSec
      sec  == nsec \div NsPerSec
  IN [sec |-> sec % EraSeconds, frac |-> ((nsec - sec * NsPerSec) * FracUnits) \div NsPerSec]

\* Unix: back to nanoseconds since the Unix epoch.
NtpUnix(p) ==
  (p.sec - EpochSeconds) * NsPerSec + (p.frac * NsPerSec) \div FracUnits

\* Division of Go integers truncates towards zero.
Halved(n) == IF n >= 0 THEN n \div 2 ELSE -((-n) \div 2)

NtpOffset(originTime, serverReceiveTime, serverTransmitTime, clientReceiveTime) ==
  Halved((serverReceiveTime - originTime) + (serverTransmitTime - clientReceiveTime))
RoundTripDelay(originTime, serverReceiveTime, serverTransmitTime, clientReceiveTime) ==
  (clientReceiveTime - originTime) - (serverTransmitTime - serverReceiveTime)
CorrectTime(clientReceiveTime, offset) == clientReceiveTime + offset

\* The first byte of a packet: LI in two bits, version in three, mode in three.
liNoWarning == 0
liAlarmCondition == 3
modeClient == 3
modeServer == 4

ValidSettingsFormat(settings) ==
  LET l == settings \div 64
      v == ((settings * 4) % 256) \div 32
      m == ((settings * 32) % 256) \div 32
  IN l \in {liNoWarning, liAlarmCondition} /\ v \in 1..4 /\ m = modeClient

------------------------------------------------------------------------------
VARIABLE nts    \* one conversion: [fn, a, b, c, d]

CONSTANTS NtpTimes, Settings   \* the sample of instants and of first bytes

NtsOff == nts = [fn |-> "off"]
NtsInit ==
  \/ \E t \in NtpTimes : nts = [fn |-> "time", t |-> t]
  \/ \E s \in Settings : nts = [fn |-> "settings", s |-> s]
  \/ \E t1, d1, d2, server, skew \in 0..4 :
       nts = [fn |-> "exchange", t1 |-> t1, d1 |-> d1, d2 |-> d2, server |-> server, skew |-> skew]

\* An instant of the era survives NTP format to within the nanosecond that truncation costs,
\* never later than it was.
NtpTimeRoundTrip ==
  nts.fn = "time" =>
    LET back == NtpUnix(NtpTime(nts.t)) IN back \in {nts.t - 1, nts.t}

\* The first byte is accepted exactly for the packets the comment of ValidSettingsFormat
\* lists: LI 0 or 3, version 1 to 4, mode 3.
SettingsAsDocumented ==
  nts.fn = "settings" =>
    (ValidSettingsFormat(nts.s) <=>
       \E li \in {0, 3}, vn \in 1..4 : nts.s = li * 64 + vn * 8 + 3)

\* Whatever the network delays d1 and d2, the computed offset misses the true skew of the
\* server by at most half the computed round trip, and the round trip is d1 + d2.
OffsetWithinHalfDelay ==
  nts.fn = "exchange" =>
    LET t2 == nts.t1 + nts.d1 + nts.skew
        t3 == t2 + nts.server
        t4 == nts.t1 + nts.d1 + nts.server + nts.d2
        offset == NtpOffset(nts.t1, t2, t3, t4)
        delay == RoundTripDelay(nts.t1, t2, t3, t4)
    IN /\ delay = nts.d1 + nts.d2
       /\ 2 * (offset - nts.skew) <= delay /\ 2 * (nts.skew - offset) <= delay + 1
==============================================================================
