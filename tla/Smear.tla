-------------------------------- MODULE Smear --------------------------------
(* UTC in fbclock: the daemon reads the leap second table and publishes when the last leap second is
   smeared (fbclock/daemon), the client library turns TAI into UTC with what it finds published
   (fbclock.c).  How the record gets from one to the other is Fbclock.

   The library computes in uint64_t.  A negative multiplier wraps around and the subtraction wraps
   back, so plain integers give the same times. *)
EXTENDS Integers, Sequences

CONSTANTS
  Nanos,               \* nanoseconds in a second (scaled down for TLC)
  SmearStep,           \* SMEAR_STEP_NS: TAI passes for each nanosecond of smearing
  leapDurationS,       \* seconds of smearing
  utcOffsetOriginalS,  \* TAI - UTC before the first leap second
  FixedOffsetS,        \* -UTC_TAI_OFFSET_NS in seconds
  SmrWorlds,           \* [old, new, from, until]: the table before and after an update, a span of TAI seconds
  SmrMaxFaults         \* bound: reads of the table that fail

\* 62500 s and 65000 ns in the code.
ASSUME SmearConstants ==
  /\ Nanos \in Nat \ {0} /\ SmearStep \in Nat \ {0} /\ leapDurationS \in 1..SmearStep
  /\ utcOffsetOriginalS \in Nat /\ FixedOffsetS \in Nat

\* The tables count leap seconds one by one, added or removed.
ASSUME SmearTables ==
  \A w \in SmrWorlds :
    /\ w.from \in Nat /\ w.until \in Nat
    /\ \A table \in {w.old, w.new} :
         /\ table \in Seq([Tleap : Int, Nleap : Int])
         /\ \A i \in 2..Len(table) : table[i].Nleap - table[i - 1].Nleap \in {1, -1}

VARIABLES
  smr,      \* [world, table, tai, faults]: the table in the file system and the time
  smrData,  \* the fields about leap seconds in shared memory
  smrUtc    \* the last UTC a client got, the time it asked and the data it used

smrVars == <<smr, smrData, smrUtc>>

NoData == [start |-> 0, end |-> 0, pre |-> 0, post |-> 0]

------------------------------------------------------------------------------
(* The daemon. *)

\* leapSeconds: the last two entries, or none.
leapSeconds(table) == IF Len(table) < 2 THEN <<>> ELSE SubSeq(table, Len(table) - 1, Len(table))

\* Mutant of leapSecondSmearing: the start is that of the offset after the leap second.
leapSecondSmearingPost(leaps) ==
  IF Len(leaps) < 2 THEN NoData
  ELSE LET latestLeap == leaps[Len(leaps)]
           pre  == leaps[Len(leaps) - 1].Nleap + utcOffsetOriginalS
           post == latestLeap.Nleap + utcOffsetOriginalS
           leapSecondEventTimeS == latestLeap.Tleap - latestLeap.Nleap + 1
       IN [ start |-> leapSecondEventTimeS + post, end |-> leapSecondEventTimeS + leapDurationS + post,
            pre |-> pre, post |-> post ]

leapSecondSmearing(leaps) ==
  IF Len(leaps) < 2 THEN NoData
  ELSE LET latestLeap == leaps[Len(leaps)]
           pre  == leaps[Len(leaps) - 1].Nleap + utcOffsetOriginalS
           post == latestLeap.Nleap + utcOffsetOriginalS
           leapSecondEventTimeS == latestLeap.Tleap - latestLeap.Nleap + 1
       IN [ start |-> leapSecondEventTimeS + pre, end |-> leapSecondEventTimeS + leapDurationS + pre,
            pre |-> pre, post |-> post ]

\* doWork: a table that cannot be read is only logged.
Publish ==
  \/ smrData' = leapSecondSmearing(leapSeconds(smr.table)) /\ UNCHANGED <<smr, smrUtc>>
  \/ /\ smr.faults < SmrMaxFaults
     /\ smr' = [smr EXCEPT !.faults = @ + 1]
     /\ smrData' = leapSecondSmearing(<<>>) /\ UNCHANGED smrUtc

------------------------------------------------------------------------------
(* The client library. *)

\* Mutant of apply_smear: three steps of the smearing at once.
apply_smearCoarse(time, pre, post, start, end, multiplier) ==
  CASE time > end -> time - post
    [] time < start -> time - pre
    [] OTHER -> time - (pre + multiplier * 3 * ((time - start + 3 * SmearStep - 1) \div (3 * SmearStep)))

apply_smear(time, pre, post, start, end, multiplier) ==
  CASE time > end -> time - post
    [] time < start -> time - pre
    [] OTHER -> time - (pre + multiplier * ((time - start) \div SmearStep))

\* Without a table the offset is fixed.
apply_utc_offset(d, time) ==
  IF d.pre = 0 /\ d.post = 0 THEN time - FixedOffsetS * Nanos
  ELSE apply_smear(time, d.pre * Nanos, d.post * Nanos, d.start * Nanos, d.end * Nanos, d.post - d.pre)

gettime_utc ==
  /\ smrUtc' = [utc |-> apply_utc_offset(smrData, smr.tai), tai |-> smr.tai, data |-> smrData]
  /\ UNCHANGED <<smr, smrData>>

------------------------------------------------------------------------------
UtcReading(d, t) == [utc |-> apply_utc_offset(d, t), tai |-> t, data |-> d]

SmrInit ==
  \E w \in SmrWorlds :
    /\ smr = [world |-> w, table |-> w.old, tai |-> w.from * Nanos, faults |-> 0]
    /\ smrData = leapSecondSmearing(leapSeconds(w.old))
    /\ smrUtc = UtcReading(smrData, smr.tai)
SmrOff ==
  smr = [world |-> [from |-> 0], table |-> <<>>, tai |-> 0, faults |-> 0] /\ smrData = NoData
  /\ smrUtc = [utc |-> 0, tai |-> 0, data |-> NoData]

\* The next leap second is announced months ahead.
UpgradeTable ==
  /\ smr.tai = smr.world.from * Nanos
  /\ smr' = [smr EXCEPT !.table = smr.world.new]
  /\ UNCHANGED <<smrData, smrUtc>>
Elapse ==
  /\ smr.tai < smr.world.until * Nanos
  /\ smr' = [smr EXCEPT !.tai = @ + 1]
  /\ UNCHANGED <<smrData, smrUtc>>

SmrNext == Publish \/ gettime_utc \/ UpgradeTable \/ Elapse
SmrSpec == SmrInit /\ [][SmrNext]_smrVars

------------------------------------------------------------------------------
\* UTC is never further from TAI than the larger of the offsets before and after the leap second
\* and never nearer than the smaller, in the midst of the smearing as well, for a leap second
\* that is added and for one that is removed.
UtcBetweenOffsets ==
  LET d == smrUtc.data
      lag == smrUtc.tai - smrUtc.utc
      between(a, b) == a * Nanos <= lag /\ lag <= b * Nanos
  IN d = NoData \/ between(d.pre, d.post) \/ between(d.post, d.pre)

\* With the published table UTC leaves the old offset when the leap second is, not before and at most
\* a step of the smearing later, and from the end of the smearing on it has the new offset.
SmearOnTime ==
  \A i \in 2..Len(smr.table) :
    LET old == smr.table[i - 1]
        leap == smr.table[i]
        \* the leap second in TAI, from the definition of the table: the seconds since 1970 with the leap seconds
        event == (leap.Tleap + utcOffsetOriginalS) * Nanos
        lag == smrUtc.tai - smrUtc.utc
    IN (i = Len(smr.table) /\ smrUtc.data = leapSecondSmearing(leapSeconds(smr.table)) /\ leap.Nleap = old.Nleap + 1) =>
         /\ smrUtc.tai <= event => lag = (old.Nleap + utcOffsetOriginalS) * Nanos
         /\ smrUtc.tai >= event + SmearStep => lag > (old.Nleap + utcOffsetOriginalS) * Nanos
         /\ smrUtc.tai > event + leapDurationS * Nanos => lag = (leap.Nleap + utcOffsetOriginalS) * Nanos

\* Time that passes takes UTC back only across the end of the smearing, and then by no more than the
\* part of the leap second that leapDurationS leaves unsmeared.  (A table that appears or fails in
\* the midst of the smearing moves it as well: those readings have different data.)
UtcBackOnlyAtEnd ==
  [][ LET d == smrUtc.data IN
      smrUtc'.data = d /\ smrUtc'.tai >= smrUtc.tai /\ smrUtc'.utc < smrUtc.utc =>
        /\ smrUtc.tai <= d.end * Nanos /\ d.end * Nanos < smrUtc'.tai
        /\ smrUtc.utc - smrUtc'.utc < Nanos - (leapDurationS * Nanos) \div SmearStep
    ]_smrVars

\* What the comment and the table of the library's test say: the smearing takes up the leap second by
\* the time it ends.  So time that passes never takes UTC back.
UtcNeverBack ==
  [][ smrUtc'.data = smrUtc.data /\ smrUtc'.tai >= smrUtc.tai => smrUtc'.utc >= smrUtc.utc ]_smrVars

\* The daemon's data and the library's arithmetic together: UTC stays between the offsets before and
\* after a leap second and moves from one to the other when the published table says.
UtcFollowsTheTable == UtcBetweenOffsets /\ SmearOnTime
==============================================================================
