------------------------------ MODULE SmearProofs ------------------------------
(* UTC during the smearing of a leap second, for every length of a second and of the smearing, every
   table, and a table that changes or cannot be read at any moment. *)
EXTENDS Smear, SequenceTheorems, TLAPS

\* What the daemon can have published: no leap second, or one second added or removed within
\* leapDurationS.
Published ==
  {d \in [start : Int, end : Int, pre : Int, post : Int] :
     d = NoData \/ (d.end = d.start + leapDurationS /\ d.post - d.pre \in {1, -1})}

Table(t) ==
  /\ t \in Seq([Tleap : Int, Nleap : Int])
  /\ \A i \in 2..Len(t) : t[i].Nleap - t[i - 1].Nleap \in {1, -1}

SmearInv ==
  /\ smr.world \in SmrWorlds /\ smr.tai \in Int /\ Table(smr.table)
  /\ smr = [world |-> smr.world, table |-> smr.table, tai |-> smr.tai, faults |-> smr.faults]
  /\ smrData \in Published
  /\ smrUtc.data \in Published /\ smrUtc.tai \in Int
  /\ smrUtc.utc = apply_utc_offset(smrUtc.data, smrUtc.tai)

------------------------------------------------------------------------------
\* Steps of the smearing in a span of time: none lost, and at most one for each tick.
LEMMA StepsOfSmearing ==
  ASSUME NEW S \in Nat \ {0}, NEW x \in Int, NEW y \in Int, x <= y
  PROVE  /\ x \div S \in Int /\ y \div S \in Int
         /\ x \div S <= y \div S /\ y \div S - x \div S <= y - x
<1> DEFINE p == x \div S
           q == y \div S
<1>1. p \in Int /\ x % S \in 0..(S - 1) /\ x = S * p + (x % S)
  OBVIOUS
<1>2. q \in Int /\ y % S \in 0..(S - 1) /\ y = S * q + (y % S)
  OBVIOUS
<1>3. PICK r \in 0..(S - 1) : x = S * p + r
  BY <1>1
<1>4. PICK s \in 0..(S - 1) : y = S * q + s
  BY <1>2
<1> HIDE DEF p, q
<1>5. S * p <= S * q + (S - 1)
  BY <1>1, <1>2, <1>3, <1>4
<1>6. p <= q
  <2>1. SUFFICES ASSUME q + 1 <= p PROVE FALSE
    BY <1>1, <1>2
  <2>2. S * (q + 1) <= S * p
    BY <2>1, <1>1, <1>2
  <2> QED BY <2>2, <1>5, <1>1, <1>2
<1>7. q - p <= y - x
  <2>1. CASE q = p
    BY <2>1, <1>1
  <2>2. CASE q >= p + 1
    <3>1. S * (q - p) = S * q - S * p
      BY <1>1, <1>2
    <3>2. (S - 1) * (q - p - 1) >= 0
      BY <2>2, <1>1, <1>2
    <3>3. (S - 1) * (q - p - 1) = S * (q - p) - S - (q - p) + 1
      BY <1>1, <1>2
    <3> QED BY <1>1, <1>2, <1>3, <1>4, <3>1, <3>2, <3>3
  <2> QED BY <1>1, <1>2, <1>6, <2>1, <2>2
<1> QED BY <1>1, <1>2, <1>6, <1>7 DEF p, q

\* The smearing never takes up more than the second.
LEMMA SmearedAtMost ==
  ASSUME NEW S \in Nat \ {0}, NEW N \in Nat \ {0}, NEW L \in 1..S, NEW x \in Int, 0 <= x, x <= L * N
  PROVE  x \div S \in Int /\ 0 <= x \div S /\ x \div S <= N
<1> DEFINE q == x \div S
<1>1. q \in Int /\ x % S \in 0..(S - 1) /\ x = S * q + (x % S)
  OBVIOUS
<1>2. PICK r \in 0..(S - 1) : x = S * q + r
  BY <1>1
<1> HIDE DEF q
<1>3. L * N <= S * N
  OBVIOUS
<1>4. q <= N
  <2> SUFFICES ASSUME q >= N + 1 PROVE FALSE
    BY <1>1
  <2>1. S * q >= S * (N + 1)
    BY <1>1
  <2> QED BY <2>1, <1>1, <1>2, <1>3
<1>5. q >= 0
  <2> SUFFICES ASSUME q <= -1 PROVE FALSE
    BY <1>1
  <2>1. S * q <= S * (-1)
    BY <1>1
  <2> QED BY <2>1, <1>1, <1>2
<1> QED BY <1>1, <1>4, <1>5 DEF q

\* The library's arithmetic for one leap second (m is 1 or -1), from the start and the offset at that time.
Smearing == leapDurationS * Nanos
SmearedAt(t, start, pre, m) ==
  IF t > start + Smearing THEN t - (pre + m * Nanos)
  ELSE IF t < start THEN t - pre
  ELSE t - (pre + m * ((t - start) \div SmearStep))

LEMMA ConstantTypes ==
  /\ Smearing \in Nat /\ Nanos \in Nat \ {0} /\ SmearStep \in Nat \ {0} /\ Nanos <= Smearing
  /\ Smearing \div SmearStep \in Int /\ Smearing \div SmearStep <= Smearing
<1>1. /\ Nanos \in Nat \ {0} /\ SmearStep \in Nat \ {0} /\ leapDurationS \in Nat \ {0}
      /\ Smearing \in Nat /\ Nanos <= Smearing
  BY SmearConstants DEF Smearing
<1>2. 0 \div SmearStep = 0
  BY <1>1
<1> QED BY <1>1, <1>2, StepsOfSmearing

\* UTC stays between the two offsets.
LEMMA SmearedBetween ==
  ASSUME NEW t \in Int, NEW start \in Int, NEW pre \in Int, NEW m \in {1, -1}
  PROVE  LET lag == t - SmearedAt(t, start, pre, m) IN
           \/ pre <= lag /\ lag <= pre + m * Nanos
           \/ pre + m * Nanos <= lag /\ lag <= pre
<1> DEFINE k == (t - start) \div SmearStep
<1>1. CASE t > start + Smearing \/ t < start
  BY <1>1, ConstantTypes DEF SmearedAt
<1>2. CASE ~(t > start + Smearing) /\ ~(t < start)
  <2>1. t - start \in Int /\ 0 <= t - start /\ t - start <= Smearing
    BY <1>2, ConstantTypes
  <2>2. k \in Int /\ 0 <= k /\ k <= Nanos
    BY <2>1, ConstantTypes, SmearConstants, SmearedAtMost DEF Smearing
  <2>3. SmearedAt(t, start, pre, m) = t - (pre + m * k)
    BY <1>2 DEF SmearedAt
  <2> HIDE DEF k
  <2> QED BY <2>2, <2>3, ConstantTypes
<1> QED BY <1>1, <1>2

\* UTC goes back only across the end of the smearing, by less than what is left of the second.
LEMMA SmearedBack ==
  ASSUME NEW t \in Int, NEW u \in Int, t <= u, NEW start \in Int, NEW pre \in Int, NEW m \in {1, -1},
         SmearedAt(u, start, pre, m) < SmearedAt(t, start, pre, m)
  PROVE  /\ t <= start + Smearing /\ start + Smearing < u
         /\ SmearedAt(t, start, pre, m) - SmearedAt(u, start, pre, m) < Nanos - Smearing \div SmearStep
<1> DEFINE before(x) == x < start
           within(x) == start <= x /\ x <= start + Smearing
           after(x)  == x > start + Smearing
           k(x) == (x - start) \div SmearStep
<1>0. /\ Smearing \in Nat /\ Nanos \in Nat \ {0}
      /\ (before(t) \/ within(t) \/ after(t)) /\ (before(u) \/ within(u) \/ after(u))
  BY ConstantTypes
<1>1. ASSUME NEW x \in Int, before(x) PROVE SmearedAt(x, start, pre, m) = x - pre
  BY <1>0, <1>1 DEF SmearedAt
<1>2. ASSUME NEW x \in Int, within(x)
      PROVE  SmearedAt(x, start, pre, m) = x - (pre + m * k(x)) /\ k(x) \in Int /\ 0 <= k(x) /\ k(x) <= Nanos /\ k(x) <= x - start
  <2>1. x - start \in Int /\ 0 <= x - start /\ x - start <= Smearing
    BY <1>0, <1>2
  <2>2. k(x) \in Int /\ 0 <= k(x) /\ k(x) <= Nanos
    BY <2>1, ConstantTypes, SmearConstants, SmearedAtMost DEF Smearing
  <2>3. k(x) <= x - start
    <3>1. 0 \div SmearStep = 0
      BY ConstantTypes
    <3> QED BY <2>1, <3>1, ConstantTypes, StepsOfSmearing
  <2> QED BY <1>0, <1>2, <2>2, <2>3 DEF SmearedAt
<1>3. ASSUME NEW x \in Int, after(x) PROVE SmearedAt(x, start, pre, m) = x - (pre + m * Nanos)
  BY <1>0, <1>3 DEF SmearedAt
<1>4. CASE before(t) /\ after(u)
  BY <1>0, <1>1, <1>3, <1>4, ConstantTypes
<1>5. CASE within(t) /\ after(u)
  <2>1. k(start + Smearing) - k(t) <= start + Smearing - t /\ k(start + Smearing) = Smearing \div SmearStep
    <3>1. start + Smearing - start = Smearing /\ t - start <= Smearing /\ t - start \in Int
      BY <1>0, <1>5
    <3> QED BY <1>0, <3>1, ConstantTypes, StepsOfSmearing
  <2>2. PICK j \in Int : j = k(t) /\ 0 <= j /\ j <= Nanos /\ SmearedAt(t, start, pre, m) = t - (pre + m * j)
    BY <1>2, <1>5
  <2>3. SmearedAt(u, start, pre, m) = u - (pre + m * Nanos)
    BY <1>3, <1>5
  <2>4. PICK w \in Int : w = Smearing \div SmearStep
    BY ConstantTypes
  <2>5. w - j <= start + Smearing - t
    BY <2>1, <2>2, <2>4
  <2>6. CASE m = 1
    BY <1>0, <1>5, <2>2, <2>3, <2>4, <2>5, <2>6
  <2>7. CASE m = -1
    BY <1>0, <1>5, <2>2, <2>3, <2>7
  <2> QED BY <2>6, <2>7
<1>6. CASE before(t) /\ within(u)
  BY <1>0, <1>1, <1>2, <1>6
<1>7. CASE within(t) /\ within(u)
  <2>1. k(t) <= k(u) /\ k(u) - k(t) <= u - t
    <3>1. t - start \in Int /\ u - start \in Int /\ t - start <= u - start
      OBVIOUS
    <3> QED BY <3>1, ConstantTypes, StepsOfSmearing
  <2>2. PICK j \in Int : j = k(t) /\ SmearedAt(t, start, pre, m) = t - (pre + m * j)
    BY <1>2, <1>7
  <2>3. PICK l \in Int : l = k(u) /\ SmearedAt(u, start, pre, m) = u - (pre + m * l)
    BY <1>2, <1>7
  <2>4. j <= l /\ l - j <= u - t
    BY <2>1, <2>2, <2>3
  <2> QED BY <2>2, <2>3, <2>4
<1>8. CASE (before(t) /\ before(u)) \/ (after(t) /\ after(u))
  BY <1>0, <1>1, <1>3, <1>8
<1> QED BY <1>0, <1>4, <1>5, <1>6, <1>7, <1>8

------------------------------------------------------------------------------
\* What the library computes from published data.
LEMMA PublishedTypes ==
  ASSUME NEW d \in Published
  PROVE  /\ d.start \in Int /\ d.end \in Int /\ d.pre \in Int /\ d.post \in Int
         /\ d # NoData => d.end = d.start + leapDurationS /\ d.post - d.pre \in {1, -1}
BY DEF Published

LEMMA LibraryArithmetic ==
  ASSUME NEW d \in Published, d # NoData, NEW t \in Int
  PROVE  /\ apply_utc_offset(d, t) = SmearedAt(t, d.start * Nanos, d.pre * Nanos, d.post - d.pre)
         /\ d.start * Nanos \in Int /\ d.pre * Nanos \in Int
         /\ d.end * Nanos = d.start * Nanos + Smearing
         /\ d.post * Nanos = d.pre * Nanos + (d.post - d.pre) * Nanos
<1> DEFINE m == d.post - d.pre
<1>1. /\ d.start \in Int /\ d.end \in Int /\ d.pre \in Int /\ d.post \in Int
      /\ d.end = d.start + leapDurationS /\ m \in {1, -1} /\ m \in Int /\ d.post = d.pre + m
  BY PublishedTypes
<1>2. Nanos \in Int /\ leapDurationS \in Int /\ Smearing = leapDurationS * Nanos
  BY SmearConstants DEF Smearing
<1>3. d.start * Nanos \in Int /\ d.pre * Nanos \in Int
  BY <1>1, <1>2
<1>4. d.end * Nanos = d.start * Nanos + Smearing
  BY <1>1, <1>2
<1>5. d.post * Nanos = d.pre * Nanos + m * Nanos
  BY <1>1, <1>2
<1>6. ~(d.pre = 0 /\ d.post = 0)
  BY <1>1
<1> HIDE DEF m
<1>7. apply_utc_offset(d, t) = SmearedAt(t, d.start * Nanos, d.pre * Nanos, m)
  <2>1. apply_utc_offset(d, t) = apply_smear(t, d.pre * Nanos, d.post * Nanos, d.start * Nanos, d.end * Nanos, m)
    BY <1>6 DEF apply_utc_offset, m
  <2>2. CASE t > d.end * Nanos
    BY <1>4, <1>5, <2>1, <2>2, ConstantTypes, <1>3 DEF apply_smear, SmearedAt
  <2>3. CASE ~(t > d.end * Nanos) /\ t < d.start * Nanos
    BY <1>4, <1>5, <2>1, <2>3, ConstantTypes, <1>3 DEF apply_smear, SmearedAt
  <2>4. CASE ~(t > d.end * Nanos) /\ ~(t < d.start * Nanos)
    BY <1>4, <1>5, <2>1, <2>4, ConstantTypes, <1>3 DEF apply_smear, SmearedAt
  <2> QED BY <2>2, <2>3, <2>4
<1> QED BY <1>3, <1>4, <1>5, <1>7 DEF m

\* A leap second that is added, at the start, a step later and after the end of the smearing.
LEMMA LagAtEnds ==
  ASSUME NEW t \in Int, NEW start \in Int, NEW pre \in Int
  PROVE  LET lag == t - SmearedAt(t, start, pre, 1) IN
           /\ t <= start => lag = pre
           /\ t >= start + SmearStep => lag > pre
           /\ t > start + Smearing => lag = pre + Nanos
<1> DEFINE k == (t - start) \div SmearStep
<1>1. CASE t > start + Smearing \/ t < start
  BY <1>1, ConstantTypes DEF SmearedAt
<1>2. CASE ~(t > start + Smearing) /\ ~(t < start)
  <2>1. SmearedAt(t, start, pre, 1) = t - (pre + 1 * k) /\ k \in Int
    BY <1>2, ConstantTypes, StepsOfSmearing DEF SmearedAt
  <2>2. t = start => k = 0
    BY ConstantTypes
  <2>3. ASSUME t >= start + SmearStep PROVE k >= 1
    <3>1. SmearStep \div SmearStep = 1 /\ SmearStep <= t - start
      BY <2>3, ConstantTypes
    <3> QED BY <3>1, ConstantTypes, StepsOfSmearing
  <2> HIDE DEF k
  <2> QED BY <1>2, <2>1, <2>2, <2>3, ConstantTypes
<1> QED BY <1>1, <1>2

\* What the daemon makes of a table with a leap second.
LEMMA DataOfTable ==
  ASSUME NEW table, Table(table), Len(table) >= 2, NEW n, n = Len(table)
  PROVE  /\ table[n].Tleap \in Int /\ table[n].Nleap \in Int /\ table[n - 1].Nleap \in Int
         /\ table[n].Nleap - table[n - 1].Nleap \in {1, -1}
         /\ leapSecondSmearing(leapSeconds(table)) =
              [ start |-> table[n].Tleap - table[n].Nleap + 1 + (table[n - 1].Nleap + utcOffsetOriginalS),
                end |-> table[n].Tleap - table[n].Nleap + 1 + leapDurationS + (table[n - 1].Nleap + utcOffsetOriginalS),
                pre |-> table[n - 1].Nleap + utcOffsetOriginalS, post |-> table[n].Nleap + utcOffsetOriginalS ]
<1>0. table \in Seq([Tleap : Int, Nleap : Int]) /\ Len(table) \in Nat
  BY DEF Table
<1>1. n \in 2..Len(table) /\ n \in 1..Len(table) /\ n - 1 \in 1..Len(table)
  BY <1>0
<1>2. table[n] \in [Tleap : Int, Nleap : Int] /\ table[n - 1] \in [Tleap : Int, Nleap : Int]
  <2>1. \A i \in 1..Len(table) : table[i] \in [Tleap : Int, Nleap : Int]
    BY <1>0, ElementOfSeq
  <2> QED BY <1>1, <2>1
<1>3. table[n].Nleap - table[n - 1].Nleap \in {1, -1}
  BY <1>1 DEF Table
<1>4. /\ Len(leapSeconds(table)) = 2
      /\ leapSeconds(table)[2] = table[n] /\ leapSeconds(table)[1] = table[n - 1]
  BY <1>0 DEF leapSeconds
<1>5. leapSecondSmearing(leapSeconds(table)) =
        [ start |-> table[n].Tleap - table[n].Nleap + 1 + (table[n - 1].Nleap + utcOffsetOriginalS),
          end |-> table[n].Tleap - table[n].Nleap + 1 + leapDurationS + (table[n - 1].Nleap + utcOffsetOriginalS),
          pre |-> table[n - 1].Nleap + utcOffsetOriginalS, post |-> table[n].Nleap + utcOffsetOriginalS ]
  BY <1>4 DEF leapSecondSmearing
<1> QED BY <1>2, <1>3, <1>5

\* What the daemon makes of a table it can read.
LEMMA DaemonPublishes ==
  ASSUME NEW table, Table(table)
  PROVE  leapSecondSmearing(leapSeconds(table)) \in Published
<1>0. Len(table) \in Nat
  BY DEF Table
<1>1. CASE Len(table) < 2
  BY <1>1 DEF leapSeconds, leapSecondSmearing, Published, NoData
<1>2. CASE Len(table) >= 2
  <2>1. PICK T \in Int, N \in Int, O \in Int :
          /\ N - O \in {1, -1}
          /\ leapSecondSmearing(leapSeconds(table)) =
              [ start |-> T - N + 1 + (O + utcOffsetOriginalS), end |-> T - N + 1 + leapDurationS + (O + utcOffsetOriginalS),
                pre |-> O + utcOffsetOriginalS, post |-> N + utcOffsetOriginalS ]
    <3> DEFINE n == Len(table)
    <3>1. /\ table[n].Tleap \in Int /\ table[n].Nleap \in Int /\ table[n - 1].Nleap \in Int
          /\ table[n].Nleap - table[n - 1].Nleap \in {1, -1}
          /\ leapSecondSmearing(leapSeconds(table)) =
              [ start |-> table[n].Tleap - table[n].Nleap + 1 + (table[n - 1].Nleap + utcOffsetOriginalS),
                end |-> table[n].Tleap - table[n].Nleap + 1 + leapDurationS + (table[n - 1].Nleap + utcOffsetOriginalS),
                pre |-> table[n - 1].Nleap + utcOffsetOriginalS, post |-> table[n].Nleap + utcOffsetOriginalS ]
      BY <1>2, DataOfTable
    <3> table[n].Tleap \in Int /\ table[n].Nleap \in Int /\ table[n - 1].Nleap \in Int
      BY <3>1
    <3> WITNESS table[n].Tleap \in Int, table[n].Nleap \in Int, table[n - 1].Nleap \in Int
    <3> QED BY <3>1
  <2>2. utcOffsetOriginalS \in Int /\ leapDurationS \in Int
    BY SmearConstants
  <2> DEFINE start == T - N + 1 + (O + utcOffsetOriginalS)
             end == T - N + 1 + leapDurationS + (O + utcOffsetOriginalS)
             pre == O + utcOffsetOriginalS
             post == N + utcOffsetOriginalS
  <2>3. /\ start \in Int /\ end \in Int /\ pre \in Int /\ post \in Int
        /\ end = start + leapDurationS /\ post - pre \in {1, -1}
    BY <2>1, <2>2
  <2>4. leapSecondSmearing(leapSeconds(table)) = [start |-> start, end |-> end, pre |-> pre, post |-> post]
    BY <2>1
  <2> HIDE DEF start, end, pre, post
  <2> QED BY <2>3, <2>4 DEF Published
<1> QED BY <1>0, <1>1, <1>2

LEMMA WorldTables ==
  ASSUME NEW w \in SmrWorlds
  PROVE  Table(w.old) /\ Table(w.new) /\ w.from * Nanos \in Int
BY SmearTables, SmearConstants DEF Table

LEMMA SmearInvInit == SmrInit => SmearInv
<1> SUFFICES ASSUME SmrInit PROVE SmearInv
  OBVIOUS
<1>1. PICK w \in SmrWorlds :
        /\ smr = [world |-> w, table |-> w.old, tai |-> w.from * Nanos, faults |-> 0]
        /\ smrData = leapSecondSmearing(leapSeconds(w.old))
        /\ smrUtc = [utc |-> apply_utc_offset(smrData, smr.tai), tai |-> smr.tai, data |-> smrData]
  BY DEF SmrInit, UtcReading
<1>2. Table(w.old) /\ w.from * Nanos \in Int
  BY WorldTables
<1>3. smrData \in Published
  BY <1>1, <1>2, DaemonPublishes
<1> QED BY <1>1, <1>2, <1>3 DEF SmearInv

LEMMA SmearInvNext == SmearInv /\ [SmrNext]_smrVars => SmearInv'
<1> SUFFICES ASSUME SmearInv, [SmrNext]_smrVars PROVE SmearInv'
  OBVIOUS
<1>1. CASE Publish
  <2>1. leapSecondSmearing(leapSeconds(smr.table)) \in Published
    BY DaemonPublishes DEF SmearInv
  <2>2. leapSecondSmearing(<<>>) \in Published
    BY DEF leapSecondSmearing, Published, NoData
  <2>3. smrData' \in Published /\ UNCHANGED smrUtc
    BY <1>1, <2>1, <2>2 DEF Publish
  <2>4. /\ smr'.world = smr.world /\ smr'.tai = smr.tai /\ smr'.table = smr.table
        /\ smr' = [world |-> smr'.world, table |-> smr'.table, tai |-> smr'.tai, faults |-> smr'.faults]
    BY <1>1 DEF Publish, SmearInv
  <2> QED BY <2>3, <2>4 DEF SmearInv
<1>2. CASE gettime_utc
  BY <1>2 DEF gettime_utc, SmearInv
<1>3. CASE UpgradeTable
  <2>1. Table(smr.world.new)
    BY WorldTables DEF SmearInv
  <2>2. /\ smr'.world = smr.world /\ smr'.tai = smr.tai /\ smr'.table = smr.world.new
        /\ smr' = [world |-> smr'.world, table |-> smr'.table, tai |-> smr'.tai, faults |-> smr'.faults]
        /\ UNCHANGED <<smrData, smrUtc>>
    BY <1>3 DEF UpgradeTable, SmearInv
  <2> QED BY <2>1, <2>2 DEF SmearInv
<1>4. CASE Elapse
  <2>1. /\ smr'.world = smr.world /\ smr'.tai = smr.tai + 1 /\ smr'.table = smr.table
        /\ smr' = [world |-> smr'.world, table |-> smr'.table, tai |-> smr'.tai, faults |-> smr'.faults]
        /\ UNCHANGED <<smrData, smrUtc>>
    BY <1>4 DEF Elapse, SmearInv
  <2> QED BY <2>1 DEF SmearInv
<1>5. CASE UNCHANGED smrVars
  BY <1>5 DEF smrVars, SmearInv
<1> QED BY <1>1, <1>2, <1>3, <1>4, <1>5 DEF SmrNext

------------------------------------------------------------------------------
\* UTC stays between the offsets before and after the leap second.
THEOREM StaysBetweenOffsets == SmrSpec => []UtcBetweenOffsets
<1>1. SmearInv => UtcBetweenOffsets
  <2> SUFFICES ASSUME SmearInv, smrUtc.data # NoData PROVE UtcBetweenOffsets
    BY DEF UtcBetweenOffsets
  <2> DEFINE d == smrUtc.data
             m == d.post - d.pre
             start == d.start * Nanos
             pre == d.pre * Nanos
  <2>1. /\ d \in Published /\ d # NoData /\ smrUtc.tai \in Int
        /\ smrUtc.utc = apply_utc_offset(d, smrUtc.tai)
    BY DEF SmearInv
  <2>2. m \in {1, -1}
    BY <2>1, PublishedTypes
  <2>3. /\ smrUtc.utc = SmearedAt(smrUtc.tai, start, pre, m)
        /\ start \in Int /\ pre \in Int /\ d.post * Nanos = pre + m * Nanos
    BY <2>1, LibraryArithmetic
  <2> DEFINE lag == smrUtc.tai - smrUtc.utc
  <2>4. \/ pre <= lag /\ lag <= pre + m * Nanos
        \/ pre + m * Nanos <= lag /\ lag <= pre
    <3> HIDE DEF d, m, start, pre
    <3> QED BY <2>1, <2>2, <2>3, SmearedBetween
  <2> QED BY <2>3, <2>4 DEF UtcBetweenOffsets
<1> QED BY <1>1, SmearInvInit, SmearInvNext, PTL DEF SmrSpec

\* The published table says when UTC leaves the old offset and when it has the new one.
THEOREM FollowsTheTable == SmrSpec => []UtcFollowsTheTable
<1>1. SmearInv => SmearOnTime
  <2> SUFFICES ASSUME SmearInv, NEW i \in 2..Len(smr.table), i = Len(smr.table),
                      smrUtc.data = leapSecondSmearing(leapSeconds(smr.table)),
                      smr.table[i].Nleap = smr.table[i - 1].Nleap + 1
               PROVE  LET event == (smr.table[i].Tleap + utcOffsetOriginalS) * Nanos
                          old == (smr.table[i - 1].Nleap + utcOffsetOriginalS) * Nanos
                          new == (smr.table[i].Nleap + utcOffsetOriginalS) * Nanos
                          lag == smrUtc.tai - smrUtc.utc
                      IN /\ smrUtc.tai <= event => lag = old
                         /\ smrUtc.tai >= event + SmearStep => lag > old
                         /\ smrUtc.tai > event + leapDurationS * Nanos => lag = new
    BY DEF SmearOnTime
  <2> DEFINE table == smr.table
             d == smrUtc.data
             tai == smrUtc.tai
  <2>1. Table(table) /\ Len(table) >= 2 /\ tai \in Int /\ smrUtc.utc = apply_utc_offset(d, tai)
    <3>1. Table(table) /\ Len(table) \in Nat
      BY DEF SmearInv, Table
    <3> QED BY <3>1 DEF SmearInv
  <2>2. /\ table[i].Tleap \in Int /\ table[i].Nleap \in Int /\ table[i - 1].Nleap \in Int
        /\ d = [ start |-> table[i].Tleap - table[i].Nleap + 1 + (table[i - 1].Nleap + utcOffsetOriginalS),
                 end |-> table[i].Tleap - table[i].Nleap + 1 + leapDurationS + (table[i - 1].Nleap + utcOffsetOriginalS),
                 pre |-> table[i - 1].Nleap + utcOffsetOriginalS, post |-> table[i].Nleap + utcOffsetOriginalS ]
    BY <2>1, DataOfTable
  <2>3. utcOffsetOriginalS \in Int /\ table[i].Nleap = table[i - 1].Nleap + 1
    BY SmearConstants
  <2>4. /\ d.start = table[i].Tleap + utcOffsetOriginalS /\ d.post - d.pre = 1
        /\ d.pre = table[i - 1].Nleap + utcOffsetOriginalS /\ d.post = table[i].Nleap + utcOffsetOriginalS
    <3>1. PICK T \in Int, N \in Int, O \in Int, U \in Int :
            T = table[i].Tleap /\ N = table[i].Nleap /\ O = table[i - 1].Nleap /\ U = utcOffsetOriginalS
      BY <2>2, <2>3
    <3>2. N = O + 1
      BY <2>3, <3>1
    <3>3. d.start = T - N + 1 + (O + U) /\ d.pre = O + U /\ d.post = N + U
      BY <2>2, <3>1
    <3>4. T - N + 1 + (O + U) = T + U /\ (N + U) - (O + U) = 1
      BY <3>2
    <3> HIDE DEF d, table
    <3>5. d.start = T + U /\ d.post - d.pre = 1
      BY <3>3, <3>4
    <3> QED BY <3>1, <3>3, <3>5
  <2>5. d \in Published /\ d # NoData
    BY <2>4 DEF SmearInv, NoData
  <2> DEFINE event == d.start * Nanos
             old == d.pre * Nanos
  <2>6. /\ smrUtc.utc = SmearedAt(tai, event, old, 1) /\ event \in Int /\ old \in Int
        /\ d.post * Nanos = old + 1 * Nanos
    BY <2>1, <2>4, <2>5, LibraryArithmetic
  <2> HIDE DEF event, old, tai, d, table
  <2>7. /\ tai <= event => tai - smrUtc.utc = old
        /\ tai >= event + SmearStep => tai - smrUtc.utc > old
        /\ tai > event + Smearing => tai - smrUtc.utc = old + Nanos
    BY <2>1, <2>6, LagAtEnds
  <2> QED BY <2>4, <2>6, <2>7, ConstantTypes DEF event, old, tai, d, table, Smearing
<1>2. SmrSpec => []SmearOnTime
  BY <1>1, SmearInvInit, SmearInvNext, PTL DEF SmrSpec
<1> QED BY <1>2, StaysBetweenOffsets, PTL DEF UtcFollowsTheTable

\* Two readings with the same data.
LEMMA ReadingsWithSameData ==
  ASSUME NEW d \in Published, NEW t \in Int, NEW u \in Int, t <= u,
         apply_utc_offset(d, u) < apply_utc_offset(d, t)
  PROVE  /\ t <= d.end * Nanos /\ d.end * Nanos < u
         /\ apply_utc_offset(d, t) - apply_utc_offset(d, u) < Nanos - (leapDurationS * Nanos) \div SmearStep
<1>1. d # NoData
  <2> SUFFICES ASSUME d = NoData PROVE FALSE
    OBVIOUS
  <2>1. apply_utc_offset(d, t) = t - FixedOffsetS * Nanos /\ apply_utc_offset(d, u) = u - FixedOffsetS * Nanos
    BY DEF NoData, apply_utc_offset
  <2>2. FixedOffsetS * Nanos \in Int
    BY SmearConstants
  <2> QED BY <2>1, <2>2
<1> DEFINE m == d.post - d.pre
           start == d.start * Nanos
           pre == d.pre * Nanos
<1>2. m \in {1, -1}
  BY <1>1, PublishedTypes
<1>3. /\ apply_utc_offset(d, t) = SmearedAt(t, start, pre, m)
      /\ apply_utc_offset(d, u) = SmearedAt(u, start, pre, m)
      /\ start \in Int /\ pre \in Int /\ d.end * Nanos = start + Smearing
  BY <1>1, LibraryArithmetic
<1> HIDE DEF m, start, pre
<1>4. /\ t <= start + Smearing /\ start + Smearing < u
      /\ SmearedAt(t, start, pre, m) - SmearedAt(u, start, pre, m) < Nanos - Smearing \div SmearStep
  BY <1>2, <1>3, SmearedBack
<1> QED BY <1>3, <1>4 DEF Smearing

LEMMA UtcIsAnInteger ==
  ASSUME NEW d \in Published, NEW t \in Int
  PROVE  apply_utc_offset(d, t) \in Int
<1>1. CASE d = NoData
  <2>1. FixedOffsetS * Nanos \in Int
    BY SmearConstants
  <2> QED BY <1>1, <2>1 DEF NoData, apply_utc_offset
<1>2. CASE d # NoData
  <2>1. PICK start \in Int, pre \in Int, m \in {1, -1} : apply_utc_offset(d, t) = SmearedAt(t, start, pre, m)
    BY <1>2, LibraryArithmetic, PublishedTypes
  <2>2. (t - start) \div SmearStep \in Int
    BY ConstantTypes, StepsOfSmearing
  <2> QED BY <2>1, <2>2, ConstantTypes DEF SmearedAt
<1> QED BY <1>1, <1>2

\* UTC goes back only across the end of the smearing, and by less than what was left unsmeared.
THEOREM BackOnlyAtEnd == SmrSpec => UtcBackOnlyAtEnd
<1> DEFINE A == LET d == smrUtc.data IN
      smrUtc'.data = d /\ smrUtc'.tai >= smrUtc.tai /\ smrUtc'.utc < smrUtc.utc =>
        /\ smrUtc.tai <= d.end * Nanos /\ d.end * Nanos < smrUtc'.tai
        /\ smrUtc.utc - smrUtc'.utc < Nanos - (leapDurationS * Nanos) \div SmearStep
<1>1. SmearInv /\ SmearInv' => A
  <2> SUFFICES ASSUME SmearInv, SmearInv', smrUtc'.data = smrUtc.data, smrUtc'.tai >= smrUtc.tai,
                      smrUtc'.utc < smrUtc.utc
               PROVE  /\ smrUtc.tai <= smrUtc.data.end * Nanos /\ smrUtc.data.end * Nanos < smrUtc'.tai
                      /\ smrUtc.utc - smrUtc'.utc < Nanos - (leapDurationS * Nanos) \div SmearStep
    OBVIOUS
  <2>1. /\ smrUtc.data \in Published /\ smrUtc.tai \in Int /\ smrUtc'.tai \in Int
        /\ smrUtc.utc = apply_utc_offset(smrUtc.data, smrUtc.tai)
        /\ smrUtc'.utc = apply_utc_offset(smrUtc.data, smrUtc'.tai)
    BY DEF SmearInv
  <2>2. smrUtc.tai <= smrUtc'.tai
    BY <2>1
  <2> QED BY <2>1, <2>2, ReadingsWithSameData
<1> QED BY <1>1, SmearInvInit, SmearInvNext, PTL DEF SmrSpec, UtcBackOnlyAtEnd

\* With a smearing of SmearStep seconds, 65000 s and not the 62500 s of the code, UTC would never go back.
THEOREM NeverBackWithoutRemainder ==
  ASSUME leapDurationS = SmearStep
  PROVE  SmrSpec => UtcNeverBack
<1> DEFINE A == smrUtc'.data = smrUtc.data /\ smrUtc'.tai >= smrUtc.tai => smrUtc'.utc >= smrUtc.utc
<1>1. Nanos - (leapDurationS * Nanos) \div SmearStep = 0
  <2>1. Nanos \in Nat \ {0} /\ SmearStep \in Nat \ {0}
    BY SmearConstants
  <2>2. (SmearStep * Nanos) \div SmearStep = Nanos
    BY <2>1
  <2> QED BY <2>1, <2>2
<1>2. SmearInv /\ SmearInv' => A
  <2> SUFFICES ASSUME SmearInv, SmearInv', smrUtc'.data = smrUtc.data, smrUtc'.tai >= smrUtc.tai
               PROVE  smrUtc'.utc >= smrUtc.utc
    OBVIOUS
  <2>1. /\ smrUtc.data \in Published /\ smrUtc.tai \in Int /\ smrUtc'.tai \in Int
        /\ smrUtc.utc = apply_utc_offset(smrUtc.data, smrUtc.tai)
        /\ smrUtc'.utc = apply_utc_offset(smrUtc.data, smrUtc'.tai)
    BY DEF SmearInv
  <2>2. smrUtc.utc \in Int /\ smrUtc'.utc \in Int
    BY <2>1, UtcIsAnInteger
  <2>3. ~(smrUtc'.utc < smrUtc.utc)
    <3> SUFFICES ASSUME smrUtc'.utc < smrUtc.utc PROVE FALSE
      OBVIOUS
    <3>1. smrUtc.utc - smrUtc'.utc < Nanos - (leapDurationS * Nanos) \div SmearStep
      BY <2>1, ReadingsWithSameData
    <3> QED BY <1>1, <2>2, <3>1
  <2> QED BY <2>2, <2>3
<1> QED BY <1>2, SmearInvInit, SmearInvNext, PTL DEF SmrSpec, UtcNeverBack
==============================================================================
