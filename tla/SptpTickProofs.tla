--------------------------- MODULE SptpTickProofs ---------------------------
(* The servo and the priorities of the SPTP client, for every configuration. *)
EXTENDS SptpTick, FiniteSetTheorems, TLAPS

\* Types of the state of the servo.
PiType == pi \in [count : 0..2, firstUpdate : BOOLEAN, samples : 0..RingSize,
                  skipped : 0..MaxSkipCount]

(***************************************************************************)
(* AtMostOneStep is not inductive. A step leaves the servo at count 2 with *)
(* FirstUpdate still set, and only a reset by spikes could bring it back   *)
(* to count 1; but spikes are only told apart by a full filter, and the    *)
(* first sample in the filter clears FirstUpdate.                          *)
(***************************************************************************)
StepInv ==
    /\ PiType
    /\ steps \in {0, 1}
    /\ steps = 1 => pi.count = 2 \/ ~pi.firstUpdate
    /\ pi.samples > 0 => ~pi.firstUpdate
    /\ pi.skipped > 0 => pi.samples = RingSize
    /\ pi.count < 2 => pi.samples = 0 /\ pi.skipped = 0

\* A sample, a spike, a bad tick and a tick without a master keep StepInv.
LEMMA DisciplineStepInv ==
    ASSUME StepInv, NEW x \in Samples, NEW badTick \in BOOLEAN, Discipline(x, badTick)
    PROVE  StepInv'
<1> USE ConstantsAssumption
<1>1. CASE UNCHANGED <<pi, steps>>
  BY <1>1 DEF StepInv, PiType
<1>2. CASE IsSpike(x) /\ pi' = AfterSpike /\ UNCHANGED steps
  <2>1. CASE pi.skipped >= MaxSkipCount
    <3>1. pi' = [pi EXCEPT !.count = 0, !.samples = 0, !.skipped = 0] /\ steps' = steps
      BY <1>2, <2>1 DEF AfterSpike
    <3>2. pi.samples = RingSize /\ ~pi.firstUpdate
      BY <2>1 DEF StepInv, PiType
    <3>3. /\ pi'.count = 0 /\ pi'.samples = 0 /\ pi'.skipped = 0
          /\ pi'.firstUpdate = pi.firstUpdate
      BY <3>1 DEF StepInv, PiType
    <3>4. PiType'
      <4>1. pi' = [count |-> 0, firstUpdate |-> pi.firstUpdate, samples |-> 0, skipped |-> 0]
        BY <3>1 DEF StepInv, PiType
      <4>2. pi.firstUpdate \in BOOLEAN /\ 0 \in 0..2 /\ 0 \in 0..RingSize /\ 0 \in 0..MaxSkipCount
        BY DEF StepInv, PiType
      <4> QED BY <4>1, <4>2 DEF PiType
    <3> QED BY <3>1, <3>2, <3>3, <3>4 DEF StepInv
  <2>2. CASE ~(pi.skipped >= MaxSkipCount)
    BY <1>2, <2>2 DEF StepInv, PiType, AfterSpike, IsSpike
  <2> QED BY <2>1, <2>2
<1>3. CASE /\ pi' = AfterSample(x)
           /\ steps' = IF SampleState(x) = "JUMP" THEN steps + 1 ELSE steps
  <2>1. CASE SampleState(x) = "LOCKED"
    <3>1. /\ pi' = [pi EXCEPT !.count = 2, !.skipped = 0, !.firstUpdate = FALSE,
                              !.samples = IF @ = RingSize THEN @ ELSE @ + 1]
          /\ steps' = steps
      BY <1>3, <2>1 DEF AfterSample
    <3> DEFINE m == IF pi.samples = RingSize THEN pi.samples ELSE pi.samples + 1
    <3>2. m \in 0..RingSize /\ 0 \in 0..MaxSkipCount /\ 2 \in 0..2
      BY DEF StepInv, PiType
    <3>3. pi' = [count |-> 2, firstUpdate |-> FALSE, samples |-> m, skipped |-> 0]
      BY <3>1 DEF StepInv, PiType
    <3> HIDE DEF m
    <3>4. /\ pi'.count = 2 /\ pi'.samples = m /\ pi'.skipped = 0 /\ pi'.firstUpdate = FALSE
          /\ PiType'
      BY <3>2, <3>3 DEF PiType
    <3> QED BY <3>1, <3>4 DEF StepInv
  <2>2. CASE SampleState(x) = "JUMP"
    <3>1. pi.count = 1 /\ ~x.late /\ ~x.soon /\ pi.firstUpdate
      BY <2>2 DEF SampleState, StepInv, PiType
    <3>2. SampleCount(x) = 2
      BY <3>1 DEF SampleCount
    <3>3. pi' = [pi EXCEPT !.count = 2] /\ steps' = steps + 1
      BY <1>3, <2>2, <3>2 DEF AfterSample
    <3> QED BY <3>1, <3>3 DEF StepInv, PiType
  <2>3. CASE SampleState(x) = "INIT"
    <3>1. pi.count \in {0, 1} /\ SampleCount(x) \in {0, 1}
      BY <2>3 DEF SampleState, SampleCount, StepInv, PiType
    <3>2. pi' = [pi EXCEPT !.count = SampleCount(x)] /\ steps' = steps
      BY <1>3, <2>3 DEF AfterSample
    <3> QED BY <3>1, <3>2 DEF StepInv, PiType
  <2> QED BY <2>1, <2>2, <2>3 DEF SampleState
<1> QED BY <1>1, <1>2, <1>3 DEF Discipline

\* StepInv is an inductive invariant of the client.
THEOREM StepInvariant == Spec => []StepInv
<1>1. Init => StepInv
  BY ConstantsAssumption DEF Init, StepInv, PiType
<1>2. StepInv /\ [Next]_vars => StepInv'
  <2> SUFFICES ASSUME StepInv, [Next]_vars PROVE StepInv'
    OBVIOUS
  <2>1. CASE UNCHANGED vars
    BY <2>1 DEF vars, StepInv, PiType
  <2>2. CASE Next
    <3>1. PICK x \in Samples, badTick \in BOOLEAN : Discipline(x, badTick)
      BY <2>2 DEF Next, Tick
    <3> QED BY <3>1, DisciplineStepInv
  <2> QED BY <2>1, <2>2
<1> QED BY <1>1, <1>2, PTL DEF Spec

\* Every history of ticks steps the clock at most once: processResults clears
\* FirstUpdate with the first locked sample, before any spike can reset the servo.
THEOREM StepsAtMostOnce == Spec => []AtMostOneStep
<1>1. StepInv => AtMostOneStep
  BY DEF StepInv, AtMostOneStep
<1> QED BY <1>1, StepInvariant, PTL

\* A servo that is not locked has an empty filter, after any number of resets.
THEOREM FilterIsFresh == Spec => []FilterFresh
<1>1. StepInv => FilterFresh
  BY DEF StepInv, FilterFresh
<1> QED BY <1>1, StepInvariant, PTL

-----------------------------------------------------------------------------
n == Cardinality(Servers)

\* What reprioritize needs and keeps: every priority from 1 to n is taken. With n
\* servers that also means that no two share one.
PrioInv == bestGM \in Servers \cup {None} /\ priorities \in [Servers -> Int] /\ PrioritiesPermuted

\* Rotating a permutation of 1..n gives a permutation of 1..n.
LEMMA ReprioritizePermutes ==
    ASSUME PrioInv, NEW best \in Servers
    PROVE  /\ reprioritize(best) \in [Servers -> Int]
           /\ {reprioritize(best)[s] : s \in Servers} = 1..n
<1> DEFINE k == priorities[best] - 1
           r == reprioritize(best)
<1>1. n \in Nat
  BY ConstantsAssumption, FS_CardinalityType DEF n
<1>2. \A s \in Servers : priorities[s] \in 1..n
  BY DEF PrioInv, PrioritiesPermuted, n
<1>3. \A i \in 1..n : \E s \in Servers : priorities[s] = i
  BY DEF PrioInv, PrioritiesPermuted, n
<1>4. k \in 0..(n - 1)
  BY <1>1, <1>2
<1>5. r = [s \in Servers |-> IF priorities[s] - k < 1 THEN priorities[s] - k + n
                                                     ELSE priorities[s] - k]
  BY DEF reprioritize, n
<1> HIDE DEF k, r
<1>6. \A s \in Servers : r[s] \in 1..n
  BY <1>1, <1>2, <1>4, <1>5
<1>7. ASSUME NEW i \in 1..n PROVE \E s \in Servers : r[s] = i
  <2>1. CASE i + k <= n
    <3>1. PICK s \in Servers : priorities[s] = i + k
      BY <1>1, <1>3, <1>4, <2>1
    <3> QED BY <1>1, <1>4, <1>5, <3>1
  <2>2. CASE i + k > n
    <3>1. PICK s \in Servers : priorities[s] = i + k - n
      BY <1>1, <1>3, <1>4, <2>2
    <3> QED BY <1>1, <1>4, <1>5, <3>1
  <2> QED BY <2>1, <2>2, <1>1, <1>4
<1> QED BY <1>1, <1>5, <1>6, <1>7 DEF r

\* If the configured priorities are 1..n, no history of switches, failures and
\* lost masters makes two servers share a priority or leaves a gap.
THEOREM PrioritiesStayPermuted ==
    ASSUME {Prio[s] : s \in Servers} = 1..Cardinality(Servers)
    PROVE  Spec => []PrioritiesPermuted
<1>1. Init => PrioInv
  BY ConstantsAssumption DEF Init, PrioInv, PrioritiesPermuted
<1>2. PrioInv /\ [Next]_vars => PrioInv'
  <2> SUFFICES ASSUME PrioInv, [Next]_vars PROVE PrioInv'
    OBVIOUS
  <2>1. CASE UNCHANGED vars
    BY <2>1 DEF vars, selection, PrioInv, PrioritiesPermuted
  <2>2. CASE Next
    <3>1. PICK ok \in SUBSET Servers : \E order \in SetToSeqs(ok), addrOf \in idsToClients(ok) :
             \E results \in [ok -> Announces] : Elect(ok, results, addrOf, order)
      BY <2>2 DEF Next, Tick
    <3>2. PICK order \in SetToSeqs(ok), addrOf \in idsToClients(ok), results \in [ok -> Announces] :
             Elect(ok, results, addrOf, order)
      BY <3>1
    <3>3. \A s \in ok : addrOf[Identity[s]] \in Servers
      BY <3>2 DEF idsToClients
    <3>4. bestGM' \in Servers \cup {None}
      BY <3>2, <3>3 DEF Elect
    <3>5. priorities' = priorities \/ (bestGM' \in Servers /\ priorities' = reprioritize(bestGM'))
      BY <3>2, <3>4 DEF Elect
    <3>6. CASE priorities' = priorities
      BY <3>4, <3>6 DEF PrioInv, PrioritiesPermuted
    <3>7. CASE bestGM' \in Servers /\ priorities' = reprioritize(bestGM')
      <4>1. PICK best \in Servers : best = bestGM'
        BY <3>7
      <4>2. priorities' = reprioritize(best)
        BY <3>7, <4>1
      <4>3. /\ priorities' \in [Servers -> Int]
            /\ {priorities'[s] : s \in Servers} = 1..n
        BY <4>2, ReprioritizePermutes
      <4> QED BY <3>4, <4>3 DEF PrioInv, PrioritiesPermuted, n
    <3> QED BY <3>5, <3>6, <3>7
  <2> QED BY <2>1, <2>2
<1>3. PrioInv => PrioritiesPermuted
  BY DEF PrioInv
<1> QED BY <1>1, <1>2, <1>3, PTL DEF Spec
=============================================================================
