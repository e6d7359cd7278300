------------------------------ MODULE SptpTick ------------------------------
(***************************************************************************)
(* The main loop of the SPTP client (ptp/sptp/client): each tick asks      *)
(* every server that is not in backoff, and processResults updates the     *)
(* backoff, selects the best grandmaster, reorders the local priorities    *)
(* and drives the PI servo (servo/pi.go) with the offset of the best one.  *)
(*                                                                         *)
(* Of an offset the model keeps what the code asks of it: whether it is    *)
(* above FirstStepThreshold and whether the filter takes it for a spike.   *)
(* Of an announce it keeps class and accuracy: ptp4u sends constants in    *)
(* the other fields that are compared, and its clock identity both as      *)
(* GrandmasterIdentity and in SourcePortIdentity.                          *)
(***************************************************************************)
EXTENDS Integers, Sequences, FiniteSets, SequencesExt

CONSTANTS Servers, Prio,         \* cfg.Servers: the addresses and their priorities
          Identity,              \* the clock identity each server announces
          Announces,             \* the answers: class and accuracy (smaller is
                                 \* better), cf: a correction field is negative
          MaxClockClass, MaxClockAccuracy,
          Mode, Step, MaxValue,  \* cfg.Backoff
          Second, Width,         \* time.Second and the bits of time.Duration
          Interval, Durations,   \* cfg.Interval and the times between two ticks
          FirstStep,             \* whether cfg.FirstStepThreshold is set
          Samples,               \* offsets: big, spike; time since the first sample
                                 \* of the servo: late (none), soon (too little)
          RingSize, MaxSkipCount,\* filter configuration, 30 and 15 in the code
          MaxFailures            \* bound on the failures of a server in a row

None == "none"

ASSUME ConstantsAssumption ==
    /\ IsFiniteSet(Servers) /\ Servers # {} /\ None \notin Servers
    /\ Prio \in [Servers -> Int] /\ Identity \in [Servers -> Nat]
    /\ Announces \subseteq [class : Nat, accuracy : Nat, cf : BOOLEAN]
    /\ Samples \subseteq [big : BOOLEAN, spike : BOOLEAN, late : BOOLEAN, soon : BOOLEAN]
    /\ MaxClockClass \in Nat /\ MaxClockAccuracy \in Nat /\ FirstStep \in BOOLEAN
    /\ Second \in Nat \ {0} /\ Width \in Nat \ {0}
    /\ Interval \in Nat \ {0} /\ Durations \subseteq Nat \ {0}
    /\ RingSize \in Nat \ {0} /\ MaxSkipCount \in Nat \ {0} /\ MaxFailures \in Nat

\* BackoffConfig.Validate; and the powers in inc fit in a Duration before they
\* are multiplied by Second, so that their conversion from float64 is defined.
Validate ==
    /\ Mode \in {"", "fixed", "linear", "exponential"}
    /\ Step \in Nat /\ MaxValue \in Nat
    /\ Mode # "" => Step > 0
    /\ Mode \in {"linear", "exponential"} => MaxValue > 0
    /\ Mode = "exponential" => Step^MaxFailures < 2^(Width - 1)

ASSUME ConfigAssumption == Validate

VARIABLES priorities, bestGM,
          counter, value,   \* the backoff of each server
          pi,               \* PiServo: count 0..2, FirstUpdate, and the filter's
                            \* offsetSamplesCount 0..RingSize and skippedCount 0..MaxSkipCount
          ticked,           \* p.lastTick is set
          steps             \* how many times the clock was stepped

selection == <<priorities, bestGM>>
backoff == <<counter, value>>
vars == <<selection, backoff, pi, ticked, steps>>

Init ==
    /\ priorities = Prio /\ bestGM = None
    /\ counter = [s \in Servers |-> 0] /\ value = [s \in Servers |-> 0]
    /\ pi = [count |-> 0, firstUpdate |-> FirstStep, samples |-> 0, skipped |-> 0]
    /\ ticked = FALSE /\ steps = 0

-----------------------------------------------------------------------------
(* backoff.go *)

\* The value of x in a signed integer of Width bits.
Wrap(x) == LET m == x % 2^Width IN IF m < 2^(Width - 1) THEN m ELSE m - 2^Width

active(v) == v # 0

\* Mutant of dec: the receiver is a copy, the new value is lost.
decCopy(v, d) == v

dec(v, d) == IF v - d < Second THEN 0 ELSE v - d

inc(c) ==
    LET v == CASE Mode = "fixed" -> Wrap(Step * Second)
               [] Mode = "linear" -> Wrap(c * Step * Second)
               [] Mode = "exponential" -> Wrap(Step^c * Second)
               [] OTHER -> 0
        max == Wrap(MaxValue * Second)
    IN  IF v > max THEN max ELSE v

\* handleExchangeError and reset: ok answered, the others that were asked failed.
UpdateBackoff(ok, d) ==
    LET asked == {s \in Servers : ~active(value[s])}
        failed == asked \ ok
    IN  /\ ok \subseteq asked
        /\ \A s \in failed : counter[s] < MaxFailures
        /\ counter' = [s \in Servers |->
              CASE s \in ok -> 0
                [] s \in failed -> IF Mode = "" THEN 0 ELSE counter[s] + 1
                [] OTHER -> counter[s]]
        /\ value' = [s \in Servers |->
              CASE s \in ok -> 0
                [] s \in failed -> inc(counter[s] + 1)
                [] OTHER -> dec(value[s], d)]

-----------------------------------------------------------------------------
(* Selection: bmca.go, bmc.go and processResults *)

\* Mutant of dscmp: an early return is missing, A better by class is overruled.
dscmpFallThrough(a, b) == b.class < a.class \/ b.accuracy < a.accuracy

\* Whether dscmp says that B is better.
dscmp(a, b) ==
    \/ b.class < a.class
    \/ b.class = a.class /\ b.accuracy < a.accuracy

\* Whether TelcoDscmp says that t is better than s, with the local priorities
\* looked up by identity (addrOf is idsToClients).
TelcoDscmp(s, t, results, addrOf) ==
    LET a == results[s]
        b == results[t]
        localPrio(u) == priorities[addrOf[Identity[u]]]
    IN  \/ dscmp(a, b)
        \/ /\ ~dscmp(b, a)
           /\ \/ localPrio(t) < localPrio(s)
              \/ localPrio(t) = localPrio(s) /\ Identity[t] < Identity[s]

\* bmca visits the results in the order of the map's iteration.
bmca(results, addrOf, order) ==
    LET usable == SelectSeq(order, LAMBDA s : ~results[s].cf)
        Better(s, t) == IF TelcoDscmp(s, t, results, addrOf) THEN t ELSE s
        best == FoldLeft(Better, Head(usable), Tail(usable))
    IN  IF \/ usable = <<>>
           \/ results[best].class > MaxClockClass
           \/ results[best].accuracy > MaxClockAccuracy
        THEN None ELSE best

reprioritize(best) ==
    LET shifted == [s \in Servers |-> priorities[s] - (priorities[best] - 1)]
    IN  [s \in Servers |-> IF shifted[s] < 1 THEN shifted[s] + Cardinality(Servers)
                                             ELSE shifted[s]]

\* idsToClients: with one identity behind several addresses, the last one visited.
idsToClients(ok) ==
    {f \in [{Identity[s] : s \in ok} -> ok] : \A i \in DOMAIN f : Identity[f[i]] = i}

Elect(ok, results, addrOf, order) ==
    LET best == bmca(results, addrOf, order)
        bestAddr == IF best \in ok THEN addrOf[Identity[best]] ELSE None
    IN  /\ bestGM' = bestAddr
        /\ priorities' = IF bestAddr \in {None, bestGM} THEN priorities
                         ELSE reprioritize(bestAddr)

-----------------------------------------------------------------------------
(* servo/pi.go *)

IsSpike(x) ==
    /\ pi.count = 2
    /\ pi.skipped >= MaxSkipCount \/ (pi.samples = RingSize /\ x.spike)

\* Mutant of AfterSpike: the reset forgets the filter.
AfterSpikeKeepFilter ==
    IF pi.skipped >= MaxSkipCount THEN [pi EXCEPT !.count = 0]
    ELSE [pi EXCEPT !.skipped = @ + 1]

\* What IsSpike leaves behind when it says yes: a reset servo, or one more skipped.
AfterSpike ==
    IF pi.skipped >= MaxSkipCount
    THEN [pi EXCEPT !.count = 0, !.samples = 0, !.skipped = 0]
    ELSE [pi EXCEPT !.skipped = @ + 1]

\* The state that Sample returns; sptp leaves StepThreshold at 0.
SampleState(x) ==
    CASE pi.count = 2 -> "LOCKED"
      [] pi.count = 1 /\ ~x.late /\ ~x.soon -> IF pi.firstUpdate /\ x.big THEN "JUMP" ELSE "LOCKED"
      [] OTHER -> "INIT"

SampleCount(x) ==
    CASE pi.count = 0 -> 1
      [] pi.count = 1 -> IF x.late THEN 0 ELSE IF x.soon THEN 1 ELSE 2
      [] OTHER -> 2

\* Mutant of AfterSample: processResults does not call UnsetFirstUpdate.
AfterSampleKeepFirst(x) ==
    IF SampleState(x) = "LOCKED"
    THEN [pi EXCEPT !.count = 2, !.skipped = 0, !.samples = IF @ = RingSize THEN @ ELSE @ + 1]
    ELSE [pi EXCEPT !.count = SampleCount(x)]

\* The servo after Sample and, when it is locked, UnsetFirstUpdate.
AfterSample(x) ==
    IF SampleState(x) = "LOCKED"
    THEN [pi EXCEPT !.count = 2, !.skipped = 0, !.firstUpdate = FALSE,
                    !.samples = IF @ = RingSize THEN @ ELSE @ + 1]
    ELSE [pi EXCEPT !.count = SampleCount(x)]

\* What processResults does with the offset of the best master: nothing without
\* one, mean frequency for a spike or a bad tick, else a sample for the servo.
Discipline(x, badTick) ==
    \/ bestGM' = None /\ UNCHANGED <<pi, steps>>
    \/ bestGM' # None /\ IsSpike(x) /\ pi' = AfterSpike /\ UNCHANGED steps
    \/ bestGM' # None /\ ~IsSpike(x) /\ badTick /\ UNCHANGED <<pi, steps>>
    \/ /\ bestGM' # None /\ ~IsSpike(x) /\ ~badTick
       /\ pi' = AfterSample(x)
       /\ steps' = IF SampleState(x) = "JUMP" THEN steps + 1 ELSE steps

-----------------------------------------------------------------------------
\* One tick of runInternal: exchange with the servers and processResults.
Tick(ok, results, addrOf, order, x, d) ==
    LET tickDuration == IF ticked THEN d ELSE 0
        badTick == ticked /\ (100 * d > 110 * Interval \/ 100 * d < 90 * Interval)
    IN  /\ UpdateBackoff(ok, tickDuration)
        /\ Elect(ok, results, addrOf, order)
        /\ Discipline(x, badTick)
        /\ ticked' = TRUE

Next ==
    \E ok \in SUBSET Servers :
        \E order \in SetToSeqs(ok), addrOf \in idsToClients(ok), x \in Samples, d \in Durations :
            \E results \in [ok -> Announces] : Tick(ok, results, addrOf, order, x, d)

Spec == Init /\ [][Next]_vars

\* The timer of runInternal is reset before every tick, so ticks keep coming.
FairSpec == Spec /\ WF_vars(Next)

-----------------------------------------------------------------------------
(* Properties *)

\* sptp.go:447 "make sure we don't step after we get into the locked state": the
\* clock is stepped at most once, however often spikes reset the servo, the best
\* master changes or is lost, and ticks are late.
AtMostOneStep == steps <= 1

\* The order in which Go iterates over the map of results does not decide which
\* master bmca selects, whatever the answers are, as long as no two servers
\* announce the same identity.
OrderIndependent ==
    \A ok \in SUBSET Servers :
        \A o1, o2 \in SetToSeqs(ok), addrOf \in idsToClients(ok) :
            \A results \in [ok -> Announces] :
                bmca(results, addrOf, o1) = bmca(results, addrOf, o2)

\* reprioritize keeps the priorities a permutation of 1..n, if that is what was
\* configured: after any history of switches no two servers share a priority.
PrioritiesPermuted == {priorities[s] : s \in Servers} = 1..Cardinality(Servers)

\* A best master that answers with a usable measurement is not left for one that
\* announces no better quality: the client does not flap between equal masters.
NoFlap ==
    bestGM # None =>
        \A ok \in {o \in SUBSET Servers : bestGM \in o} :
        \A order \in SetToSeqs(ok), addrOf \in idsToClients(ok) :
        \A results \in {r \in [ok -> Announces] : ~r[bestGM].cf} :
            LET best == bmca(results, addrOf, order)
            IN  best \in {None, bestGM} \/ dscmp(results[bestGM], results[best])

\* A server in backoff is asked again: the remaining time always reaches zero.
BackoffEnds == \A s \in Servers : (value[s] # 0) ~> (value[s] = 0)

\* A servo that is not locked has an empty filter: IsSpike's reset throws the
\* samples away with the count, so that an offset of the time before the reset
\* never decides whether one after it is a spike.
FilterFresh == pi.count < 2 => pi.samples = 0 /\ pi.skipped = 0

\* backoff_test.go:105 "bumping exponential backoff over max value produces max
\* value": a failure whose exponential backoff is above the maximum sets it to
\* the maximum.
MaxedOut ==
    [][\A s \in Servers : counter'[s] > counter[s] /\ Step^(counter'[s]) >= MaxValue
                            => value'[s] = MaxValue * Second]_vars
=============================================================================
