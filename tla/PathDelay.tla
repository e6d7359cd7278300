------------------------------ MODULE PathDelay ------------------------------
(* The path delay of an SPTP client (ptp/sptp/client/measurements.go, window.go): each complete
   exchange gives a delay, which is filtered, and an offset from the filtered delay.  SptpExchange is
   about which timestamps make an exchange.

   Durations are whole nanoseconds and the sums of the window exact, as float64 keeps them. *)
EXTENDS Integers, Sequences, SequencesExt, FiniteSets, FiniteSetsExt

CONSTANTS
  PdlConfigs,     \* MeasurementConfigs: [Filter, FilterLength, DiscardFilterEnabled, DiscardBelow, DiscardFrom, DiscardMultiplier]
  PdlDelays,      \* how long a packet takes, without what transparent clocks correct
  PdlOffset,      \* how far the client's clock is ahead of the server's
  PdlMaxExchanges \* bound: exchanges

VARIABLE pdl      \* [cfg, window, pathDelay, accepted, result, count]: accepted is the history

FilterNone == ""
FilterMedian == "median"
FilterMean == "mean"

\* Division of durations, and the conversion of a float64 to one, truncate towards zero.
Quotient(n, d) == IF n >= 0 THEN n \div d ELSE -((-n) \div d)

------------------------------------------------------------------------------
(* slidingWindow: the newest sample first. *)

newSlidingWindow(size) == [size |-> IF size < 1 THEN 1 ELSE size, samples |-> <<>>, sum |-> 0]
Full(w) == Len(w.samples) = w.size

add(w, sample) ==
  [w EXCEPT !.sum = @ + sample - (IF Full(w) THEN w.samples[w.size] ELSE 0),
            !.samples = <<sample>> \o (IF Full(w) THEN Front(@) ELSE @)]

median(w) ==
  LET c == SortSeq(w.samples, <)
      l == Len(c)
  IN IF l % 2 = 0 THEN Quotient(c[l \div 2] + c[l \div 2 + 1], 2) ELSE c[l \div 2 + 1]
windowMean(w) == Quotient(w.sum, Len(w.samples))

------------------------------------------------------------------------------
(* measurements. *)

applyDelay(m, newDelay) ==
  LET w == add(m.window, newDelay)
  IN [m EXCEPT !.window = w,
               !.pathDelay = CASE m.cfg.Filter = FilterMedian -> median(w)
                               [] m.cfg.Filter = FilterMean -> windowMean(w)
                               [] OTHER -> newDelay,
               !.accepted = <<newDelay>> \o @]

\* Mutant of Discarded: a high delay is compared with the last one.
DiscardedByLast(m, newDelay, c1, c2) ==
  LET maxPathDelay == m.cfg.DiscardMultiplier * Head(m.window.samples) IN
  /\ m.window.samples # <<>> /\ m.cfg.DiscardFilterEnabled
  /\ \/ newDelay < m.cfg.DiscardBelow
     \/ /\ newDelay > m.cfg.DiscardFrom /\ newDelay > maxPathDelay
        /\ maxPathDelay > m.cfg.DiscardBelow /\ Full(m.window)
     \/ c1 < 0 \/ c2 < 0

Discarded(m, newDelay, c1, c2) ==
  LET maxPathDelay == m.cfg.DiscardMultiplier * m.pathDelay IN
  /\ m.window.samples # <<>> /\ m.cfg.DiscardFilterEnabled
  /\ \/ newDelay < m.cfg.DiscardBelow
     \/ /\ newDelay > m.cfg.DiscardFrom /\ newDelay > maxPathDelay
        /\ maxPathDelay > m.cfg.DiscardBelow /\ Full(m.window)
     \/ c1 < 0 \/ c2 < 0

\* Mutant of latestMeasurement: the offset is from the path delay before the exchange.
latestMeasurementStale(m, S2CDelay, C2SDelay, c1, c2) ==
  LET newDelay == Quotient(C2SDelay + S2CDelay, 2)
      bad == Discarded(m, newDelay, c1, c2)
      n == IF bad THEN m ELSE applyDelay(m, newDelay)
  IN [n EXCEPT !.result = [Offset |-> S2CDelay - m.pathDelay, Delay |-> n.pathDelay, BadDelay |-> bad]]

\* latest, from the two delays of the last complete exchange.
latestMeasurement(m, S2CDelay, C2SDelay, c1, c2) ==
  LET newDelay == Quotient(C2SDelay + S2CDelay, 2)
      bad == Discarded(m, newDelay, c1, c2)
      n == IF bad THEN m ELSE applyDelay(m, newDelay)
  IN [n EXCEPT !.result = [Offset |-> S2CDelay - n.pathDelay, Delay |-> n.pathDelay, BadDelay |-> bad]]

------------------------------------------------------------------------------
NoMeasurement == [Offset |-> 0, Delay |-> 0, BadDelay |-> FALSE]

newMeasurements(cfg) ==
  [ cfg |-> cfg, window |-> newSlidingWindow(cfg.FilterLength), pathDelay |-> 0, accepted |-> <<>>,
    result |-> NoMeasurement, count |-> 0 ]

\* MeasurementConfig.Validate.
Valid(cfg) ==
  /\ cfg.FilterLength >= 0 /\ cfg.Filter \in {FilterNone, FilterMean, FilterMedian}
  /\ cfg.DiscardFilterEnabled =>
       /\ cfg.DiscardMultiplier >= 2
       /\ cfg.DiscardFrom > 0 => cfg.DiscardFrom > cfg.DiscardBelow

PdlInit == \E cfg \in PdlConfigs : Valid(cfg) /\ pdl = newMeasurements(cfg)
PdlOff == pdl = [count |-> -1]

\* One exchange: a packet each way, and a transparent clock that may be wrong about the Sync.
PdlNext ==
  /\ pdl.count \in 0..(PdlMaxExchanges - 1)
  /\ \E there \in PdlDelays, c1 \in {-1, 0} : \E back \in {there, Min(PdlDelays)} :
       pdl' = [latestMeasurement(pdl, there + PdlOffset - c1, back - PdlOffset, c1, 0) EXCEPT !.count = @ + 1]

------------------------------------------------------------------------------
\* From the first exchange on the path delay is that of the filter over the last FilterLength delays
\* that were accepted: what left the window or was discarded has no part in it.
DelayIsOfLastAccepted ==
  pdl.count > 0 =>
    LET n == Min({Len(pdl.accepted), pdl.window.size})
        last == SubSeq(pdl.accepted, 1, n)
        below(x) == Cardinality({i \in 1..n : last[i] < x})
        above(x) == Cardinality({i \in 1..n : last[i] > x})
        mids == {last[i] : i \in {j \in 1..n : 2 * below(last[j]) <= n /\ 2 * above(last[j]) <= n}}
    IN /\ n > 0
       /\ CASE pdl.cfg.Filter = FilterNone -> pdl.pathDelay = last[1]
            [] pdl.cfg.Filter = FilterMean -> pdl.pathDelay = Quotient(FoldLeft(LAMBDA x, y : x + y, 0, last), n)
            [] OTHER -> pdl.pathDelay = Quotient(Min(mids) + Max(mids), 2)

\* However the delays vary and whichever are discarded, the offset misses the true one by no more than
\* the delays vary (one more where a transparent clock was wrong).
OffsetWithinSpread ==
  pdl.count > 0 =>
    LET miss == pdl.result.Offset - PdlOffset
        spread == Max(PdlDelays) + 1 - Min(PdlDelays)
    IN -spread <= miss /\ miss <= spread

\* With the discard filter and a full window no exchange takes the path delay above DiscardFrom and above
\* DiscardMultiplier times what it was: early spikes that are still in the window cannot either.
\* It needs the multiplier of at least 2 that Validate asks for.
DelayGrowsSlowly ==
  [][ pdl.count >= 0 /\ pdl.cfg.DiscardFilterEnabled /\ Full(pdl.window)
      /\ pdl.cfg.DiscardMultiplier * pdl.pathDelay > pdl.cfg.DiscardBelow =>
        \/ pdl'.pathDelay <= pdl.cfg.DiscardFrom
        \/ pdl'.pathDelay <= pdl.cfg.DiscardMultiplier * pdl.pathDelay + 1
    ]_pdl

\* The path delay is that of the accepted delays in the window, and so the offset misses the true one
\* by no more than the delays vary.
PathDelayRight == DelayIsOfLastAccepted /\ OffsetWithinSpread
==============================================================================
