--------------------------------- MODULE C4u ---------------------------------
(* c4u keeps the configuration file of ptp4u up to date with the quality of the
   clock, and ptp4u reads it when it starts and on SIGHUP (ptp/c4u, ptp/ptp4u
   config and signal handling, ptp/ptp4u/drain).  The two processes share the
   configuration file and the pid file, and either may be between any two of its
   system calls when the other runs. *)
EXTENDS PtpTypes, FiniteSets, FiniteSetsExt

CONSTANTS
  Statuses,       \* what oscillatord may report: [Class, Offset]
  PHCOffsets,     \* what ts2phc may measure
  Sample,         \* size of the ring buffer, 600 by default
  Hundred,        \* p99 drops one value in Hundred, 100 in the code
  Leaps,          \* leap seconds so far, by the time zone database
  C4uFaults,      \* of "clock", "leap", "crash"
  C4uMaxRuns,     \* bound: runs of c4u
  C4uMaxStarts    \* bound: starts of ptp4u

VARIABLES
  rb,             \* RingBuffer: [data, index]
  c4u,            \* the process: [pc, pending, pid, runs, defaulted]
  c4uStats,       \* [dataError, reload]
  dcFile,         \* the configuration file
  pidFile,        \* pid in it, 0 if there is none
  p4u,            \* ptp4u: [pc, pid, dc, sighup, ctx]
  unsignalled     \* a new configuration was saved and no running ptp4u got a SIGHUP after it

c4uVars == <<rb, c4u, c4uStats, dcFile, pidFile, p4u, unsignalled>>

ASSUME C4uConstants == Sample \in Nat \ {0} /\ Hundred \in Nat \ {0} /\ Leaps \subseteq Nat

------------------------------------------------------------------------------
(* The quality of the clock. *)

ClockClassLock == 6
ClockClassHoldover == 7
ClockClassCalibrating == 13
ClockClassUncalibrated == 52
\* The default baselines: 100 ns, 1 us and 250 ns.
LockBaseLine == 33
HoldoverBaseLine == 35
CalibratingBaseLine == 34

NoPoint == [PHCOffset |-> 0, OscillatorOffset |-> 0, OscillatorClockClass |-> -1]
WorstPoint == [NoPoint EXCEPT !.OscillatorClockClass = ClockClassUncalibrated]
\* A class that is not positive is that of an empty answer.
oscillatorStateFromStatus(status) ==
  IF status.Class > 0 THEN [ClockClass |-> status.Class, Offset |-> status.Offset]
  ELSE [ClockClass |-> ClockClassUncalibrated, Offset |-> 0]
\* clock.Run: oscillatord and the offset between the time card and the NIC, or an error of either.
ClockRun ==
  {LET o == oscillatorStateFromStatus(s)
   IN [PHCOffset |-> p, OscillatorOffset |-> o.Offset, OscillatorClockClass |-> o.ClockClass] : s \in Statuses, p \in PHCOffsets}
  \cup (IF "clock" \in C4uFaults THEN {NoPoint} ELSE {})
\* utcoffset.Run: 0 with an error.
utcoffsetRun == {10 + n : n \in Leaps} \cup (IF "leap" \in C4uFaults THEN {0} ELSE {})

NewRingBuffer(size) == [data |-> [i \in 1..size |-> NoPoint], index |-> 0]
RbWrite(r, c) ==
  LET at == IF r.index >= Sample THEN 0 ELSE r.index
  IN [data |-> [r.data EXCEPT ![at + 1] = c], index |-> at + 1]

\* The value below which all but one in Hundred are, of the values v(i), i \in S.
p99(S, v) ==
  LET p1 == Cardinality(S) \div Hundred
  IN CHOOSE x \in {v[i] : i \in S} :
       /\ Cardinality({i \in S : v[i] <= x}) >= Cardinality(S) - p1
       /\ Cardinality({i \in S : v[i] < x}) < Cardinality(S) - p1

\* Worst, with p99(phcoffset) + p99(oscillatoroffset) for the accuracy and the default
\* p99(oscillatorclass) for the class.
NoQuality == [ClockClass |-> -1, ClockAccuracy |-> -1]
Worst(points) ==
  LET S == {i \in DOMAIN points : points[i] # NoPoint}
      of(f) == p99(S, [i \in S |-> points[i][f]])
  IN IF S = {} THEN NoQuality
     ELSE [ ClockClass |-> of("OscillatorClockClass"),
            ClockAccuracy |-> ClockAccuracyFromOffset(of("PHCOffset") + of("OscillatorOffset")) ]

\* Mutant of evaluateClockQuality: the baselines are not applied.
evaluateClockQualityRaw(q) ==
  IF q = NoQuality \/ q.ClockClass = ClockClassUncalibrated
  THEN [ClockClass |-> ClockClassUncalibrated, ClockAccuracy |-> ClockAccuracyUnknown] ELSE q

evaluateClockQuality(q) ==
  LET w == IF q = NoQuality
           THEN [ClockClass |-> ClockClassUncalibrated, ClockAccuracy |-> ClockAccuracyUnknown] ELSE q
      atLeast(a) == [w EXCEPT !.ClockAccuracy = Max({@, a})]
  IN CASE w.ClockClass = ClockClassLock         -> atLeast(LockBaseLine)
       [] w.ClockClass = ClockClassHoldover     -> atLeast(HoldoverBaseLine)
       [] w.ClockClass = ClockClassCalibrating  -> atLeast(CalibratingBaseLine)
       [] w.ClockClass = ClockClassUncalibrated -> [w EXCEPT !.ClockAccuracy = ClockAccuracyUnknown]
       [] OTHER -> w

------------------------------------------------------------------------------
(* The configuration file.  Settings are the intervals that c4u never changes. *)

Bad == [UTCOffset |-> -1]     \* no file, or one that is not YAML (yet)
UTCOffsetSanity(dc) == dc.UTCOffset \in 30..50

ReadDynamicConfig(f) == IF UTCOffsetSanity(f) THEN f ELSE Bad
defaultConfig == [settings |-> "default", ClockClass |-> 0, ClockAccuracy |-> 0, UTCOffset |-> 0]
OperatorConfig == [settings |-> "tuned", ClockClass |-> 6, ClockAccuracy |-> 33, UTCOffset |-> 37]

NotRunning == [pc |-> "down", pid |-> 0, dc |-> OperatorConfig, sighup |-> FALSE, ctx |-> "live"]

C4uStart(pc) ==
  /\ rb = NewRingBuffer(Sample)
  /\ c4u = [pc |-> pc, pending |-> OperatorConfig, pid |-> 0, runs |-> 0, defaulted |-> FALSE]
  /\ c4uStats = [dataError |-> 0, reload |-> 0]
  /\ dcFile = OperatorConfig /\ pidFile = 0
  /\ p4u = IF pc = "dead" THEN [NotRunning EXCEPT !.pc = "exited"] ELSE NotRunning
  /\ unsignalled = FALSE
C4uInit == C4uStart("idle")
C4uOff == C4uStart("dead")

(* Run of c4u, up to the comparison of the current and the pending configuration. *)
C4uRun ==
  /\ c4u.pc = "idle" /\ c4u.runs < C4uMaxRuns
  /\ \E dp \in ClockRun :
       /\ rb' = RbWrite(rb, IF dp = NoPoint THEN WorstPoint ELSE dp)
       /\ \E u \in utcoffsetRun, q \in {evaluateClockQuality(Worst(rb'.data))} :
            LET read == ReadDynamicConfig(dcFile)
                current == IF read = Bad THEN defaultConfig ELSE read
                pending == [current EXCEPT !.ClockClass = q.ClockClass, !.ClockAccuracy = q.ClockAccuracy,
                                           !.UTCOffset = u]
            IN /\ c4u' = [c4u EXCEPT !.pc = IF current # pending THEN "save" ELSE "idle",
                                     !.pending = pending, !.runs = @ + 1, !.defaulted = @ \/ read = Bad]
               /\ c4uStats' = [dataError |-> IF dp = NoPoint \/ u = 0 THEN c4uStats.dataError + 1 ELSE 0,
                               reload |-> IF current # pending THEN c4uStats.reload ELSE 0]
  /\ UNCHANGED <<dcFile, pidFile, p4u, unsignalled>>

\* os.WriteFile truncates the file and then writes it.
Truncate ==
  /\ c4u.pc = "save"
  /\ dcFile' = Bad /\ unsignalled' = TRUE
  /\ c4u' = [c4u EXCEPT !.pc = "truncated"]
  /\ UNCHANGED <<rb, c4uStats, pidFile, p4u>>

Save ==
  /\ c4u.pc = "truncated"
  /\ dcFile' = c4u.pending
  /\ c4u' = [c4u EXCEPT !.pc = "pid"]
  /\ UNCHANGED <<rb, c4uStats, pidFile, p4u, unsignalled>>
C4uReadPidFile ==
  /\ c4u.pc = "pid"
  /\ c4u' = IF pidFile = 0 THEN [c4u EXCEPT !.pc = "idle"] ELSE [c4u EXCEPT !.pc = "kill", !.pid = pidFile]
  /\ UNCHANGED <<rb, c4uStats, dcFile, pidFile, p4u, unsignalled>>
\* From signal.Notify to the end of the process, its shutdown included.
Notified == p4u.pc \in {"watching", "leaving"}

\* Kill reaches the process of that pid, if it still runs; before signal.Notify the
\* default action of SIGHUP ends the process.
Kill ==
  /\ c4u.pc = "kill"
  /\ LET delivered == p4u.pid = c4u.pid /\ p4u.pc \notin {"down", "exited"} IN
       /\ p4u' = IF ~delivered THEN p4u
                 ELSE IF Notified THEN [p4u EXCEPT !.sighup = TRUE]
                 ELSE [p4u EXCEPT !.pc = "down", !.sighup = FALSE]
       /\ c4uStats' = [c4uStats EXCEPT !.reload = IF delivered THEN @ + 1 ELSE @]
       /\ unsignalled' = (unsignalled /\ ~(delivered /\ Notified))
  /\ c4u' = [c4u EXCEPT !.pc = "idle"]
  /\ UNCHANGED <<rb, dcFile, pidFile>>
\* c4u ends between any two of these steps and is started again with an empty ring buffer.
C4uCrash ==
  /\ "crash" \in C4uFaults /\ c4u.pc \in {"save", "truncated", "pid", "kill"}
  /\ c4u' = [c4u EXCEPT !.pc = "idle"]
  /\ rb' = NewRingBuffer(Sample) /\ c4uStats' = [dataError |-> 0, reload |-> 0]
  /\ UNCHANGED <<dcFile, pidFile, p4u, unsignalled>>

------------------------------------------------------------------------------
(* ptp4u: main reads the configuration, Start creates the pid file and starts the
   goroutines, of which handleSighup calls signal.Notify. *)

\* main ends with log.Fatal on a bad configuration.
Main ==
  /\ p4u.pc = "down" /\ p4u.pid < C4uMaxStarts
  /\ LET dc == ReadDynamicConfig(dcFile) IN
       p4u' = IF dc = Bad THEN [p4u EXCEPT !.pid = @ + 1]
              ELSE [p4u EXCEPT !.pc = "configured", !.pid = @ + 1, !.dc = dc, !.sighup = FALSE, !.ctx = "live"]
  /\ UNCHANGED <<rb, c4u, c4uStats, dcFile, pidFile, unsignalled>>
CreatePidFile ==
  /\ p4u.pc = "configured"
  /\ pidFile' = p4u.pid
  /\ p4u' = [p4u EXCEPT !.pc = "starting"]
  /\ UNCHANGED <<rb, c4u, c4uStats, dcFile, unsignalled>>
Notify ==
  /\ p4u.pc = "starting"
  /\ p4u' = [p4u EXCEPT !.pc = "watching"]
  /\ UNCHANGED <<rb, c4u, c4uStats, dcFile, pidFile, unsignalled>>

\* Mutant of handleSighup: only the UTC offset is taken over.
handleSighupOffset ==
  /\ Notified /\ p4u.sighup
  /\ LET dc == ReadDynamicConfig(dcFile) IN
       p4u' = [p4u EXCEPT !.sighup = FALSE, !.dc.UTCOffset = IF dc = Bad THEN @ ELSE dc.UTCOffset]
  /\ UNCHANGED <<rb, c4u, c4uStats, dcFile, pidFile, unsignalled>>

handleSighup ==
  /\ Notified /\ p4u.sighup
  /\ LET dc == ReadDynamicConfig(dcFile) IN
       p4u' = [p4u EXCEPT !.sighup = FALSE, !.dc = IF dc = Bad THEN @ ELSE dc]
  /\ UNCHANGED <<rb, c4u, c4uStats, dcFile, pidFile, unsignalled>>
\* The drain check: the undrain file decides over the drain file.
DrainCheck ==
  /\ p4u.pc \in {"starting", "watching", "leaving"}
  /\ \E drainFile, undrainFile \in BOOLEAN :
       p4u' = [p4u EXCEPT !.ctx = IF drainFile /\ ~undrainFile THEN "cancelled" ELSE "live"]
  /\ UNCHANGED <<rb, c4u, c4uStats, dcFile, pidFile, unsignalled>>
\* handleSigterm drains and removes the pid file, after which Start returns.
handleSigterm ==
  /\ p4u.pc = "watching"
  /\ p4u' = [p4u EXCEPT !.pc = "leaving", !.ctx = "cancelled"]
  /\ UNCHANGED <<rb, c4u, c4uStats, dcFile, pidFile, unsignalled>>
DeletePidFile ==
  /\ p4u.pc = "leaving"
  /\ pidFile' = 0
  /\ p4u' = [p4u EXCEPT !.pc = "down"]
  /\ UNCHANGED <<rb, c4u, c4uStats, dcFile, unsignalled>>
\* Any log.Fatal of a goroutine: the pid file stays.
PtpFatal ==
  /\ "crash" \in C4uFaults /\ p4u.pc \in {"starting", "watching", "leaving"}
  /\ p4u' = [p4u EXCEPT !.pc = "down"]
  /\ UNCHANGED <<rb, c4u, c4uStats, dcFile, pidFile, unsignalled>>

C4uStep == C4uRun \/ Truncate \/ Save \/ C4uReadPidFile \/ Kill
P4uStep == CreatePidFile \/ Notify \/ handleSighup \/ DeletePidFile
C4uNext == C4uStep \/ C4uCrash \/ P4uStep \/ Main \/ DrainCheck \/ handleSigterm \/ PtpFatal
C4uSpec == C4uInit /\ [][C4uNext]_c4uVars

------------------------------------------------------------------------------

\* The intervals an operator put in the file survive all runs of c4u, unless c4u once had
\* to start from its defaults because it could not use the file.
SettingsKept == (dcFile # Bad /\ ~c4u.defaulted) => dcFile.settings = "tuned"

\* What c4u saves is at most as good as the window: no sample but one in Hundred had a worse
\* class, and no state claims a better accuracy than its baseline.
SavedIsCautious ==
  c4u.pc = "save" =>
    LET known == {i \in DOMAIN rb.data : rb.data[i] # NoPoint} IN
    /\ Cardinality({i \in known : rb.data[i].OscillatorClockClass > c4u.pending.ClockClass})
         <= Cardinality(known) \div Hundred
    /\ c4u.pending.ClockAccuracy >= (IF c4u.pending.ClockClass = ClockClassLock THEN LockBaseLine
                                      ELSE IF c4u.pending.ClockClass = ClockClassCalibrating THEN CalibratingBaseLine
                                      ELSE HoldoverBaseLine)
    /\ c4u.pending.ClockClass = ClockClassUncalibrated => c4u.pending.ClockAccuracy = ClockAccuracyUnknown

\* What c4u saves keeps the operator's intervals and claims no better clock than its window of
\* measurements showed.
SavedConfigRight == SettingsKept /\ SavedIsCautious

\* A ptp4u that watches for SIGHUP, has none to handle and has got the signal of the last
\* save runs with the file's configuration, unless it refuses that one as insane; it may
\* have read the file half written and still gets this right.  It never runs with an insane
\* UTC offset, whatever it finds in the file.
ConfigInForce ==
  /\ p4u.pc \notin {"down", "exited"} => UTCOffsetSanity(p4u.dc)
  /\ (c4u.pc = "idle" /\ p4u.pc = "watching" /\ ~p4u.sighup /\ ~unsignalled /\ UTCOffsetSanity(dcFile))
       => p4u.dc = dcFile
==============================================================================
