------------------------------- MODULE C4uProofs -------------------------------
(* The configuration ptp4u runs with, for every quality of the clock, size of the ring buffer, number
   of runs, starts and crashes of the two processes, between any two of their system calls. *)
EXTENDS C4u, TLAPS

Running == p4u.pc \notin {"down", "exited"}

\* Until a kill reaches a ptp4u that watches for it, the last save counts as unsignalled.  After it a
\* running ptp4u has the file's configuration, or the signal to read it.
C4uInv ==
  /\ p4u = [pc |-> p4u.pc, pid |-> p4u.pid, dc |-> p4u.dc, sighup |-> p4u.sighup, ctx |-> p4u.ctx]
  /\ c4u = [pc |-> c4u.pc, pending |-> c4u.pending, pid |-> c4u.pid, runs |-> c4u.runs, defaulted |-> c4u.defaulted]
  /\ p4u.sighup \in BOOLEAN /\ unsignalled \in BOOLEAN
  /\ Running => UTCOffsetSanity(p4u.dc)
  /\ c4u.pc \in {"truncated", "pid", "kill"} => unsignalled
  /\ Running /\ ~unsignalled /\ UTCOffsetSanity(dcFile) => p4u.dc = dcFile \/ p4u.sighup

\* A configuration that is read is that of the file if it is sane, and Bad is not.
LEMMA ReadIsSane ==
  ASSUME NEW f
  PROVE  IF UTCOffsetSanity(f) THEN ReadDynamicConfig(f) = f /\ f # Bad ELSE ReadDynamicConfig(f) = Bad
<1>1. ~UTCOffsetSanity(Bad)
  BY DEF UTCOffsetSanity, Bad
<1> QED BY <1>1 DEF ReadDynamicConfig

LEMMA C4uInvInit == C4uInit => C4uInv
<1> SUFFICES ASSUME C4uInit PROVE C4uInv
  OBVIOUS
<1>1. p4u = [pc |-> "down", pid |-> 0, dc |-> OperatorConfig, sighup |-> FALSE, ctx |-> "live"]
  BY DEF C4uInit, C4uStart, NotRunning
<1>2. c4u = [pc |-> "idle", pending |-> OperatorConfig, pid |-> 0, runs |-> 0, defaulted |-> FALSE] /\ unsignalled = FALSE
  BY DEF C4uInit, C4uStart
<1> QED BY <1>1, <1>2 DEF C4uInv, Running

LEMMA C4uInvNext == C4uInv /\ [C4uNext]_c4uVars => C4uInv'
<1> SUFFICES ASSUME C4uInv, [C4uNext]_c4uVars PROVE C4uInv'
  OBVIOUS
\* Steps of c4u that leave the file, ptp4u and its signal alone.
<1>a. ASSUME UNCHANGED <<dcFile, p4u, unsignalled>>,
             c4u' = [pc |-> c4u'.pc, pending |-> c4u'.pending, pid |-> c4u'.pid, runs |-> c4u'.runs, defaulted |-> c4u'.defaulted],
             c4u'.pc \in {"truncated", "pid", "kill"} => unsignalled
      PROVE  C4uInv'
  BY <1>a DEF C4uInv, Running
<1>1. CASE C4uRun
  <2> DEFINE read == ReadDynamicConfig(dcFile)
             current == IF read = Bad THEN defaultConfig ELSE read
             pending(q, u) == [current EXCEPT !.ClockClass = q.ClockClass, !.ClockAccuracy = q.ClockAccuracy,
                                              !.UTCOffset = u]
             after(q, u) == [c4u EXCEPT !.pc = IF current # pending(q, u) THEN "save" ELSE "idle",
                                        !.pending = pending(q, u), !.runs = @ + 1, !.defaulted = @ \/ read = Bad]
  <2>0. PICK dp \in ClockRun : \E u \in utcoffsetRun, q \in {evaluateClockQuality(Worst(rb'.data))} : c4u' = after(q, u)
    BY <1>1 DEF C4uRun
  <2>1. PICK u \in utcoffsetRun, q \in {evaluateClockQuality(Worst(rb'.data))} : c4u' = after(q, u)
    BY <2>0
  <2>2. UNCHANGED <<dcFile, p4u, unsignalled>>
    BY <1>1 DEF C4uRun
  <2>3. c4u'.pc \in {"save", "idle"}
    BY <2>1 DEF C4uInv
  <2>4. c4u' = [pc |-> c4u'.pc, pending |-> c4u'.pending, pid |-> c4u'.pid, runs |-> c4u'.runs, defaulted |-> c4u'.defaulted]
    BY <2>1 DEF C4uInv
  <2> QED BY <1>a, <2>2, <2>3, <2>4
<1>2. CASE Truncate
  <2>1. ~UTCOffsetSanity(dcFile') /\ unsignalled' = TRUE /\ p4u' = p4u /\ c4u' = [c4u EXCEPT !.pc = "truncated"]
    BY <1>2 DEF Truncate, UTCOffsetSanity, Bad
  <2> QED BY <2>1 DEF C4uInv, Running
<1>3. CASE Save
  <2>1. unsignalled' = unsignalled /\ unsignalled /\ p4u' = p4u /\ c4u' = [c4u EXCEPT !.pc = "pid"]
    BY <1>3 DEF Save, C4uInv
  <2> QED BY <2>1 DEF C4uInv, Running
<1>4. CASE C4uReadPidFile
  <2>1. unsignalled /\ UNCHANGED <<dcFile, p4u, unsignalled>>
    BY <1>4 DEF C4uReadPidFile, C4uInv
  <2>2. c4u' = [c4u EXCEPT !.pc = "idle"] \/ c4u' = [c4u EXCEPT !.pc = "kill", !.pid = pidFile]
    BY <1>4 DEF C4uReadPidFile
  <2> QED BY <1>a, <2>1, <2>2 DEF C4uInv
<1>5. CASE Kill
  <2>1. c4u' = [c4u EXCEPT !.pc = "idle"] /\ dcFile' = dcFile /\ unsignalled
    BY <1>5 DEF Kill, C4uInv
  <2>2. CASE p4u.pid = c4u.pid /\ Running /\ Notified
    <3>1. p4u' = [p4u EXCEPT !.sighup = TRUE] /\ unsignalled' \in BOOLEAN
      BY <1>5, <2>2 DEF Kill, Running
    <3> QED BY <2>1, <3>1 DEF C4uInv, Running
  <2>3. CASE p4u.pid = c4u.pid /\ Running /\ ~Notified
    <3>1. p4u' = [p4u EXCEPT !.pc = "down", !.sighup = FALSE] /\ unsignalled' \in BOOLEAN
      BY <1>5, <2>3 DEF Kill, Running
    <3> QED BY <2>1, <3>1 DEF C4uInv, Running
  <2>4. CASE ~(p4u.pid = c4u.pid /\ Running)
    <3>1. p4u' = p4u /\ unsignalled' = unsignalled
      BY <1>5, <2>1, <2>4 DEF Kill, Running, C4uInv
    <3> QED BY <2>1, <3>1 DEF C4uInv, Running
  <2> QED BY <2>2, <2>3, <2>4
<1>6. CASE C4uCrash
  <2>1. c4u' = [c4u EXCEPT !.pc = "idle"] /\ UNCHANGED <<dcFile, p4u, unsignalled>>
    BY <1>6 DEF C4uCrash
  <2> QED BY <1>a, <2>1 DEF C4uInv
<1>7. CASE Main
  <2>1. UNCHANGED <<c4u, dcFile, unsignalled>>
    BY <1>7 DEF Main
  <2>2. CASE UTCOffsetSanity(dcFile)
    <3>1. p4u' = [p4u EXCEPT !.pc = "configured", !.pid = @ + 1, !.dc = dcFile, !.sighup = FALSE, !.ctx = "live"]
      BY <1>7, <2>2, ReadIsSane DEF Main
    <3> QED BY <2>1, <2>2, <3>1 DEF C4uInv, Running
  <2>3. CASE ~UTCOffsetSanity(dcFile)
    <3>1. p4u' = [p4u EXCEPT !.pid = @ + 1] /\ p4u.pc = "down"
      BY <1>7, <2>3, ReadIsSane DEF Main
    <3> QED BY <2>1, <3>1 DEF C4uInv, Running
  <2> QED BY <2>2, <2>3
<1>8. CASE handleSighup
  <2>1. UNCHANGED <<c4u, dcFile, unsignalled>>
    BY <1>8 DEF handleSighup
  <2>2. CASE UTCOffsetSanity(dcFile)
    <3>1. p4u' = [p4u EXCEPT !.sighup = FALSE, !.dc = dcFile]
      BY <1>8, <2>2, ReadIsSane DEF handleSighup
    <3> QED BY <2>1, <2>2, <3>1 DEF C4uInv, Running
  <2>3. CASE ~UTCOffsetSanity(dcFile)
    <3>1. p4u' = [p4u EXCEPT !.sighup = FALSE]
      BY <1>8, <2>3, ReadIsSane DEF handleSighup, C4uInv
    <3> QED BY <2>1, <2>3, <3>1 DEF C4uInv, Running
  <2> QED BY <2>2, <2>3
\* The other steps of ptp4u change its state and its context.
<1>b. ASSUME UNCHANGED <<c4u, dcFile, unsignalled>>, NEW pc, NEW ctx, p4u' = [p4u EXCEPT !.pc = pc, !.ctx = ctx],
             Running \/ pc \in {"down", "exited"}
      PROVE  C4uInv'
  BY <1>b DEF C4uInv, Running
<1>9. CASE CreatePidFile \/ Notify \/ DrainCheck \/ handleSigterm \/ DeletePidFile \/ PtpFatal
  <2>1. UNCHANGED <<c4u, dcFile, unsignalled>> /\ Running
    BY <1>9 DEF CreatePidFile, Notify, DrainCheck, handleSigterm, DeletePidFile, PtpFatal, Running
  <2>2. \E pc, ctx : p4u' = [p4u EXCEPT !.pc = pc, !.ctx = ctx]
    <3>1. CASE CreatePidFile \/ Notify \/ DeletePidFile \/ PtpFatal
      <4>1. PICK pc : p4u' = [p4u EXCEPT !.pc = pc]
        BY <3>1 DEF CreatePidFile, Notify, DeletePidFile, PtpFatal
      <4>2. p4u' = [p4u EXCEPT !.pc = pc, !.ctx = p4u.ctx]
        BY <4>1 DEF C4uInv
      <4> QED BY <4>2
    <3>2. CASE DrainCheck
      <4>1. PICK ctx : p4u' = [p4u EXCEPT !.ctx = ctx]
        BY <3>2 DEF DrainCheck
      <4>2. p4u' = [p4u EXCEPT !.pc = p4u.pc, !.ctx = ctx]
        BY <4>1 DEF C4uInv
      <4> QED BY <4>2
    <3>3. CASE handleSigterm
      BY <3>3 DEF handleSigterm
    <3> QED BY <1>9, <3>1, <3>2, <3>3
  <2> QED BY <1>b, <2>1, <2>2
<1>10. CASE UNCHANGED c4uVars
  BY <1>10 DEF c4uVars, C4uInv, Running
<1> QED BY <1>1, <1>2, <1>3, <1>4, <1>5, <1>6, <1>7, <1>8, <1>9, <1>10 DEF C4uNext, C4uStep, P4uStep

\* A ptp4u that got the signal of the last save and has handled it runs with that configuration, and
\* no ptp4u runs with an insane UTC offset.
THEOREM RunsWithTheFile == C4uSpec => []ConfigInForce
<1>1. C4uInv => ConfigInForce
  BY DEF C4uInv, ConfigInForce, Running
<1> QED BY <1>1, C4uInvInit, C4uInvNext, PTL DEF C4uSpec
==============================================================================
