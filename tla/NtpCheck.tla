------------------------------- MODULE NtpCheck -------------------------------
(* ntpcheck: one run of its check against chronyd or ntpd, request by request,
   while the daemon goes on selecting, adding and removing sources; then the
   statistics and the diagnosis made of the result (cmd/ntpcheck). *)
EXTENDS Integers, Sequences, FiniteSets, SequencesExt, FiniteSetsExt

CONSTANTS
  Daemons,       \* the source lists a daemon may start with: sequences of sources
  Late,          \* the sources that may be added during the run
  MaxChanges,    \* bound: changes of the daemon's list during one run
  Leaps          \* the leap indicators a daemon may report
(* A source: [addr, mode, state, tests, reach, offset, jitter, poll, stratum].
   tests are the NTP tests it passed. *)

VARIABLE nck     \* the daemon, the run of the check, its result

Flavours == {"unix", "udp", "ntpd"}      \* chrony by socket, chrony by UDP, ntpd

(* From a daemon's source to a Peer. *)

SelReject == 0
SelFalseTick == 1
SelOutlier == 3
SelCandidate == 4
SelBackup == 5
SelSYSPeer == 6
SelPPSPeer == 7
chronyToPeerSelection ==
  [ sync |-> SelSYSPeer, unreach |-> SelReject, falseticker |-> SelFalseTick,
    jittery |-> SelReject, candidate |-> SelCandidate, outlier |-> SelOutlier ]

AllTests == 1..3                          \* NTPFlagsTests: three of the ten bits stand for all

ReadNTPTestFlags(passed) == AllTests \ passed
ReadFlashStatusWord(flash) == flash

\* s: source data; p, n: what NTP data and source name were answered, or NoAnswer.
NoAnswer == [addr |-> "none"]
NewPeerFromChrony(s, p, n) ==
  LET measured == IF p = NoAnswer THEN s ELSE p IN
  [ SRCAdr |-> s.addr, Hostname |-> n.addr, From |-> measured.addr,
    Selection |-> chronyToPeerSelection[s.state],
    Flash |-> IF s.tests # {} THEN AllTests \ s.tests ELSE {},
    Flashers |-> ReadNTPTestFlags(s.tests),
    Offset |-> measured.offset, Jitter |-> IF p = NoAnswer THEN 0 ELSE p.jitter,
    PPoll |-> measured.poll, HPoll |-> measured.poll, Stratum |-> s.stratum,
    Reach |-> s.reach, NoSelect |-> s.state = "unreach" /\ s.reach = 255 ]

sanityCheckPeerVars(p) == p.Stratum # 0 /\ p.PPoll # 0 /\ p.HPoll # 0
\* assocInfo: the variables of an association; a variable that is missing reads as 0.
NewPeerFromNTP(s, missing) ==
  LET read(name, v) == IF name \in missing THEN 0 ELSE v IN
  [ SRCAdr |-> s.addr, Hostname |-> "none", From |-> s.addr,
    Selection |-> chronyToPeerSelection[s.state],
    Flash |-> AllTests \ s.tests, Flashers |-> ReadFlashStatusWord(AllTests \ s.tests),
    Offset |-> read("offset", s.offset), Jitter |-> read("jitter", s.jitter),
    PPoll |-> read("ppoll", s.poll), HPoll |-> s.poll, Stratum |-> read("stratum", s.stratum),
    Reach |-> s.reach, NoSelect |-> chronyToPeerSelection[s.state] = SelReject /\ s.reach # 0 ]

------------------------------------------------------------------------------
(* Results. *)

NewNTPCheckResult == [LI |-> 0, ClockSource |-> "unspec", Offset |-> 0, Correction |-> 0, Peers |-> <<>>]
PeersOf(r) == {r.Peers[i] : i \in DOMAIN r.Peers}

\* Iteration of a Go map: FindSysPeer may return any of the peers that qualify.
FindSysPeer(r) == {p \in PeersOf(r) : p.Selection = SelSYSPeer}
FindGoodPeers(r) ==
  {i \in DOMAIN r.Peers : r.Peers[i].Selection \in {SelCandidate, SelBackup, SelSYSPeer, SelPPSPeer}}
FindNoSelectPeers(r) == {i \in DOMAIN r.Peers : r.Peers[i].NoSelect}
\* The candidates, or the noselect peers when sys.peer is the only good one or there is none.
FindAcceptableNonSysPeers(r) ==
  LET good == FindGoodPeers(r)
      found == IF Cardinality(good) <= 1 THEN FindNoSelectPeers(r) ELSE good
  IN {i \in found : r.Peers[i].Selection # SelSYSPeer}

Total(f(_), S) == MapThenSumSet(f, S)
LowestPoll(r, good) ==
  Min({r.Peers[i].PPoll : i \in good} \cup {r.Peers[i].HPoll : i \in good})

peersAverages(r, good) ==
  [ offset |-> LET at(i) == r.Peers[i].Offset IN Total(at, good) \div Cardinality(good),
    poll |-> LowestPoll(r, good),
    stratum |-> Min({r.Peers[i].Stratum : i \in good}) ]
medianOffset(r, peers) ==
  LET at(i) == r.Peers[i].Offset
      sorted == SortSeq(SetToSeq(peers), LAMBDA i, j : at(i) < at(j))
  IN at(sorted[Len(sorted) \div 2 + 1])

AbsV(n) == IF n < 0 THEN -n ELSE n
\* The statistics the command may print; none when there is nothing to compute from.
NewNTPStats(r) ==
  LET good == FindGoodPeers(r)
      others == FindAcceptableNonSysPeers(r)
      compared(offset) ==
        IF others = {} THEN 0 ELSE AbsV(AbsV(offset) - AbsV(medianOffset(r, others)))
      stats(offset, poll, stratum) ==
        [ PeerOffset |-> offset, PeerPoll |-> 2^poll, PeerStratum |-> stratum,
          StatError |-> r.LI = 3, PeerCount |-> Len(r.Peers), Offset |-> r.Offset,
          OffsetComparedToPeers |-> compared(offset) ]
  IN IF FindSysPeer(r) # {}
     THEN {stats(p.Offset, Min({p.PPoll, p.HPoll}), p.Stratum) : p \in FindSysPeer(r)}
     ELSE IF good = {} THEN {}
     ELSE LET a == peersAverages(r, good) IN {stats(a.offset, a.poll, a.stratum)}

(* diag: what a check may say, and what the sequence of checks may print. *)

checkAgainstThreshold(value, warn, fail) ==
  IF AbsV(value) > fail THEN "FAIL" ELSE IF AbsV(value) > warn THEN "WARN" ELSE "OK"
OfSysPeer(r, says(_)) ==
  IF FindSysPeer(r) = {} THEN {"CRITICAL"} ELSE {says(p) : p \in FindSysPeer(r)}
checkSync(r) == OfSysPeer(r, LAMBDA p : IF r.LI = 3 THEN "FAIL" ELSE "OK")
checkLeap(r) == {IF r.LI # 0 THEN "WARN" ELSE "OK"}
checkJitter(r) == OfSysPeer(r, LAMBDA p : checkAgainstThreshold(p.Jitter, 1, 1000))
checkSysPeerOffset(r) == OfSysPeer(r, LAMBDA p : checkAgainstThreshold(p.Offset, 2, 1000))
checkOffset(r) == {checkAgainstThreshold(r.Offset, 1, 1000)}
checkCorrectionMetric(r) == {checkAgainstThreshold(r.Correction, 1, 1000)}
checkPeersFlash(r) == {IF \E p \in PeersOf(r) : p.Flash # {} THEN "WARN" ELSE "OK"}

checkPeersReach(r) == {IF \E p \in PeersOf(r) : p.Reach # 255 THEN "WARN" ELSE "OK"}

\* The possible outputs of runDiagnosers: the checks in order, cut after a CRITICAL one.
runDiagnosers(r) ==
  LET first == checkSync(r) IN
  IF first = {"CRITICAL"} THEN {<<"CRITICAL">>}
  ELSE {<<a, b, c, d, e, f, g, h>> : a \in first, b \in checkLeap(r), c \in checkOffset(r),
          d \in checkSysPeerOffset(r), e \in checkJitter(r), f \in checkCorrectionMetric(r),
          g \in checkPeersFlash(r), h \in checkPeersReach(r)}

------------------------------------------------------------------------------
(* The run. *)

NckOff == nck = [stage |-> "off"]
NckInit ==
  \E d \in Daemons, f \in Flavours, li \in Leaps :
    nck = [ stage |-> "start", flavour |-> f, daemon |-> d, leap |-> li, changes |-> 0,
            i |-> 0, todo |-> {}, cur |-> NoAnswer, ntp |-> NoAnswer,
            result |-> NewNTPCheckResult ]

Fail == nck' = [nck EXCEPT !.stage = "failed"]
Named(addr) == {k \in DOMAIN nck.daemon : nck.daemon[k].addr = addr}

\* ChronyCheck.Run: tracking, then the number of sources.
RunTracking ==
  /\ nck.stage = "start" /\ nck.flavour # "ntpd"
  /\ \E correction \in {0, 2} :
       nck' = [nck EXCEPT !.stage = "sources", !.result.LI = nck.leap, !.result.Offset = 1,
                          !.result.Correction = correction]

RunSources ==
  /\ nck.stage = "sources"
  /\ nck' = [nck EXCEPT !.stage = "source", !.todo = 1..Len(nck.daemon)]

\* The next source by its index: the list may have changed since it was counted.
RunSourceData ==
  /\ nck.stage = "source" /\ nck.i < Cardinality(nck.todo)
  /\ IF nck.i >= Len(nck.daemon) THEN Fail
     ELSE LET s == nck.daemon[nck.i + 1] IN
          IF s.mode = "ref"
          THEN nck' = [nck EXCEPT !.i = @ + 1,
                 !.result.Peers = Append(@, NewPeerFromChrony(s, NoAnswer, NoAnswer)),
                 !.result.ClockSource = IF s.state = "sync" THEN "local" ELSE @]
          ELSE nck' = [nck EXCEPT !.cur = s, !.ntp = NoAnswer,
                 !.stage = IF nck.flavour = "unix" THEN "ntpdata" ELSE "name"]

\* Mutant of RunNTPData: asked for by the index.
RunNTPDataByIndex ==
  /\ nck.stage = "ntpdata"
  /\ IF nck.i >= Len(nck.daemon) THEN Fail
     ELSE nck' = [nck EXCEPT !.stage = "name", !.ntp = nck.daemon[nck.i + 1]]

\* NTP data and name by the address; a source that is gone fails the run.
RunNTPData ==
  /\ nck.stage = "ntpdata"
  /\ IF Named(nck.cur.addr) = {} THEN Fail
     ELSE \E k \in Named(nck.cur.addr) :
            nck' = [nck EXCEPT !.stage = "name", !.ntp = nck.daemon[k]]
RunSourceName ==
  /\ nck.stage = "name"
  /\ IF Named(nck.cur.addr) = {} THEN Fail
     ELSE \E k \in Named(nck.cur.addr) :
            nck' = [nck EXCEPT !.stage = "source", !.i = @ + 1,
              !.result.Peers = Append(@, NewPeerFromChrony(nck.cur, nck.ntp, nck.daemon[k])),
              !.result.ClockSource = IF nck.cur.state = "sync" THEN "ntp" ELSE @]
RunEnds ==
  /\ nck.stage = "source" /\ nck.i = Cardinality(nck.todo)
  /\ nck' = [nck EXCEPT !.stage = "done"]

\* NTPCheck.Run: the status with its list of associations, the system variables,
\* then each association of the list in any order.
ReadStatus ==
  /\ nck.stage = "start" /\ nck.flavour = "ntpd"
  /\ nck' = [nck EXCEPT !.stage = "vars", !.result.LI = nck.leap, !.result.ClockSource = "ntp",
               !.todo = {nck.daemon[k].addr : k \in DOMAIN nck.daemon}]
sanityCheckSysVars(missing) == "stratum" \notin missing
ReadSystemVariables ==
  /\ nck.stage = "vars"
  /\ \E missing \in {{}, {"stratum"}, {"offset"}} :
       IF ~sanityCheckSysVars(missing) THEN Fail
       ELSE nck' = [nck EXCEPT !.stage = "assoc",
                      !.result.Offset = IF "offset" \in missing THEN 0 ELSE 1]
ReadVariables ==
  /\ nck.stage = "assoc"
  /\ \E id \in nck.todo, missing \in {{}, {"stratum"}, {"ppoll"}, {"offset"}} :
       IF Named(id) = {} THEN Fail
       ELSE \E k \in Named(id) :
              LET p == NewPeerFromNTP(nck.daemon[k], missing) IN
              IF ~sanityCheckPeerVars(p) THEN Fail
              ELSE nck' = [nck EXCEPT !.todo = @ \ {id}, !.result.Peers = Append(@, p)]
ReadEnds ==
  /\ nck.stage = "assoc" /\ nck.todo = {}
  /\ nck' = [nck EXCEPT !.stage = "done"]

(* The daemon (external) between two requests of the check. *)
DaemonMay == nck.stage \notin {"done", "failed", "off"} /\ nck.changes < MaxChanges
DaemonRemoves ==
  /\ DaemonMay
  /\ \E k \in DOMAIN nck.daemon :
       nck' = [nck EXCEPT !.daemon = RemoveAt(@, k), !.changes = @ + 1]
DaemonAdds ==
  /\ DaemonMay
  /\ \E s \in Late : Named(s.addr) = {} /\
       nck' = [nck EXCEPT !.daemon = Append(@, s), !.changes = @ + 1]
DaemonSelects ==
  /\ DaemonMay
  /\ \E k \in DOMAIN nck.daemon : nck.daemon[k].state = "candidate" /\
       nck' = [nck EXCEPT !.changes = @ + 1,
                 !.daemon = [j \in DOMAIN @ |->
                    [@[j] EXCEPT !.state = IF j = k THEN "sync" ELSE IF @ = "sync" THEN "candidate" ELSE @]]]

NckNext ==
  \/ RunTracking \/ RunSources \/ RunSourceData \/ RunNTPData \/ RunSourceName \/ RunEnds
  \/ ReadStatus \/ ReadSystemVariables \/ ReadVariables \/ ReadEnds
  \/ DaemonRemoves \/ DaemonAdds \/ DaemonSelects

------------------------------------------------------------------------------
\* However the daemon's list shifts between the requests, a peer of the result is one
\* source: its NTP data and its name were answered for the address it is listed under.
PeerIsOneSource ==
  nck.stage # "off" =>
    \A p \in PeersOf(nck.result) : p.From = p.SRCAdr /\ p.Hostname \in {"none", p.SRCAdr}

\* A finished run lists as many peers as the daemon counted for it, and two peers are
\* the same source only if the list was changed between the count and the last request.
EveryCountedSource ==
  nck.stage = "done" =>
    /\ nck.flavour # "ntpd" => Len(nck.result.Peers) = Cardinality(nck.todo)
    /\ nck.changes = 0 =>
         {p.SRCAdr : p \in PeersOf(nck.result)} = {nck.daemon[k].addr : k \in DOMAIN nck.daemon}

\* The peers whose failed tests diag prints are those with a flash word, and the names
\* printed are the bits of that word: Flash is negated for chrony, Flashers is not.
FlashersAreTheFlash ==
  nck.stage # "off" => \A p \in PeersOf(nck.result) : p.Flash # {} => p.Flashers = p.Flash

\* The statistics speak of the good peers only: the reported offset lies between their
\* offsets, the poll interval and the stratum are one of theirs or better than none.
StatsWithinGoodPeers ==
  nck.stage = "done" =>
    \A s \in NewNTPStats(nck.result) :
      LET good == FindGoodPeers(nck.result)
          all(f) == {nck.result.Peers[i][f] : i \in good}
      IN /\ good # {}
         /\ Min(all("Offset")) <= s.PeerOffset /\ s.PeerOffset <= Max(all("Offset"))
         /\ s.PeerPoll \in {2^q : q \in all("PPoll") \cup all("HPoll")}
         /\ s.PeerStratum \in all("Stratum")

\* A diagnosis without a complaint means what it says: a selected source, no alarm,
\* every listed peer reachable, and a selected source within the thresholds.
DiagOKMeansSynced ==
  nck.stage = "done" =>
    \A out \in runDiagnosers(nck.result) :
      (\A k \in DOMAIN out : out[k] = "OK") =>
        /\ nck.result.LI = 0
        /\ \E p \in FindSysPeer(nck.result) : AbsV(p.Offset) <= 2 /\ p.Jitter <= 1 /\ p.Stratum # 0
        /\ \A p \in PeersOf(nck.result) : p.Reach = 255

\* What ntpcheck reports is true of the daemon, though the daemon's list changes between its
\* requests: each peer is one source, none is missing, and the statistics and a diagnosis
\* without a complaint speak of those peers.
CheckResultSound ==
  PeerIsOneSource /\ EveryCountedSource /\ FlashersAreTheFlash /\ StatsWithinGoodPeers /\ DiagOKMeansSynced
==============================================================================
