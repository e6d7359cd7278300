-------------------------------- MODULE Calnex --------------------------------
(* The calnex tool: the commands that configure, upgrade, verify, clear and reboot
   a Calnex device through its HTTP API, one after the other and each of them
   failing at any call, while another run of the tool exports the measurements. *)
EXTENDS Integers, Sequences, SequencesExt, FiniteSets, Bags

CONSTANTS
  CalChannels,    \* the measurement channels of the instance
  CalConfigs,     \* configurations: [measure: channel -> [Target, Probe], AntennaDelayNS]
  CalPEMs,        \* certificate files: sequences of PEM blocks
  CalHost,        \* what a certificate may be: certificate -> "valid", "expired", "early" or "other" host
  CalVersions,    \* firmware versions
  CalDevices,     \* devices: [firmware, satellites, supply, modules: states, data: channel -> sequence of "good" and "bad" CSV lines]
  CalMaxCommands, \* bound: commands run
  CalMaxFaults    \* bound: calls that fail

VARIABLES
  calDev,         \* the device
  calCmd,         \* the command that runs
  calExp,         \* the export that runs beside it
  calFaults

calVars == <<calDev, calCmd, calExp, calFaults>>

------------------------------------------------------------------------------
(* Channels and probes. *)

TE == "te"
TWOWAYTE == "2wayte"
\* Six of the 32 virtual ports stand for all of them.
VirtualPorts == {"VP1", "VP2", "VP3", "VP4", "VP22", "VP32"}
MeasureChannelDatatypeMap == [c \in CalChannels |-> IF c \in VirtualPorts THEN TWOWAYTE ELSE TE]
channelCalnexToInt ==
  [c \in VirtualPorts \cup {"A", "B", "C", "D", "E", "F", "1", "2", "REF"} |->
     CASE c = "A" -> 0 [] c = "B" -> 1 [] c = "C" -> 2 [] c = "D" -> 3 [] c = "E" -> 4 [] c = "F" -> 5
       [] c = "1" -> 6 [] c = "2" -> 7 [] c = "REF" -> 8 [] c = "VP1" -> 9 [] c = "VP2" -> 10
       [] c = "VP3" -> 11 [] c = "VP4" -> 12 [] c = "VP22" -> 30 [] c = "VP32" -> 40]
channelFromInt == [i \in Range(channelCalnexToInt) |-> CHOOSE c \in DOMAIN channelCalnexToInt : channelCalnexToInt[c] = i]
CalnexAPI(c) == <<"ch", channelCalnexToInt[c]>>

\* What the device calls a probe, and the probe each of its answers means.
probeToCalnexName == [PTP |-> "PTP", NTP |-> "NTP", PPS |-> "1 PPS"]
DeviceProbeCode == [PTP |-> "0", NTP |-> "2"] @@ ("1 PPS" :> "1 PPS") @@ [Disabled |-> "?"]

probeCalnexAPIToProbe == ("0" :> "PTP") @@ ("2" :> "NTP") @@ ("1 PPS" :> "PPS")
probeToServerType == [PTP |-> "master_ip_ipv6", NTP |-> "server_ip_ipv6", PPS |-> "server_ip"]
ProbeKey(c) == <<CalnexAPI(c), IF MeasureChannelDatatypeMap[c] = TE THEN "signal_type" ELSE "probe_type">>
TargetKey(c, probe) == <<CalnexAPI(c), probeToServerType[probe]>>

------------------------------------------------------------------------------
(* The configuration. *)

set(c, name, value) ==
  IF c.f[name] # value THEN [f |-> [c.f EXCEPT ![name] = value], changed |-> TRUE] ELSE c
SetAll(c, pairs) == FoldLeft(LAMBDA acc, kv : set(acc, kv[1], kv[2]), c, pairs)
chSet(start, end, name, value) ==
  LET first == channelCalnexToInt[start]
  IN [i \in 1..(channelCalnexToInt[end] - first + 1) |-> <<<<CalnexAPI(channelFromInt[first + i - 1]), name>>, value>>]

\* The settings of one measured channel; "profile" are the ones that only depend on the probe.
ChannelSettings(ch, m) ==
  (IF m.Probe = "PPS" THEN <<>> ELSE <<<<<<CalnexAPI(ch), "protocol_enabled">>, "On">>>>)
  \o <<<<<<CalnexAPI(ch), probeToServerType[m.Probe]>>, m.Target>>, <<<<CalnexAPI(ch), "profile">>, m.Probe>>,
       <<<<CalnexAPI(ch), "used">>, "Yes">>,
       <<<<CalnexAPI(ch), IF m.Probe = "PPS" THEN "signal_type" ELSE "probe_type">>, probeToCalnexName[m.Probe]>>>>
UnusedChannel(ch) ==
  <<<<<<CalnexAPI(ch), "used">>, "No">>>>
  \o (IF MeasureChannelDatatypeMap[ch] = TWOWAYTE
      THEN <<<<<<CalnexAPI(ch), "protocol_enabled">>, "Off">>, <<<<CalnexAPI(ch), "probe_type">>, "Disabled">>>> ELSE <<>>)
measureConfig(c, mc) ==
  SetAll(SetAll(c, FlattenSeq(LET s == SetToSeq(DOMAIN mc) IN [i \in DOMAIN s |-> ChannelSettings(s[i], mc[s[i]])])),
         FlattenSeq(LET s == SetToSeq(CalChannels \ DOMAIN mc) IN [i \in DOMAIN s |-> UnusedChannel(s[i])]))

AntennaDelay(ns) == IF ns < 1000 THEN [amount |-> ns, per |-> 1, unit |-> "ns"] ELSE [amount |-> ns, per |-> 1000, unit |-> "us"]
baseConfig(c, ns) ==
  SetAll(c, <<<<<<"device">>, "ours">>, <<<<"antenna_delay">>, AntennaDelay(ns)>>, <<<<CalnexAPI("REF"), "used">>, "Yes">>>>
            \o chSet("1", "2", "ethernet", "ours") \o chSet("1", "1", "qsfp_fec", "RS-FEC")
            \o <<<<<<CalnexAPI("1"), "used">>, "Yes">>, <<<<CalnexAPI("2"), "used">>, "No">>>>
            \o chSet("1", "2", "protocol_enabled", "Off"))
prepare(f, cc) == measureConfig(baseConfig([f |-> f, changed |-> FALSE], cc.AntennaDelayNS), cc.measure)

------------------------------------------------------------------------------
(* The device (external), and calls that fail: "hard" errors are those of the
   connection, "soft" ones those of an answer. *)

SettingNames ==
  {<<"device">>, <<"antenna_delay">>}
  \cup {<<CalnexAPI(c), n>> : c \in CalChannels, n \in {"profile", "probe_type", "signal_type"} \cup Range(probeToServerType)}
  \cup {<<CalnexAPI(c), n>> : c \in {"1", "2"}, n \in {"ethernet", "qsfp_fec"}}
  \cup {<<CalnexAPI(c), n>> : c \in CalChannels \cup {"1", "2", "REF"}, n \in {"used", "protocol_enabled"}}
Factory == [n \in SettingNames |-> IF n = <<"antenna_delay">> THEN AntennaDelay(0) ELSE "factory"]
Down == [measuring |-> FALSE, firmware |-> 0, cert |-> <<"c0">>]

Answered(value) ==
  {[err |-> "", value |-> value]}
  \cup (IF calFaults < CalMaxFaults THEN {[err |-> e, value |-> value] : e \in {"hard", "soft"}} ELSE {})
Count(reply) == calFaults' = IF reply.err \in {"", "check"} THEN calFaults ELSE calFaults + 1
\* What a call that changes the device may come to: done, refused, or done with its answer lost.
Outcomes(done) ==
  {[err |-> "", dev |-> done]}
  \cup (IF calFaults < CalMaxFaults THEN {[err |-> "hard", dev |-> calDev], [err |-> "hard", dev |-> done],
                                          [err |-> "soft", dev |-> calDev]} ELSE {})

FetchSettings == Answered(calDev.settings)
FetchStatus == Answered(calDev.measuring)
FetchInstrumentStatus == Answered([progress |-> calDev.progress, modules |-> calDev.modules])
FetchVersion == Answered(calDev.firmware)
GnssStatus == Answered(calDev.satellites)
PowerSupplyStatus == Answered(calDev.supply)
StopMeasure == Outcomes([calDev EXCEPT !.measuring = FALSE])
StartMeasure == Outcomes([calDev EXCEPT !.measuring = TRUE])
PushSettings(f) == Outcomes([calDev EXCEPT !.settings = f])
PushVersion(v) == Outcomes([calDev EXCEPT !.firmware = v])
PushCert(b) == Outcomes([calDev EXCEPT !.cert = b])
Cleared == Outcomes([calDev EXCEPT !.measuring = FALSE, !.settings = Factory])
Rebooted == Outcomes([calDev EXCEPT !.measuring = FALSE])

------------------------------------------------------------------------------
(* Certificates. *)

\* Parse: the certificates and the key of a PEM file, or an error.
NoBundle == [ok |-> FALSE, certs |-> <<>>, key |-> FALSE]
ParseBlock(b, block) ==
  IF ~b.ok THEN b
  ELSE IF block = "junk" THEN NoBundle
  ELSE IF block = "key" THEN (IF b.key THEN NoBundle ELSE [b EXCEPT !.key = TRUE])
  ELSE [b EXCEPT !.certs = Append(@, block)]
Parse(blocks) == FoldLeft(ParseBlock, [NoBundle EXCEPT !.ok = TRUE], blocks)

Verify(b) ==
  /\ b.key /\ b.certs # <<>>
  /\ LET ours == SelectSeq(b.certs, LAMBDA c : CalHost[c] # "other")
     IN ours # <<>> /\ CalHost[Last(ours)] = "valid"
\* Equals takes each certificate out of a copy of the other list, moving the last one into its place.
TakeOut(other, cert) ==
  IF ~other.found \/ ~\E i \in DOMAIN other.certs : other.certs[i] = cert THEN [other EXCEPT !.found = FALSE]
  ELSE LET i == CHOOSE j \in DOMAIN other.certs : other.certs[j] = cert /\ \A k \in 1..(j - 1) : other.certs[k] # cert
       IN [other EXCEPT !.certs = Front([other.certs EXCEPT ![i] = Last(other.certs)])]
Equals(certs, other) ==
  LET left == FoldLeft(TakeOut, [found |-> TRUE, certs |-> other], certs) IN left.found /\ left.certs = <<>>

------------------------------------------------------------------------------
(* The commands. *)

NoCmd == [name |-> "none", pc |-> "idle", ran |-> 0, apply |-> FALSE, force |-> FALSE, arg |-> 0,
          f |-> Factory, remedy |-> "", changed |-> FALSE, active |-> FALSE, err |-> ""]
NoExport == [pc |-> "idle", allData |-> TRUE, left |-> {}, ch |-> "none", probe |-> "none", target |-> "none",
             success |-> FALSE, printed |-> {}, err |-> "", quiet |-> TRUE]

CalInit ==
  /\ \E d \in CalDevices :
       calDev = d @@ [settings |-> Factory, measuring |-> TRUE, progress |-> -1, cert |-> <<"c0">>, read |-> [c \in CalChannels |-> 0]]
  /\ calCmd = NoCmd /\ calExp = NoExport /\ calFaults = 0
CalOff ==
  /\ calDev = Down /\ calCmd = [NoCmd EXCEPT !.ran = CalMaxCommands] /\ calExp = [NoExport EXCEPT !.pc = "off"]
  /\ calFaults = CalMaxFaults

CmdAt(name, pc) == calCmd.name = name /\ calCmd.pc = pc
\* The command goes on at pc, or returns the error of a call.
Goes(err, pc) == IF err # "" THEN [calCmd EXCEPT !.pc = "idle", !.err = err] ELSE [calCmd EXCEPT !.pc = pc]
Run ==
  /\ calCmd.pc = "idle" /\ calCmd.ran < CalMaxCommands
  /\ \E apply, force \in BOOLEAN :
       \/ \E cc \in CalConfigs : ~force /\
            calCmd' = [NoCmd EXCEPT !.name = "config", !.pc = "settings", !.ran = calCmd.ran + 1, !.apply = apply, !.arg = cc]
       \/ \E v \in CalVersions :
            calCmd' = [NoCmd EXCEPT !.name = "firmware", !.pc = "version", !.ran = calCmd.ran + 1, !.apply = apply, !.force = force, !.arg = v]
       \/ \E pem \in CalPEMs : ~force /\
            calCmd' = [NoCmd EXCEPT !.name = "cert", !.pc = "verify", !.ran = calCmd.ran + 1, !.apply = apply, !.arg = pem]
       \/ \E name \in {"clear", "reboot"} : apply /\ ~force /\
            calCmd' = [NoCmd EXCEPT !.name = name, !.pc = "status", !.ran = calCmd.ran + 1]
       \/ ~force /\ calCmd' = [NoCmd EXCEPT !.name = "verify", !.pc = "Ping", !.ran = calCmd.ran + 1, !.apply = apply]
  /\ UNCHANGED <<calDev, calExp, calFaults>>

ConfigPrepares ==
  /\ CmdAt("config", "settings")
  /\ \E r \in FetchSettings :
       /\ Count(r)
       /\ IF r.err # "" THEN calCmd' = Goes(r.err, "idle")
          ELSE \E c \in {prepare(r.value, calCmd.arg)} :
                 calCmd' = [Goes("", IF calCmd.apply THEN "status" ELSE "idle") EXCEPT !.f = c.f, !.changed = c.changed]
  /\ UNCHANGED <<calDev, calExp>>

\* Mutant of ConfigStatus: nothing to change, nothing to do.
ConfigStatusIdle ==
  /\ CmdAt("config", "status")
  /\ \E r \in FetchStatus :
       /\ Count(r)
       /\ calCmd' = [Goes(r.err, IF calCmd.changed THEN (IF r.value = TRUE THEN "stop" ELSE "push")
                                 ELSE "idle") EXCEPT !.active = r.value]
  /\ UNCHANGED <<calDev, calExp>>

ConfigStatus ==
  /\ CmdAt("config", "status")
  /\ \E r \in FetchStatus :
       /\ Count(r)
       /\ calCmd' = [Goes(r.err, IF calCmd.changed THEN (IF r.value = TRUE THEN "stop" ELSE "push")
                                 ELSE IF r.value = TRUE THEN "idle" ELSE "start") EXCEPT !.active = r.value]
  /\ UNCHANGED <<calDev, calExp>>
ConfigStops ==
  /\ CmdAt("config", "stop")
  /\ \E r \in StopMeasure : Count(r) /\ calDev' = r.dev /\ calCmd' = Goes(r.err, "push")
  /\ UNCHANGED calExp
ConfigPushes ==
  /\ CmdAt("config", "push")
  /\ \E r \in PushSettings(calCmd.f) : Count(r) /\ calDev' = r.dev /\ calCmd' = Goes(r.err, "start")
  /\ calExp' = [calExp EXCEPT !.quiet = FALSE]
ConfigStarts ==
  /\ CmdAt("config", "start")
  /\ \E r \in StartMeasure : Count(r) /\ calDev' = r.dev /\ calCmd' = Goes(r.err, "idle")
  /\ UNCHANGED calExp

Outdated(version) == version < calCmd.arg

\* Firmware: ShouldUpgrade, then InProgress for the log, or the upgrade.
FirmwareGoes(shouldUpgrade) ==
  IF ~shouldUpgrade THEN "progress" ELSE IF calCmd.apply THEN "status" ELSE "idle"
ShouldUpgrade ==
  /\ CmdAt("firmware", "version")
  /\ \E r \in FetchVersion :
       /\ Count(r)
       /\ calCmd' = Goes(r.err, FirmwareGoes(Outdated(r.value) \/ calCmd.force))
  /\ UNCHANGED <<calDev, calExp>>
InProgress ==
  /\ CmdAt("firmware", "progress")
  /\ \E r \in FetchInstrumentStatus : Count(r) /\ calCmd' = Goes(r.err, "idle")
  /\ UNCHANGED <<calDev, calExp>>
FirmwareStops ==
  /\ CmdAt("firmware", "status")
  /\ \E r \in FetchStatus :
       IF r.err # "" \/ r.value = FALSE THEN Count(r) /\ calCmd' = Goes(r.err, "push") /\ UNCHANGED calDev
       ELSE \E s \in StopMeasure : Count(s) /\ calDev' = s.dev /\ calCmd' = Goes(s.err, "push")
  /\ UNCHANGED calExp
FirmwarePushes ==
  /\ CmdAt("firmware", "push")
  /\ \E r \in PushVersion(calCmd.arg) : Count(r) /\ calDev' = r.dev /\ calCmd' = Goes(r.err, "idle")
  /\ UNCHANGED calExp

\* certFunc: the certificate is parsed, verified and compared before it is pushed; a push that
\* failed without an answer ends it with the nil Result it reads.
certFunc ==
  /\ CmdAt("cert", "verify")
  /\ \E b \in {Parse(calCmd.arg)} :
       IF ~b.ok \/ ~Verify(b) THEN calCmd' = Goes("soft", "idle") /\ UNCHANGED calFaults
       ELSE \E r \in Answered(calDev.cert) :
              /\ Count(r)
              /\ calCmd' = Goes(r.err, IF r.err # "" \/ Equals(b.certs, r.value) \/ ~calCmd.apply THEN "idle" ELSE "push")
  /\ UNCHANGED <<calDev, calExp>>
CertPushed ==
  /\ CmdAt("cert", "push")
  /\ \E r \in PushCert(Parse(calCmd.arg).certs) :
       /\ Count(r) /\ calDev' = r.dev
       /\ \E nilResult \in BOOLEAN : (r.err = "" => ~nilResult) /\ (r.err = "hard" => nilResult)
            /\ calCmd' = Goes(IF nilResult THEN "panic" ELSE r.err, "idle")
  /\ UNCHANGED calExp

\* ClearDevice and Reboot stop a measurement if they can.
StopIfActive ==
  /\ calCmd.name \in {"clear", "reboot"} /\ calCmd.pc = "status"
  /\ \E r \in FetchStatus :
       IF r.err # "" \/ r.value = FALSE THEN Count(r) /\ UNCHANGED calDev
       ELSE \E s \in StopMeasure : Count(s) /\ calDev' = s.dev
  /\ calCmd' = [calCmd EXCEPT !.pc = "act"]
  /\ UNCHANGED calExp
ClearDevice ==
  /\ CmdAt("clear", "act")
  /\ \E r \in Cleared : Count(r) /\ calDev' = r.dev /\ calCmd' = Goes(r.err, "idle")
  /\ calExp' = [calExp EXCEPT !.quiet = FALSE]
Reboot ==
  /\ CmdAt("reboot", "act")
  /\ \E r \in Rebooted : Count(r) /\ calDev' = r.dev /\ calCmd' = Goes(r.err, "idle")
  /\ UNCHANGED calExp

\* The checks of Verify: a call that fails, or an answer that shows the device unfit.
Unfit(replies, fit(_)) == {[r EXCEPT !.err = IF @ = "" /\ ~fit(r.value) THEN "check" ELSE @] : r \in replies}
PingRun == Unfit(Answered("EchoReply"), LAMBDA v : v = "EchoReply")
HTTPRun == Unfit(FetchStatus, LAMBDA v : TRUE)
GNSSRun == Unfit(GnssStatus, LAMBDA v : v >= 4)
PSURun == Unfit(PowerSupplyStatus, LAMBDA v : v = "good")
ModuleRun == Unfit(FetchInstrumentStatus, LAMBDA v : v.modules \subseteq {"Measuring", "Ready", "ReadyForMeasurement"})
\* Verify runs its checks in order; with apply the first that fails is remedied and ends it.
AfterCheck == [Ping |-> "HTTP", HTTP |-> "GNSS", GNSS |-> "PSU", PSU |-> "Module", Module |-> "idle"]
RunCheck ==
  /\ calCmd.name = "verify"
  /\ \E r \in CASE calCmd.pc = "Ping" -> PingRun [] calCmd.pc = "HTTP" -> HTTPRun [] calCmd.pc = "GNSS" -> GNSSRun
                [] calCmd.pc = "PSU" -> PSURun [] calCmd.pc = "Module" -> ModuleRun [] calCmd.pc = "idle" -> {} :
       /\ Count(r)
       /\ LET remedied == r.err # "" /\ calCmd.apply IN
          calCmd' = [calCmd EXCEPT !.pc = IF remedied THEN "idle" ELSE AfterCheck[@],
                                   !.remedy = IF remedied THEN calCmd.pc ELSE @]
  /\ UNCHANGED <<calDev, calExp>>

------------------------------------------------------------------------------
(* The export. *)

FetchUsedChannels ==
  /\ calExp.pc = "idle"
  /\ \E r \in FetchSettings, all \in BOOLEAN :
       /\ Count(r)
       /\ calExp' = IF r.err # "" THEN [calExp EXCEPT !.pc = "returned", !.err = "no used channels"]
                    ELSE [calExp EXCEPT !.pc = "next", !.allData = all, !.quiet = TRUE,
                            !.left = {c \in CalChannels : r.value[<<CalnexAPI(c), "used">>] = "Yes"}]
  /\ UNCHANGED <<calDev, calCmd>>
\* The next channel of the loop, or the end.
NextChannel ==
  /\ calExp.pc = "next"
  /\ IF calExp.left = {}
     THEN calExp' = [calExp EXCEPT !.pc = "returned", !.err = IF calExp.success THEN "" ELSE "no target succeeds"]
     ELSE \E c \in calExp.left : calExp' = [calExp EXCEPT !.pc = "probe", !.ch = c, !.left = @ \ {c}]
  /\ UNCHANGED <<calDev, calCmd, calFaults>>
\* A failed call skips the channel, or ends the export if it is a hard failure.
Skips(err) == [calExp EXCEPT !.pc = IF err = "hard" THEN "returned" ELSE "next", !.err = IF err = "hard" THEN err ELSE @]
FetchChannelProbe ==
  /\ calExp.pc = "probe"
  /\ \E r \in Answered(calDev.settings[ProbeKey(calExp.ch)]) :
       /\ Count(r)
       /\ calExp' = IF r.err # "" THEN Skips(r.err)
                    ELSE IF r.value \notin DOMAIN DeviceProbeCode \/ r.value = "Disabled" THEN Skips("soft")
                    ELSE [calExp EXCEPT !.pc = "target", !.probe = probeCalnexAPIToProbe[DeviceProbeCode[r.value]]]
  /\ UNCHANGED <<calDev, calCmd>>
FetchChannelTarget ==
  /\ calExp.pc = "target"
  /\ \E r \in Answered(calDev.settings[TargetKey(calExp.ch, calExp.probe)]) :
       Count(r) /\ calExp' = IF r.err # "" THEN Skips(r.err) ELSE [calExp EXCEPT !.pc = "csv", !.target = r.value]
  /\ UNCHANGED <<calDev, calCmd>>
\* The lines up to the first that does not parse.
Parsed(lines) == SelectSeq([i \in DOMAIN lines |-> i], LAMBDA i : \A j \in 1..i : lines[j] = "good")
FetchCsv ==
  /\ calExp.pc = "csv"
  /\ LET c == calExp.ch
         lines == IF calExp.allData THEN calDev.data[c] ELSE SubSeq(calDev.data[c], calDev.read[c] + 1, Len(calDev.data[c]))
     IN \E r \in Answered(lines) :
       /\ Count(r)
       /\ calDev' = IF r.err = "" THEN [calDev EXCEPT !.read[c] = Len(calDev.data[c])] ELSE calDev
       /\ calExp' = IF r.err # "" THEN Skips(r.err)
                    ELSE [calExp EXCEPT !.pc = "next",
                            !.printed = @ \cup {[ch |-> c, target |-> calExp.target, probe |-> calExp.probe, lines |-> Len(Parsed(lines)),
                                                 quiet |-> calExp.quiet, set |-> calDev.settings]},
                            !.success = @ \/ \A i \in DOMAIN lines : lines[i] = "good"]
  /\ UNCHANGED calCmd

Export == FetchUsedChannels \/ NextChannel \/ FetchChannelProbe \/ FetchChannelTarget \/ FetchCsv

CalNext ==
  \/ Run \/ ConfigPrepares \/ ConfigStatus \/ ConfigStops \/ ConfigPushes \/ ConfigStarts
  \/ ShouldUpgrade \/ InProgress \/ FirmwareStops \/ FirmwarePushes \/ certFunc \/ CertPushed
  \/ StopIfActive \/ ClearDevice \/ Reboot \/ RunCheck \/ Export

------------------------------------------------------------------------------
\* The settings a configuration asks for, of every channel.
InForce(cc, f) ==
  /\ f[<<"antenna_delay">>] = AntennaDelay(cc.AntennaDelayNS)
  /\ \A ch \in CalChannels :
       IF ch \in DOMAIN cc.measure
       THEN /\ f[<<CalnexAPI(ch), "used">>] = "Yes"
            /\ f[<<CalnexAPI(ch), probeToServerType[cc.measure[ch].Probe]>>] = cc.measure[ch].Target
            /\ f[ProbeKey(ch)] = probeToCalnexName[cc.measure[ch].Probe]
       ELSE f[<<CalnexAPI(ch), "used">>] = "No"

\* A Config that returns without an error leaves the device measuring with the settings asked for,
\* also when earlier commands failed halfway, with calls that had an effect though they failed.
CalConfigApplied ==
  (calCmd.name = "config" /\ calCmd.pc = "idle" /\ calCmd.err = "" /\ calCmd.apply) =>
    calDev.measuring /\ InForce(calCmd.arg, calDev.settings)

\* The device only ever gets a certificate list with a valid certificate for it, and has the same
\* certificates as the file, in any order, when certFunc returns without an error.
CalCertificate ==
  /\ calDev.cert = <<"c0">> \/ \E i \in DOMAIN calDev.cert : CalHost[calDev.cert[i]] = "valid"
  /\ (calCmd.name = "cert" /\ calCmd.pc = "idle" /\ calCmd.err = "" /\ calCmd.apply) =>
       \A c \in DOMAIN CalHost : Cardinality({i \in DOMAIN calCmd.arg : calCmd.arg[i] = c})
                                   = Cardinality({i \in DOMAIN calDev.cert : calDev.cert[i] = c})

\* While no settings are pushed, the lines exported carry the target and the probe of their channel.
CalExportLabels ==
  \A e \in calExp.printed : e.quiet =>
    /\ e.target = e.set[TargetKey(e.ch, e.probe)]
    /\ probeToCalnexName[e.probe] = e.set[ProbeKey(e.ch)]

\* A command that reports success did what it says: the configuration is in force, the device has
\* the file's valid certificate, and an exported line is labelled with its channel's target.
CalCommandsTakeEffect == CalConfigApplied /\ CalCertificate /\ CalExportLabels
==============================================================================
