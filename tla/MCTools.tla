------------------------------- MODULE MCTools -------------------------------
(* The wire formats, the clients and the command line tools, one of them at a time: a behaviour is
   one packet, conversion, check, measurement or command of one tool, or the selections of the best
   master that an SPTP client makes. *)
EXTENDS MCSptpTick, PtpProtocol, PtpTypes, Chrony, NtpCheck, NtpDate, NtpControl, PhcOffset, Pps, Sa53,
        Calnex, SimpleClient, Linearizability, LeapSeconds, MCSmear, PathDelay

VARIABLE tool     \* the one that runs

------------------------------------------------------------------------------
(* PTP packets: one of each type, with the TLVs and data sets its senders fill in. *)

PtpHead(type, length) ==
  [Filled(Header, 1) EXCEPT !.SdoIDAndMsgType = <<16 + MessageTypes[type]>>, !.MessageLength = Put16(length)]
SampleTLVs ==
  { [kind |-> k, LengthField |-> FixedTLV[k].want, body |-> Filled(FixedTLV[k].fields, 3)] : k \in DOMAIN FixedTLV }
  \cup { [kind |-> "AlternateTimeOffsetIndicator", LengthField |-> 15 + Len(MarshalText(name)),
          body |-> Both(Filled(TimeOffsetTLV, 4), [DisplayName |-> name])] : name \in {<<80, 68, 84>>, <<80, 68, 84, 84>>} }
SamplePathTraces ==
  { [kind |-> "PathTrace", LengthField |-> 8 * n, body |-> [PathSequence |-> [i \in 1..n |-> [j \in 1..8 |-> i]]]] : n \in 1..3 }
SamplePacket(type, tlvs) ==
  LET fields == IF type \in Structs THEN Struct(type) ELSE Codec(type).out
  IN [type |-> type, header |-> PtpHead(type, headerSize + SizeOf(fields) + Len(writeTLVs(tlvs))),
      body |-> Filled(fields, 5), tlvs |-> tlvs]
PortTLV == CHOOSE t \in SampleTLVs : t.kind = "AlternateResponsePort"
SomeTLV == CHOOSE t \in SampleTLVs : t.kind = "AlternateTimeOffsetIndicator"
TLVLists == {<<t>> : t \in SampleTLVs \cup SamplePathTraces}
            \cup {<<t, u>> : t \in {PortTLV, SomeTLV}, u \in SampleTLVs \cup SamplePathTraces}
SampleManagement(id, body) ==
  LET tlv(n) == [id |-> id, LengthField |-> n, body |-> body]
      n == Len(MarshalMgmtTLV(tlv(0)))
  IN [type |-> "Management", header |-> PtpHead("Management", msgHeadSize + n),
      head |-> Filled(Packed(ManagementMsgHead), 6), tlv |-> tlv(n - 4)]
SampleEntry(address, selected) ==
  Both(Filled(Packed(UnicastMasterEntry), 7), [Selected |-> selected, Address |-> address])
SampleTables ==
  { <<>>, <<SampleEntry([i \in 1..4 |-> i], TRUE)>>,
    <<SampleEntry([i \in 1..16 |-> i], FALSE), SampleEntry([i \in 1..4 |-> i], TRUE)>> }
SampleErrors ==
  { [type |-> "ManagementErrorStatus", header |-> PtpHead("Management", msgHeadSize + 12 + Len(text)),
     head |-> Filled(Packed(ManagementMsgHead), 6), LengthField |-> 8 + Len(text),
     body |-> Filled(Packed(ErrorStatus), 8), DisplayData |-> text] : text \in {<<>>, <<78, 79>>, <<78, 79, 33>>} }
SamplePackets ==
  { SamplePacket(t, <<>>) : t \in {"Sync", "DelayReq", "FollowUp", "DelayResp", "Announce"} \cup Structs }
  \cup { SamplePacket(t, <<PortTLV>>) : t \in {"Sync", "DelayReq"} }
  \cup { SamplePacket(t, tlvs) : t \in {"Announce", "Signaling"}, tlvs \in TLVLists }
  \cup { SampleManagement(id, Filled(Packed(StructTLV[id]), 9)) : id \in DOMAIN StructTLV }
  \cup { SampleManagement("PortPropertiesNP", Both(Filled(Packed(PortPropertiesNPTLV), 9), [Interface |-> name])) :
           name \in {<<101, 116, 104>>, <<101, 116, 104, 48>>} }
  \cup { SampleManagement("UnicastMasterTableNP", [ActualTableSize |-> Len(t), UnicastMasters |-> t]) : t \in SampleTables }
  \cup SampleErrors \cup OwnRequests

\* Every threshold of the accuracies and its neighbours, every nibble, whole and broken corrections.
SampleOffsets == UNION {{n - 1, n, n + 1, -n} : n \in {0, 1000000000} \cup {AccuracyDuration(c) : c \in 32..48}}
Calls(fn, as, bs) == {[fn |-> fn, a |-> a, b |-> b] : a \in as, b \in bs}
SamplePorts == [ClockIdentity : 0..2, PortNumber : 0..2]
SampleConversions ==
  Calls("accuracy", SampleOffsets, {0})
  \cup Calls("mac", {[i \in 1..6 |-> i * n] : n \in {0, 7, 42}}, {0})
  \cup Calls("timestamp", {NoTime} \cup [sec : {0, 1, 255}, nsec : {0, 1}], {0})
  \cup Calls("correction", -31..33, {0}) \cup Calls("interval", -8..8, {0})
  \cup Calls("nibbles", 0..15, {0, 1, 15}) \cup Calls("duration", 1..600, {0})
  \cup Calls("ports", SamplePorts, SamplePorts)

------------------------------------------------------------------------------
(* chronyd's reports, with addresses of both families, times before and after 2^32 seconds and
   the extreme floats, and the questions. *)

V4 == <<192, 0, 2, 7>>
V6 == [i \in 1..16 |-> 31 + i]
SampleTimeSpecs ==
  { [sec |-> <<0, 0, 0, 0, 101, 1, 2, 3>>, nsec |-> <<0, 0, 0, 9>>],
    [sec |-> <<127, 255, 255, 255, 101, 1, 2, 3>>, nsec |-> <<59, 0, 0, 9>>] }
SampleFloats == {[exp |-> e - 25, coef |-> c] : e \in {-64, 0, 63}, c \in {-(2^24), -1, 0, 1, 2^24 - 1}}
SampleValue(f, salt, ip, t, x) ==
  CASE f[3] = "ipAddr" -> ip
    [] f[3] = "timeSpec" -> t
    [] f[3] = "chronyFloat" -> x
    [] OTHER -> IF f[1] = "Name" THEN SubSeq([i \in 1..256 |-> 97], 1, salt)
                ELSE [i \in 1..f[2] |-> (salt + 7 * i) % 256]
SampleReport(type, salt, ip, t, x) ==
  LET fields == {f \in ToSet(Contents[type]) : f[3] # "unused"}
  IN [ type |-> type,
       data |-> [n \in {f[1] : f \in fields} |-> SampleValue(CHOOSE f \in fields : f[1] = n, salt, ip, t, x)] ]
SampleReports ==
  { SampleReport(type, s, V4, t, [exp |-> 3, coef |-> -5]) :
      type \in DOMAIN Contents, s \in {0, 1, 255, 256}, t \in SampleTimeSpecs }
  \cup { SampleReport("Tracking", 5, V6, t, x) : t \in SampleTimeSpecs, x \in SampleFloats }
SampleQuestions ==
  { [ask |-> c, arg |-> i] : c \in {"SourceData", "SourceStats", "SelectData"}, i \in {0, 1, 300} }
  \cup { [ask |-> c, arg |-> a] : c \in {"NTPData", "NTPSourceName"}, a \in {V4, V6} }
  \cup { [ask |-> c, arg |-> 0] : c \in {"NSources", "Tracking", "ServerStats", "Activity"} }

\* Sources for ntpcheck: the system peer, one that fails a test, one out of reach, a reference clock.
Source(addr, mode, state, tests, reach, offset, poll, stratum) ==
  [ addr |-> addr, mode |-> mode, state |-> state, tests |-> tests, reach |-> reach, offset |-> offset,
    jitter |-> 1, poll |-> poll, stratum |-> stratum ]
PeerA == Source("a", "client", "sync", AllTests, 255, 1, 6, 2)
PeerB == Source("b", "client", "candidate", {1}, 255, -3, 4, 2)
PeerC == Source("c", "client", "unreach", {}, 255, 9, 6, 3)
PeerG == Source("g", "ref", "candidate", AllTests, 255, 2, 3, 1)
SampleDaemons == {<<PeerA, PeerB, PeerC>>, <<PeerA, PeerB>>, <<PeerB, PeerG>>, <<PeerC>>, <<>>, <<PeerG, PeerA>>}
SampleLate == {Source("d", "client", "candidate", AllTests, 17, 0, 6, 3)}

------------------------------------------------------------------------------
(* NTP: every time of the era, every settings byte; control answers of up to three fragments. *)

SampleNtpTimes == 0..((EraSeconds - EpochSeconds) * NsPerSec - 1)
SampleSettings == 0..255
SampleAnswers ==
  { [op |-> 1, status |-> 1556, items |-> [i \in 1..n |-> <<i, 37000 + i>>]] : n \in 0..5 }
  \cup { [op |-> 2, status |-> 38426, items |-> [i \in 1..n |-> [k |-> i, v |-> 10 * i, ok |-> i # 2]]] : n \in 0..5 }
SampleWords == {(w * 37) % 65536 : w \in 0..400} \cup {0, 65535}

\* Readings of one or two probes, odd and even widths.
SampleReadings ==
  LET one == [t1 : {0, 5}, wait : {0, 2}, width : 2..3]
      later == {[t1 |-> 9, wait |-> w, width |-> 2] : w \in {0, 1}}
  IN {<<a, b>> : a \in one, b \in later} \cup {<<a>> : a \in one}
SampleAhead == {-1, 0, 1, 7}

\* Firmware whose version comes before, between and after those of the devices; footers in
\* different windows; a block that ends in the padding byte.
SampleImages ==
  { [version |-> <<1, 2, 1>>, size |-> 2560, footer |-> 2500, blocks |-> <<<<1, 200>>, <<26, 0>>, <<7>>>>],
    [version |-> <<0, 255, 9>>, size |-> 3000, footer |-> 2487, blocks |-> <<<<3, 3>>, <<3, 3>>, <<3>>, <<0>>>>],
    [version |-> <<0, 0, 0>>, size |-> 1024, footer |-> 766, blocks |-> <<<<9, 9>>>>] }
SampleClocks == {<<0, 0, 0>>, <<1, 1, 255>>, <<1, 2, 1>>, <<1, 3, 0>>}

\* Two configurations of a Calnex device, certificate files in and out of order, two devices.
SampleConfigs ==
  { [ measure |-> ("A" :> [Target |-> "t1", Probe |-> "PPS"]) @@ ("VP1" :> [Target |-> "t2", Probe |-> "PTP"]),
      AntennaDelayNS |-> 1500 ],
    [ measure |-> ("VP1" :> [Target |-> "t1", Probe |-> "NTP"]), AntennaDelayNS |-> 999 ] }
SamplePEMs ==
  {<<"key", "c1", "c2">>, <<"c2", "c1", "c2", "key">>, <<"c1", "key", "key">>, <<"c1">>, <<"key", "c3">>}
SampleHosts == [c0 |-> "other", c1 |-> "valid", c2 |-> "other", c3 |-> "expired"]
SampleDevices ==
  { [ firmware |-> 1, satellites |-> 4, supply |-> "bad", modules |-> {"Ready"},
      data |-> ("A" :> <<"good", "bad", "good">> @@ "VP1" :> <<"good">>) ],
    [ firmware |-> 2, satellites |-> 3, supply |-> "good", modules |-> {"Measuring", "Fault"}, data |-> ("A" :> <<>> @@ "VP1" :> <<"bad">>) ] }

\* What an SPTP client may report on two grandmasters.
SampleStats ==
  LET stat(g, o, c, e) == [GMAddress |-> g, Offset |-> o, ClockClass |-> c, Error |-> e]
      one == {stat("gm1", o, c, e) : o \in {-3, 0, 2, 3}, c \in {6, 7}, e \in {"", "late"}}
  IN {<<>>} \cup {<<s>> : s \in one} \cup {<<s, stat("gm2", 0, 6, "")>> : s \in one}

\* Tables of no, one and three leap seconds; a time that does not fit into 32 bits.
LeapTable(events) == [i \in DOMAIN events |-> [Tleap |-> events[i] + i - 1, Nleap |-> i]]
SampleLeapTables == {LeapTable(e) : e \in {<<>>, <<20>>, <<20, 35, 300>>}}
SampleLeapFiles ==
  { [ver |-> v, name |-> n, ls |-> [i \in DOMAIN t |-> InBytes(t[i])]] :
      v \in {0, 50}, n \in {<<>>, <<80, 82>>}, t \in SampleLeapTables }
  \cup { [ver |-> v, name |-> <<>>, ls |-> <<[Tleap |-> <<0, 0, 0, 1, 2, 3, 4, 5>>, Nleap |-> <<255, 255, 255, 254>>]>>] :
           v \in {0, 50} }
SampleNows == {10, 20, 21, 34, 36, 299, 301, 65000}

\* Filters with and without discarding, windows of one to three delays; a rising path.
SampleFilters ==
  { [ Filter |-> f, FilterLength |-> l, DiscardFilterEnabled |-> e, DiscardBelow |-> 3, DiscardFrom |-> 4,
      DiscardMultiplier |-> 2 ] : f \in {"", "median", "mean"}, l \in {0, 2, 3}, e \in BOOLEAN }
------------------------------------------------------------------------------
ToolsInit ==
  /\ tool \in {"ptp", "types", "chrony", "ntpcheck", "ntp", "ntpdate", "control", "phc", "pps", "sa53", "calnex",
              "simpleclient", "linearizability", "leapseconds", "smear", "pathdelay", "selection"}
  /\ Init
  /\ IF tool = "ptp" THEN PtpInit ELSE PtpOff
  /\ IF tool = "types" THEN TypInit ELSE TypOff
  /\ IF tool = "chrony" THEN ChrInit ELSE ChrOff
  /\ IF tool = "ntpcheck" THEN NckInit ELSE NckOff
  /\ IF tool = "ntp" THEN NtsInit ELSE NtsOff
  /\ IF tool = "ntpdate" THEN NdInit ELSE NdOff
  /\ IF tool = "control" THEN CtlInit ELSE CtlOff
  /\ IF tool = "phc" THEN PhcInit ELSE PhcOff
  /\ IF tool = "pps" THEN PpsInit ELSE PpsOff
  /\ IF tool = "sa53" THEN SaInit ELSE SaOff
  /\ IF tool = "calnex" THEN CalInit ELSE CalOff
  /\ IF tool = "simpleclient" THEN ScInit ELSE ScOff
  /\ IF tool = "linearizability" THEN LinInit ELSE LinOff
  /\ IF tool = "leapseconds" THEN LpzInit ELSE LpzOff
  /\ IF tool = "smear" THEN SmrInit ELSE SmrOff
  /\ IF tool = "pathdelay" THEN PdlInit ELSE PdlOff

\* What is only converted or computed takes no steps.
pure == <<tool, typ, nts, phc, lpz>>
ToolsNext ==
  /\ UNCHANGED pure
  /\ \/ tool = "ptp" /\ PtpNext /\ UNCHANGED <<chr, nck, nd, ctl, ppsVars, saVars, calVars, sclVars, linVars, smrVars, pdl, vars>>
     \/ tool = "chrony" /\ ChrNext /\ UNCHANGED <<ptp, nck, nd, ctl, ppsVars, saVars, calVars, sclVars, linVars, smrVars, pdl, vars>>
     \/ tool = "ntpcheck" /\ NckNext /\ UNCHANGED <<ptp, chr, nd, ctl, ppsVars, saVars, calVars, sclVars, linVars, smrVars, pdl, vars>>
     \/ tool = "ntpdate" /\ NdNext /\ UNCHANGED <<ptp, chr, nck, ctl, ppsVars, saVars, calVars, sclVars, linVars, smrVars, pdl, vars>>
     \/ tool = "control" /\ CtlNext /\ UNCHANGED <<ptp, chr, nck, nd, ppsVars, saVars, calVars, sclVars, linVars, smrVars, pdl, vars>>
     \/ tool = "pps" /\ PpsNext /\ UNCHANGED <<ptp, chr, nck, nd, ctl, saVars, calVars, sclVars, linVars, smrVars, pdl, vars>>
     \/ tool = "sa53" /\ SaNext /\ UNCHANGED <<ptp, chr, nck, nd, ctl, ppsVars, calVars, sclVars, linVars, smrVars, pdl, vars>>
     \/ tool = "calnex" /\ CalNext /\ UNCHANGED <<ptp, chr, nck, nd, ctl, ppsVars, saVars, sclVars, linVars, smrVars, pdl, vars>>
     \/ tool = "simpleclient" /\ ScNext /\ UNCHANGED <<ptp, chr, nck, nd, ctl, ppsVars, saVars, calVars, linVars, smrVars, pdl, vars>>
     \/ tool = "linearizability" /\ LinNext /\ UNCHANGED <<ptp, chr, nck, nd, ctl, ppsVars, saVars, calVars, sclVars, smrVars, pdl, vars>>
     \/ tool = "smear" /\ AskingNext /\ UNCHANGED <<ptp, chr, nck, nd, ctl, ppsVars, saVars, calVars, sclVars, linVars, pdl, vars>>
     \/ tool = "pathdelay" /\ PdlNext /\ UNCHANGED <<ptp, chr, nck, nd, ctl, ppsVars, saVars, calVars, sclVars, linVars, smrVars, vars>>
     \/ tool = "selection" /\ Next /\ UNCHANGED <<ptp, chr, nck, nd, ctl, ppsVars, saVars, calVars, sclVars, linVars, smrVars, pdl>>

ToolsSpec == ToolsInit /\ [][ToolsNext]_<<pure, ptp, chr, nck, nd, ctl, ppsVars, saVars, calVars, sclVars, linVars, smrVars, pdl, vars>>

\* The choice of the best master (bmca.go, client.go) is settled: it does not depend on the order of
\* a Go map, priorities stay a permutation, and an equal master is not preferred to the current one.
SelectionStable == tool = "selection" => OrderIndependent /\ PrioritiesPermuted /\ NoFlap
==============================================================================
