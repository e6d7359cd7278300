---------------------------- MODULE PtpManagement ----------------------------
(* The common header, PTP texts and port addresses, the management messages and
   the client that asks ptp4l for its data sets (ptp/protocol management*.go,
   ptp4l.go). *)
EXTENDS Wire

(* The header. *)

headerSize == 34

headerMarshalBinaryTo ==
  << At("SdoIDAndMsgType", 0, 1), At("Version", 1, 1), At("MessageLength", 2, 2),
     At("DomainNumber", 4, 1), At("MinorSdoID", 5, 1), At("FlagField", 6, 2),
     At("CorrectionField", 8, 8), At("MessageTypeSpecific", 16, 4),
     At("ClockIdentity", 20, 8), At("PortNumber", 28, 2), At("SequenceID", 30, 2),
     At("ControlField", 32, 1), At("LogMessageInterval", 33, 1) >>

unmarshalHeader ==
  << At("SdoIDAndMsgType", 0, 1), At("Version", 1, 1), At("MessageLength", 2, 2),
     At("DomainNumber", 4, 1), At("MinorSdoID", 5, 1), At("FlagField", 6, 2),
     At("CorrectionField", 8, 8), At("MessageTypeSpecific", 16, 4),
     At("ClockIdentity", 20, 8), At("PortNumber", 28, 2), At("SequenceID", 30, 2),
     At("ControlField", 32, 1), At("LogMessageInterval", 33, 1) >>

Header ==
  Packed(<< <<"SdoIDAndMsgType", 1>>, <<"Version", 1>>, <<"MessageLength", 2>>,
     <<"DomainNumber", 1>>, <<"MinorSdoID", 1>>, <<"FlagField", 2>>, <<"CorrectionField", 8>>,
     <<"MessageTypeSpecific", 4>>, <<"ClockIdentity", 8>>, <<"PortNumber", 2>>,
     <<"SequenceID", 2>>, <<"ControlField", 1>>, <<"LogMessageInterval", 1>> >>)

checkPacketLength(h, l) == U16(h.MessageLength) <= l
MsgType(h) == h.SdoIDAndMsgType[1] % 16

------------------------------------------------------------------------------
(* Texts and addresses. *)

\* PTPText: a length byte, the text, and a zero byte after a text of odd length.
MarshalText(text) ==
  <<Len(text)>> \o text \o (IF Len(text) % 2 # 0 THEN <<0>> ELSE <<>>)

\* Mutant of UnmarshalText: the text may be longer than what is left.
UnmarshalTextLoose(b) ==
  IF Len(b) = 0 THEN Refused
  ELSE Decoded(SubSeq(b, 2, IF b[1] < Len(b) THEN b[1] + 1 ELSE Len(b)))

UnmarshalText(b) ==
  IF Len(b) = 0 THEN Refused
  ELSE LET length == b[1] IN
       IF length = 0 THEN Decoded(<<>>)
       ELSE IF Len(b) < (length + 1) % 256 \/ Len(b) - 1 < length THEN Refused
       ELSE Decoded(SubSeq(b, 2, length + 1))

UDPIPV4 == 1
UDPIPV6 == 2
MarshalAddress(a) ==
  Put16(IF Len(a) = 4 THEN UDPIPV4 ELSE UDPIPV6) \o Put16(Len(a)) \o a
UnmarshalAddress(b) ==
  IF Len(b) < 8 \/ Len(b) < 4 + U16(From(b, 2)) THEN Refused
  ELSE LET protocol == U16(b)
           length   == U16(From(b, 2))
       IN IF \/ protocol = UDPIPV4 /\ length = 4
             \/ protocol = UDPIPV6 /\ length = 16
          THEN Decoded(SubSeq(b, 5, 4 + length)) ELSE Refused

------------------------------------------------------------------------------
(* Management messages: the header, the head fields, a TLV of [id, LengthField, body]. *)

ManagementMsgHead ==
  << <<"Target.ClockIdentity", 8>>, <<"Target.PortNumber", 2>>, <<"StartingBoundaryHops", 1>>,
     <<"BoundaryHops", 1>>, <<"ActionField", 1>>, <<"Reserved", 1>> >>
msgHeadSize == headerSize + StructSize(ManagementMsgHead)
MsgHead     == Header \o Shift(Packed(ManagementMsgHead), headerSize)

TLVManagement == 1
TLVManagementErrorStatus == 2
ManagementIDs ==
  [ DefaultDataSet |-> 8192, CurrentDataSet |-> 8193, ParentDataSet |-> 8194, ClockAccuracy |-> 8208,
    TimeStatusNP |-> 49152, PortPropertiesNP |-> 49156, PortStatsNP |-> 49157,
    PortServiceStatsNP |-> 49159, UnicastMasterTableNP |-> 49160 ]
tlvManagementHead == 6

CurrentDataSetTLV == << <<"StepsRemoved", 2>>, <<"OffsetFromMaster", 8>>, <<"MeanPathDelay", 8>> >>
Quality == << <<"ClockClass", 1>>, <<"ClockAccuracy", 1>>, <<"OffsetScaledLogVariance", 2>> >>
DefaultDataSetTLV ==
  << <<"SoTSC", 1>>, <<"Reserved0", 1>>, <<"NumberPorts", 2>>, <<"Priority1", 1>> >> \o Quality \o
  << <<"Priority2", 1>>, <<"ClockIdentity", 8>>, <<"DomainNumber", 1>>, <<"Reserved1", 1>> >>
ParentDataSetTLV ==
  << <<"Parent.ClockIdentity", 8>>, <<"Parent.PortNumber", 2>>, <<"PS", 1>>, <<"Reserved", 1>>,
     <<"ObservedParentOffsetScaledLogVariance", 2>>, <<"ObservedParentClockPhaseChangeRate", 4>>,
     <<"GrandmasterPriority1", 1>> >> \o Quality \o
  << <<"GrandmasterPriority2", 1>>, <<"GrandmasterIdentity", 8>> >>
ClockAccuracyTLV == << <<"ClockAccuracy", 1>>, <<"Reserved", 1>> >>
ScaledNS == << <<"NanosecondsMSB", 2>>, <<"NanosecondsLSB", 8>>, <<"FractionalNanoseconds", 2>> >>
TimeStatusNPTLV ==
  << <<"MasterOffsetNS", 8>>, <<"IngressTimeNS", 8>>, <<"CumulativeScaledRateOffset", 4>>,
     <<"ScaledLastGmPhaseChange", 4>>, <<"GMTimeBaseIndicator", 2>> >> \o ScaledNS \o
  << <<"GMPresent", 4>>, <<"GMIdentity", 8>> >>
Port == << <<"ClockIdentity", 8>>, <<"PortNumber", 2>> >>
PortStats == << <<"RXMsgType", 128>>, <<"TXMsgType", 128>> >>
PortServiceStats ==
  << <<"AnnounceTimeout", 8>>, <<"SyncTimeout", 8>>, <<"DelayTimeout", 8>>,
     <<"UnicastServiceTimeout", 8>>, <<"UnicastRequestTimeout", 8>>, <<"MasterAnnounceTimeout", 8>>,
     <<"MasterSyncTimeout", 8>>, <<"QualificationTimeout", 8>>, <<"SyncMismatch", 8>>,
     <<"FollowupMismatch", 8>> >>
PortPropertiesNPTLV == Port \o << <<"PortState", 1>>, <<"Timestamping", 1>> >>
UnicastMasterEntry ==
  Port \o Quality \o << <<"Selected", 1>>, <<"PortState", 1>>, <<"Priority1", 1>>, <<"Priority2", 1>> >>

\* The struct of each data set, and the words of it that travel in host order.
StructTLV ==
  [ DefaultDataSet |-> DefaultDataSetTLV, CurrentDataSet |-> CurrentDataSetTLV,
    ParentDataSet |-> ParentDataSetTLV, ClockAccuracy |-> ClockAccuracyTLV,
    TimeStatusNP |-> TimeStatusNPTLV, PortStatsNP |-> Port \o PortStats,
    PortServiceStatsNP |-> Port \o PortServiceStats ]
HostOrdered(id) ==
  CASE id = "PortStatsNP" -> {PortStats[i][1] : i \in DOMAIN PortStats}
    [] id = "PortServiceStatsNP" -> {PortServiceStats[i][1] : i \in DOMAIN PortServiceStats}
    [] OTHER -> {}
InHostOrder(id, body) ==
  [n \in DOMAIN body |-> IF n \in HostOrdered(id) THEN HostOrder(body[n], 8) ELSE body[n]]

MarshalEntry(e) ==
  Store(Packed(UnicastMasterEntry), [e EXCEPT !.Selected = IF @ THEN <<1>> ELSE <<0>>])
    \o MarshalAddress(e.Address)
UnmarshalEntry(b) ==
  LET fixed == Load(Packed(UnicastMasterEntry), b)
      address == UnmarshalAddress(From(b, 18))
  IN IF Len(b) < 26 \/ fixed.Selected \notin {<<0>>, <<1>>} \/ address.result # "ok" THEN Refused
     ELSE Decoded(Both(fixed, [Selected |-> fixed.Selected = <<1>>, Address |-> address.value]))

MarshalPortProperties(body) == Store(Packed(PortPropertiesNPTLV), body) \o MarshalText(body.Interface)
MarshalMasterTable(body) ==
  Put16(body.ActualTableSize)
    \o FlattenSeq([i \in DOMAIN body.UnicastMasters |-> MarshalEntry(body.UnicastMasters[i])])

\* A request for a ptp4l data set is just the ManagementTLVHead: no body.
MarshalMgmtTLV(tlv) ==
  Put16(TLVManagement) \o Put16(tlv.LengthField) \o Put16(ManagementIDs[tlv.id]) \o
  ( IF tlv.body = <<>> THEN <<>>
    ELSE CASE tlv.id \in DOMAIN StructTLV ->
                Store(Packed(StructTLV[tlv.id]), InHostOrder(tlv.id, tlv.body))
           [] tlv.id = "PortPropertiesNP" -> MarshalPortProperties(tlv.body)
           [] tlv.id = "UnicastMasterTableNP" -> MarshalMasterTable(tlv.body) )

\* ActualTableSize entries from offset n of the TLV on.
RECURSIVE readEntries(_, _, _, _)
readEntries(entries, size, b, n) ==
  IF size = 0 THEN Decoded(entries)
  ELSE IF n > Len(b) THEN Panicked
  ELSE LET e == UnmarshalEntry(From(b, n))
       IN IF e.result # "ok" THEN e
          ELSE readEntries(Append(entries, e.value), size - 1, b, n + 22 + Len(e.value.Address))

\* mgmtTLVDecoder[id] on the bytes of the TLV, its head included.
mgmtTLVDecoder(id, b) ==
  LET data == From(b, tlvManagementHead)
      tlv(body) == Decoded([id |-> id, LengthField |-> U16(From(b, 2)), body |-> body])
  IN CASE id \in DOMAIN StructTLV ->
            IF Fits(Packed(StructTLV[id]), data)
            THEN tlv(InHostOrder(id, Load(Packed(StructTLV[id]), data))) ELSE Refused
       [] id = "PortPropertiesNP" ->
            LET text == UnmarshalText(From(data, StructSize(PortPropertiesNPTLV)))
            IN IF Fits(Packed(PortPropertiesNPTLV), data) /\ text.result = "ok"
               THEN tlv(Both(Load(Packed(PortPropertiesNPTLV), data), [Interface |-> text.value]))
               ELSE Refused
       [] id = "UnicastMasterTableNP" ->
            IF Len(data) < 2 THEN Refused
            ELSE LET r == readEntries(<<>>, U16(data), b, tlvManagementHead + 2)
                 IN IF r.result = "ok"
                    THEN tlv([ActualTableSize |-> U16(data), UnicastMasters |-> r.value]) ELSE r

ErrorStatus == << <<"ManagementErrorID", 2>>, <<"ManagementID", 2>>, <<"Reserved", 4>> >>

MarshalErrorStatus(p) ==
  Put16(TLVManagementErrorStatus) \o Put16(p.LengthField) \o Store(Packed(ErrorStatus), p.body)
    \o (IF p.DisplayData = <<>> THEN <<>> ELSE MarshalText(p.DisplayData))
MarshalManagement(p) ==
  Store(MsgHead, Both(p.header, p.head)) \o
  (IF p.type = "Management" THEN MarshalMgmtTLV(p.tlv) ELSE MarshalErrorStatus(p))

\* The display text is read only while the header says there are bytes left.
UnmarshalErrorStatus(header, head, b) ==
  LET data == From(b, msgHeadSize + 4)
      text == From(data, StructSize(ErrorStatus))
      toRead == U16(header.MessageLength) - msgHeadSize - 4 - StructSize(ErrorStatus)
      shown == IF text = <<>> \/ toRead <= 0 THEN Decoded(<<>>) ELSE UnmarshalText(text)
  IN IF ~Fits(Packed(ErrorStatus), data) \/ shown.result # "ok" THEN Refused
     ELSE Decoded([type |-> "ManagementErrorStatus", header |-> header, head |-> head,
                   LengthField |-> U16(From(b, msgHeadSize + 2)),
                   body |-> Load(Packed(ErrorStatus), data), DisplayData |-> shown.value])

\* The TLV is decoded by its management ID, from its head on.
UnmarshalManagement(header, head, tlv) ==
  IF U16(tlv) # TLVManagement \/ Len(tlv) < tlvManagementHead THEN Refused
  ELSE LET known == {i \in DOMAIN ManagementIDs : ManagementIDs[i] = U16(From(tlv, 4))}
       IN IF known = {} THEN Refused
          ELSE LET r == mgmtTLVDecoder(CHOOSE i \in known : TRUE, tlv)
               IN IF r.result # "ok" THEN r
                  ELSE Decoded([type |-> "Management", header |-> header, head |-> head, tlv |-> r.value])

decodeMgmtPacket(b) ==
  IF Len(b) < msgHeadSize + 4 THEN Refused
  ELSE LET header == Load(Header, b)
           head   == Load(Shift(Packed(ManagementMsgHead), headerSize), b)
           tlv    == From(b, msgHeadSize)
       IN IF U16(tlv) = TLVManagementErrorStatus THEN UnmarshalErrorStatus(header, head, b)
          ELSE UnmarshalManagement(header, head, tlv)

------------------------------------------------------------------------------
(* The requests, and what the client makes of the datagram it reads next. *)

GET == <<0>>
Version == 18                                     \* MinorVersion<<4 | MajorVersion
MgmtHeader(length, seq) ==
  [ Filled(Header, 1) EXCEPT !.SdoIDAndMsgType = <<13>>, !.Version = <<Version>>,
      !.MessageLength = Put16(length), !.SequenceID = seq, !.LogMessageInterval = <<127>> ]
MgmtRequest(id, size, seq, body) ==
  [ type |-> "Management", header |-> MgmtHeader(msgHeadSize + size, seq),
    head |-> [Filled(Packed(ManagementMsgHead), 2) EXCEPT !.ActionField = GET],
    tlv |-> [id |-> id, LengthField |-> size - 4, body |-> body] ]

Zeros(ws) == [n \in {ws[i][1] : i \in DOMAIN ws} |->
                [k \in 1..(CHOOSE s \in 1..256 : <<n, s>> \in ToSet(ws)) |-> 0]]
WholeStruct(id, seq) ==
  MgmtRequest(id, tlvManagementHead + StructSize(StructTLV[id]), seq, Zeros(StructTLV[id]))

HeadOnly(id, seq) == MgmtRequest(id, 4 + 2, seq, <<>>)

CurrentDataSetRequest(seq)       == WholeStruct("CurrentDataSet", seq)
DefaultDataSetRequest(seq)       == WholeStruct("DefaultDataSet", seq)
ParentDataSetRequest(seq)        == WholeStruct("ParentDataSet", seq)
ClockAccuracyRequest(seq)        == WholeStruct("ClockAccuracy", seq)
PortStatsNPRequest(seq)          == HeadOnly("PortStatsNP", seq)
TimeStatusNPRequest(seq)         == HeadOnly("TimeStatusNP", seq)
PortServiceStatsNPRequest(seq)   == HeadOnly("PortServiceStatsNP", seq)
PortPropertiesNPRequest(seq)     == HeadOnly("PortPropertiesNP", seq)
UnicastMasterTableNPRequest(seq) == HeadOnly("UnicastMasterTableNP", seq)

Requests(seq) ==
  { CurrentDataSetRequest(seq), DefaultDataSetRequest(seq), ParentDataSetRequest(seq),
    ClockAccuracyRequest(seq), PortStatsNPRequest(seq), TimeStatusNPRequest(seq),
    PortServiceStatsNPRequest(seq), PortPropertiesNPRequest(seq), UnicastMasterTableNPRequest(seq) }

\* Communicate: the next datagram on the connection, decoded; an error status is
\* an error.
Communicate(b) ==
  LET r == decodeMgmtPacket(b)
  IN IF r.result = "ok" /\ r.value.type = "ManagementErrorStatus" THEN Refused ELSE r

\* The client's method for one data set, given what Communicate returned: only a TLV of that
\* data set will do.
Ask(id, r) ==
  IF r.result = "ok" /\ r.value.tlv.id = id THEN Decoded(r.value.tlv.body)
  ELSE IF r.result = "panic" THEN r ELSE Refused
ParentDataSet(r)        == Ask("ParentDataSet", r)
DefaultDataSet(r)       == Ask("DefaultDataSet", r)
CurrentDataSet(r)       == Ask("CurrentDataSet", r)
ClockAccuracy(r)        == Ask("ClockAccuracy", r)
PortStatsNP(r)          == Ask("PortStatsNP", r)
TimeStatusNP(r)         == Ask("TimeStatusNP", r)
PortServiceStatsNP(r)   == Ask("PortServiceStatsNP", r)
PortPropertiesNP(r)     == Ask("PortPropertiesNP", r)
UnicastMasterTableNP(r) == Ask("UnicastMasterTableNP", r)
Answers(r) ==
  [ ParentDataSet |-> ParentDataSet(r), DefaultDataSet |-> DefaultDataSet(r),
    CurrentDataSet |-> CurrentDataSet(r), ClockAccuracy |-> ClockAccuracy(r),
    PortStatsNP |-> PortStatsNP(r), TimeStatusNP |-> TimeStatusNP(r),
    PortServiceStatsNP |-> PortServiceStatsNP(r), PortPropertiesNP |-> PortPropertiesNP(r),
    UnicastMasterTableNP |-> UnicastMasterTableNP(r) ]
==============================================================================
