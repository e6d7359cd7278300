------------------------------ MODULE PtpProtocol ------------------------------
(* The PTP packets other than management ones, their TLVs, and DecodePacket
   (ptp/protocol protocol.go, tlvs.go, unicast.go).  The writer and the reader of
   a packet have an offset table each, as they have in the code, so that they can
   disagree.

   A behaviour builds a packet, turns it into bytes with Bytes, loses a suffix of
   them (a datagram longer than the receive buffer) and decodes the rest with
   DecodePacket.  An index past the end of a slice gives the result "panic". *)
EXTENDS PtpManagement

CONSTANTS
  PtpPackets       \* the packets a behaviour may start from

VARIABLE
  ptp              \* [packet, wire, got, stage]

------------------------------------------------------------------------------
(* The bodies: one table for MarshalBinaryTo, one for UnmarshalBinary; offsets
   are from the end of the header. *)

Stamp(name, n) == << At(name \o ".Seconds", n, 6), At(name \o ".Nanoseconds", n + 6, 4) >>

AnnounceOut ==
  Stamp("OriginTimestamp", 0) \o
  << At("CurrentUTCOffset", 10, 2), At("Reserved", 12, 1), At("GrandmasterPriority1", 13, 1),
     At("ClockClass", 14, 1), At("ClockAccuracy", 15, 1), At("OffsetScaledLogVariance", 16, 2),
     At("GrandmasterPriority2", 18, 1), At("GrandmasterIdentity", 19, 8),
     At("StepsRemoved", 27, 2), At("TimeSource", 29, 1) >>

AnnounceIn ==
  Stamp("OriginTimestamp", 0) \o
  << At("CurrentUTCOffset", 10, 2), At("Reserved", 12, 1), At("GrandmasterPriority1", 13, 1),
     At("ClockClass", 14, 1), At("ClockAccuracy", 15, 1), At("OffsetScaledLogVariance", 16, 2),
     At("GrandmasterPriority2", 18, 1), At("GrandmasterIdentity", 19, 8),
     At("StepsRemoved", 27, 2), At("TimeSource", 29, 1) >>

SyncDelayReqOut == Stamp("OriginTimestamp", 0)
SyncDelayReqIn  == Stamp("OriginTimestamp", 0)
FollowUpOut     == Stamp("PreciseOriginTimestamp", 0)
FollowUpIn      == Stamp("PreciseOriginTimestamp", 0)

Requesting(n) == << At("Requesting.ClockIdentity", n, 8), At("Requesting.PortNumber", n + 8, 2) >>
DelayRespOut  == Stamp("ReceiveTimestamp", 0) \o Requesting(10)
DelayRespIn   == Stamp("ReceiveTimestamp", 0) \o Requesting(10)

SignalingOut  == << At("Target.ClockIdentity", 0, 8), At("Target.PortNumber", 8, 2) >>
SignalingIn   == << At("Target.ClockIdentity", 0, 8), At("Target.PortNumber", 8, 2) >>

PDelayReq == Packed(<< <<"OriginTimestamp.Seconds", 6>>, <<"OriginTimestamp.Nanoseconds", 4>>,
                       <<"Reserved", 10>> >>)
PDelayResp == Packed(<< <<"RequestReceiptTimestamp.Seconds", 6>>,
                        <<"RequestReceiptTimestamp.Nanoseconds", 4>>,
                        <<"Requesting.ClockIdentity", 8>>, <<"Requesting.PortNumber", 2>> >>)
PDelayRespFollowUp == Packed(<< <<"ResponseOriginTimestamp.Seconds", 6>>,
                        <<"ResponseOriginTimestamp.Nanoseconds", 4>>,
                        <<"Requesting.ClockIdentity", 8>>, <<"Requesting.PortNumber", 2>> >>)

------------------------------------------------------------------------------
(* TLVs: [kind, LengthField, body]. *)

tlvHeadSize == 4
TLVTypes == [ RequestUnicastTransmission |-> 4, GrantUnicastTransmission |-> 5,
              CancelUnicastTransmission |-> 6, AcknowledgeCancelUnicastTransmission |-> 7,
              PathTrace |-> 8, AlternateTimeOffsetIndicator |-> 9, AlternateResponsePort |-> 8207 ]

tlvHeadMarshalBinaryTo(t) == Put16(TLVTypes[t.kind]) \o Put16(t.LengthField)

RequestTLV == << At("MsgTypeAndReserved", 4, 1), At("LogInterMessagePeriod", 5, 1),
                 At("DurationField", 6, 4) >>
GrantTLV   == RequestTLV \o << At("Reserved", 10, 1), At("Renewal", 11, 1) >>
CancelTLV  == << At("MsgTypeAndFlags", 4, 1), At("Reserved", 5, 1) >>
AckCancelTLV == << At("MsgTypeAndFlags", 4, 1), At("Reserved", 5, 1) >>
ResponsePortTLV == << At("Offset", 4, 2) >>
TimeOffsetTLV == << At("KeyField", 4, 1), At("CurrentOffset", 5, 4), At("JumpSeconds", 9, 4),
                    At("TimeOfNextJump", 13, 6) >>

\* The TLVs of a fixed layout, and the length their UnmarshalBinary insists on.
FixedTLV ==
  [ RequestUnicastTransmission |-> [fields |-> RequestTLV, want |-> 6],
    GrantUnicastTransmission |-> [fields |-> GrantTLV, want |-> 8],
    CancelUnicastTransmission |-> [fields |-> CancelTLV, want |-> 2],
    AcknowledgeCancelUnicastTransmission |-> [fields |-> AckCancelTLV, want |-> 2],
    AlternateResponsePort |-> [fields |-> ResponsePortTLV, want |-> 2] ]

MarshalTLV(t) ==
  CASE t.kind \in DOMAIN FixedTLV ->
         tlvHeadMarshalBinaryTo(t) \o From(Store(FixedTLV[t.kind].fields, t.body), tlvHeadSize)
    [] t.kind = "PathTrace" ->
         tlvHeadMarshalBinaryTo(t) \o FlattenSeq(t.body.PathSequence)
    [] t.kind = "AlternateTimeOffsetIndicator" ->
         tlvHeadMarshalBinaryTo(t) \o From(Store(TimeOffsetTLV, t.body), tlvHeadSize)
           \o (IF t.body.DisplayName = <<>> THEN <<>> ELSE MarshalText(t.body.DisplayName))

checkTLVLength(length, l, want, strict) ==
  /\ strict => length = want
  /\ length >= want
  /\ tlvHeadSize + length <= l

\* The identities of a PATH_TRACE: the loop runs while i * 8 <= LengthField and
\* breaks at the first identity that is not followed by another byte.
PathSequence(length, b) ==
  LET inside(i) == i * 8 <= length /\ tlvHeadSize + i * 8 + 8 < Len(b)
      n == CHOOSE n \in 0..(length \div 8 + 1) : ~inside(n) /\ \A i \in 0..(n - 1) : inside(i)
  IN [i \in 1..n |-> SubSeq(b, tlvHeadSize + 8 * i - 7, tlvHeadSize + 8 * i)]

UnmarshalTLV(b) ==
  IF Len(b) < 2 THEN Panicked
  ELSE IF \A k \in DOMAIN TLVTypes : TLVTypes[k] # U16(b) THEN Refused
  ELSE IF Len(b) < tlvHeadSize THEN Refused
  ELSE LET kind   == CHOOSE k \in DOMAIN TLVTypes : TLVTypes[k] = U16(b)
           length == U16(From(b, 2))
           tlv(body) == Decoded([kind |-> kind, LengthField |-> length, body |-> body])
       IN CASE kind \in DOMAIN FixedTLV ->
                 IF checkTLVLength(length, Len(b), FixedTLV[kind].want, TRUE)
                 THEN IF Fits(FixedTLV[kind].fields, b) THEN tlv(Load(FixedTLV[kind].fields, b)) ELSE Panicked
                 ELSE Refused
            [] kind = "PathTrace" ->
                 IF checkTLVLength(length, Len(b), 8, FALSE)
                 THEN tlv([PathSequence |-> PathSequence(length, b)]) ELSE Refused
            [] kind = "AlternateTimeOffsetIndicator" ->
                 LET text == UnmarshalText(From(b, tlvHeadSize + 15))
                     read == Load(TimeOffsetTLV, b)
                 IN IF checkTLVLength(length, Len(b), 20, FALSE) /\ text.result = "ok"
                    THEN tlv([n \in DOMAIN read \cup {"DisplayName"} |->
                                IF n = "DisplayName" THEN text.value ELSE read[n]])
                    ELSE Refused

writeTLVs(tlvs) == FlattenSeq([i \in DOMAIN tlvs |-> MarshalTLV(tlvs[i])])

\* The TLVs in the first maxLength bytes of b, from pos on, after those in tlvs.
RECURSIVE readTLVs(_, _, _, _)
readTLVs(tlvs, maxLength, b, pos) ==
  IF pos + tlvHeadSize > maxLength THEN Decoded(tlvs)
  ELSE LET r == UnmarshalTLV(From(b, pos))
       IN IF r.result # "ok" THEN r
          ELSE readTLVs(Append(tlvs, r.value), maxLength, b, pos + tlvHeadSize + r.value.LengthField)

------------------------------------------------------------------------------
(* Whole packets: [type, header, body, tlvs]. *)

MessageTypes ==
  [ Sync |-> 0, DelayReq |-> 1, PDelayReq |-> 2, PDelayResp |-> 3, FollowUp |-> 8, DelayResp |-> 9,
    PDelayRespFollowUp |-> 10, Announce |-> 11, Signaling |-> 12, Management |-> 13 ]

\* The tables of MarshalBinaryTo and UnmarshalBinary, the bytes they demand, the
\* buffer of MarshalBinary and whether TLVs follow.
Codec(type) ==
  CASE type \in {"Sync", "DelayReq"} ->
         [out |-> SyncDelayReqOut, in |-> SyncDelayReqIn, least |-> 10, buffer |-> 50, tlvs |-> TRUE]
    [] type = "FollowUp" -> [out |-> FollowUpOut, in |-> FollowUpIn, least |-> 10, buffer |-> 44, tlvs |-> FALSE]
    [] type = "DelayResp" -> [out |-> DelayRespOut, in |-> DelayRespIn, least |-> 20, buffer |-> 54, tlvs |-> FALSE]
    [] type = "Announce" -> [out |-> AnnounceOut, in |-> AnnounceIn, least |-> 30, buffer |-> 508, tlvs |-> TRUE]
    [] type = "Signaling" -> [out |-> SignalingOut, in |-> SignalingIn, least |-> 14, buffer |-> 508, tlvs |-> TRUE]
Struct(type) ==
  CASE type = "PDelayReq" -> PDelayReq [] type = "PDelayResp" -> PDelayResp
    [] type = "PDelayRespFollowUp" -> PDelayRespFollowUp
Structs == {"PDelayReq", "PDelayResp", "PDelayRespFollowUp"}

MarshalBinary(p) ==
  LET c == Codec(p.type)
      b == Store(headerMarshalBinaryTo, p.header) \o Store(c.out, p.body) \o writeTLVs(p.tlvs)
  IN IF p.type = "Signaling" /\ p.tlvs = <<>> THEN Refused
     ELSE IF Len(b) > c.buffer THEN Panicked ELSE Decoded(b)

UnmarshalBinary(type, b) ==
  LET c == Codec(type)
      header == Load(unmarshalHeader, b)
      rest == From(b, headerSize)
      tlvs == IF c.tlvs THEN readTLVs(<<>>, U16(header.MessageLength) - headerSize - SizeOf(c.in),
                                      From(rest, SizeOf(c.in)), 0)
              ELSE Decoded(<<>>)
  IN IF Len(b) < headerSize + c.least THEN Refused
     ELSE IF ~checkPacketLength(header, Len(b)) THEN Refused
     ELSE IF type = "Signaling" /\ MsgType(header) # MessageTypes.Signaling THEN Refused
     ELSE IF ~Fits(c.in, rest) THEN Panicked
     ELSE IF tlvs.result # "ok" THEN tlvs
     ELSE IF type = "Signaling" /\ tlvs.value = <<>> THEN Refused
     ELSE Decoded([type |-> type, header |-> header, body |-> Load(c.in, rest), tlvs |-> tlvs.value])

twoZeros == <<0, 0>>
Bytes(p) ==
  CASE p.type \in {"Management", "ManagementErrorStatus"} -> Decoded(MarshalManagement(p) \o twoZeros)
    [] p.type \in Structs -> Decoded(Store(Header, p.header) \o Store(Struct(p.type), p.body) \o twoZeros)
    [] OTHER -> LET r == MarshalBinary(p) IN IF r.result = "ok" THEN Decoded(r.value \o twoZeros) ELSE r

FromBytes(b, type) ==
  IF type \notin Structs THEN UnmarshalBinary(type, b)
  ELSE IF ~Fits(Shift(Struct(type), headerSize), b) THEN Refused
  ELSE Decoded([type |-> type, header |-> Load(Header, b),
                body |-> Load(Struct(type), From(b, headerSize)), tlvs |-> <<>>])

DecodePacket(b) ==
  IF Len(b) < headerSize THEN Refused
  ELSE LET types == {t \in DOMAIN MessageTypes : MessageTypes[t] = MsgType(Load(Header, b))}
       IN IF types = {} THEN Refused
          ELSE LET type == CHOOSE t \in types : TRUE
               IN IF type = "Management" THEN decodeMgmtPacket(b) ELSE FromBytes(b, type)

------------------------------------------------------------------------------
(* Sending and receiving. *)

PtpOff == ptp = [packet |-> <<>>, wire |-> <<>>, got |-> Refused, stage |-> "off"]
PtpInit == \E p \in PtpPackets : ptp = [packet |-> p, wire |-> <<>>, got |-> Refused, stage |-> "built"]

\* Bytes and the write of the datagram.
PtpSend ==
  /\ ptp.stage = "built"
  /\ LET r == Bytes(ptp.packet)
     IN ptp' = [ptp EXCEPT !.wire = IF r.result = "ok" THEN r.value ELSE <<>>,
                           !.got = r, !.stage = IF r.result = "ok" THEN "sent" ELSE "failed"]

\* n bytes of it reach the reader.
PtpReceive ==
  /\ ptp.stage = "sent"
  /\ \E n \in 0..Len(ptp.wire) :
       ptp' = [ptp EXCEPT !.wire = SubSeq(@, 1, n), !.got = DecodePacket(SubSeq(ptp.wire, 1, n)),
                          !.stage = IF n = Len(ptp.wire) THEN "received" ELSE "cut"]

PtpNext == PtpSend \/ PtpReceive

------------------------------------------------------------------------------

\* No packet makes the writer or the reader index past the end of its buffer: the
\* length checks of MarshalBinaryTo, UnmarshalBinary, checkPacketLength and
\* checkTLVLength come before every access they guard, wherever a datagram is cut.
PtpNeverPanics == ptp.got.result # "panic"

OwnRequests == Requests(<<0, 1>>)

\* What Bytes wrote, DecodePacket reads back: every field of the header, the body
\* and the TLVs in their order, the two trailing bytes notwithstanding.
PtpRoundTrip ==
  ptp.stage = "received" /\ ptp.packet \notin OwnRequests => ptp.got = Decoded(ptp.packet)

\* A management request announces its own size: the message length is what is
\* written (before the two trailing bytes), the TLV length what follows the TLV's
\* first four bytes, for the whole data sets and for the bare ptp4l ones alike.
PtpRequestsMeasured ==
  ptp.stage = "sent" /\ ptp.packet \in OwnRequests =>
     /\ U16(ptp.packet.header.MessageLength) + Len(twoZeros) = Len(ptp.wire)
     /\ msgHeadSize + 4 + ptp.packet.tlv.LengthField + Len(twoZeros) = Len(ptp.wire)

\* The packet without the last identity of the PATH_TRACE that ends it.
LastHopLost(p) ==
  [p EXCEPT !.tlvs[Len(p.tlvs)].body.PathSequence = Front(@)]

\* A datagram that was cut short is refused or understood as it was sent, except
\* that an error status may lose its text, which is optional, and a PATH_TRACE
\* that is followed by no byte at all loses its last identity.
PtpCutNeverMisread ==
  ptp.stage = "cut" /\ ptp.got.result = "ok" /\ ptp.got.value # ptp.packet =>
     CASE ptp.packet.type = "ManagementErrorStatus" ->
            ptp.got.value = [ptp.packet EXCEPT !.DisplayData = <<>>]
       [] ptp.packet.type \in {"Announce", "Signaling"} ->
            /\ Last(ptp.packet.tlvs).kind = "PathTrace"
            /\ Len(ptp.wire) = U16(ptp.packet.header.MessageLength)
            /\ ptp.got.value = LastHopLost(ptp.packet)
       [] OTHER -> FALSE

\* The client's methods tell the data sets apart: the reply is an answer to the
\* one method that asked for that data set, and an error to all others.
PtpAnswersTheQuestion ==
  ptp.stage \in {"received", "cut"} /\ ptp.packet \notin OwnRequests =>
     \A r \in {Communicate(ptp.wire)} : \A id \in DOMAIN Answers(r) :
        Answers(r)[id].result = "ok" =>
           /\ ptp.packet.type = "Management"
           /\ ptp.packet.tlv.id = id
           /\ Answers(r)[id].value = ptp.packet.tlv.body

\* Wherever a datagram is cut, the reader and the management client hand out what the other
\* side sent or refuse it: no panic, no field read from a wrong place, no answer to another
\* question, and the requests announce the size they have.
PtpReadAsSent ==
  PtpNeverPanics /\ PtpRoundTrip /\ PtpRequestsMeasured /\ PtpCutNeverMisread /\ PtpAnswersTheQuestion
==============================================================================
