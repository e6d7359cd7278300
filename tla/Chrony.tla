-------------------------------- MODULE Chrony --------------------------------
(* The chrony command protocol (ntp/chrony): what the client asks, what chronyd
   reads of it, what chronyd reports and what the client makes of the reply. *)
EXTENDS Wire

CONSTANTS
  Reports,      \* what chronyd may report: [type, data], data as meant by chronyd
  Questions     \* the requests asked: [ask, arg]

VARIABLE chr    \* one exchange: the question, the request, chronyd's report, the reply, what was read

(* Field types of the structs, and their conversions. *)

Num(name, size)  == <<name, size, "num">>
Padding(name, size) == <<name, size, "unused">>
IP(name)         == <<name, 20, "ipAddr">>
TimeSpec(name)   == <<name, 12, "timeSpec">>
Float(name)      == <<name, 4, "chronyFloat">>

ipAddrInet4 == 1
ipAddrInet6 == 2
ToNetIP(b) == IF U16(From(b, 16)) = ipAddrInet4 THEN SubSeq(b, 1, 4) ELSE SubSeq(b, 1, 16)

\* net.IP.To4: four bytes, or the sixteen bytes of a mapped address.
IsV4(ip) == Len(ip) = 4 \/ SubSeq(ip, 1, 12) = [i \in 1..12 |-> IF i > 10 THEN 255 ELSE 0]

newIPAddr(ip) ==
  [i \in 1..16 |-> IF i <= Len(ip) THEN ip[i] ELSE 0]
    \o Put16(IF IsV4(ip) THEN ipAddrInet4 ELSE ipAddrInet6) \o <<0, 0>>

noHighSec == <<127, 255, 255, 255>>
ToTime(b) ==
  [ sec  |-> (IF SubSeq(b, 1, 4) = noHighSec THEN <<0, 0, 0, 0>> ELSE SubSeq(b, 1, 4)) \o SubSeq(b, 5, 8),
    nsec |-> SubSeq(b, 9, 12) ]

\* A chronyFloat is coef * 2^exp; both are two's complement.
floatExpBits  == 7
floatCoefBits == 25

\* Mutant of ToFloat: the coefficient is taken as unsigned.
ToFloatUnsigned(b) ==
  LET exp  == b[1] \div 2
      coef == (b[1] % 2) * 2^24 + b[2] * 2^16 + b[3] * 2^8 + b[4]
  IN [ exp  |-> (IF exp >= 2^(floatExpBits - 1) THEN exp - 2^floatExpBits ELSE exp) - floatCoefBits,
       coef |-> coef ]

ToFloat(b) ==
  LET exp  == b[1] \div 2
      coef == (b[1] % 2) * 2^24 + b[2] * 2^16 + b[3] * 2^8 + b[4]
  IN [ exp  |-> (IF exp >= 2^(floatExpBits - 1) THEN exp - 2^floatExpBits ELSE exp) - floatCoefBits,
       coef |-> IF coef >= 2^(floatCoefBits - 1) THEN coef - 2^floatCoefBits ELSE coef ]

Converted(kind, b) ==
  CASE kind = "ipAddr" -> ToNetIP(b)
    [] kind = "timeSpec" -> ToTime(b)
    [] kind = "chronyFloat" -> ToFloat(b)
    [] OTHER -> b
\* The usable struct made of a content struct: each field converted, padding dropped.
Usable(content, r) ==
  [n \in {f[1] : f \in {f \in ToSet(content) : f[3] # "unused"}} |->
     Converted((CHOOSE f \in ToSet(content) : f[1] = n)[3], r[n])]

------------------------------------------------------------------------------
(* Requests. *)

protoVersionNumber == 6
maxDataLen == 396
pktTypeCmdRequest == 1
pktTypeCmdReply   == 2
CommandTypes ==
  [ NSources |-> 14, SourceData |-> 15, Tracking |-> 33, SourceStats |-> 34, Activity |-> 44,
    ServerStats |-> 54, NTPData |-> 57, NTPSourceName |-> 65, SelectData |-> 69 ]

RequestHead ==
  << Num("Version", 1), Num("PKTType", 1), Num("Res1", 1), Num("Res2", 1), Num("Command", 2),
     Num("Attempt", 2), Num("Sequence", 4), Num("Pad1", 4), Num("Pad2", 4) >>
Plain   == RequestHead \o <<Num("data", maxDataLen)>>
ByIndex == RequestHead \o <<Num("Index", 4), Num("EOR", 4), Num("data", maxDataLen - 4)>>
ByIP    == RequestHead \o <<IP("IPAddr"), Num("EOR", 4), Num("data", maxDataLen - 16)>>
RequestSources == Plain
RequestSourceData == ByIndex
RequestNTPData == ByIP
RequestNTPSourceName == ByIP
RequestServerStats == Plain
RequestTracking == Plain
RequestSourceStats == ByIndex
RequestActivity == Plain
RequestSelectData == ByIndex

Bytes4(n) == <<0, 0>> \o Put16(n)
Request(struct, command, set) ==
  [ struct |-> Packed(struct),
    value |-> Both([n \in {f[1] : f \in ToSet(struct)} |->
                      [i \in 1..(CHOOSE f \in ToSet(struct) : f[1] = n)[2] |-> 0]],
                   Both([Version |-> <<protoVersionNumber>>, PKTType |-> <<pktTypeCmdRequest>>,
                         Command |-> Put16(command)], set)) ]
Nothing == [n \in {} |-> <<>>]

NewSourcesPacket == Request(RequestSources, CommandTypes.NSources, Nothing)
NewTrackingPacket == Request(RequestTracking, CommandTypes.Tracking, Nothing)
NewSourceStatsPacket(id) == Request(RequestSourceStats, CommandTypes.SourceStats, [Index |-> Bytes4(id)])
NewSourceDataPacket(id) == Request(RequestSourceData, CommandTypes.SourceData, [Index |-> Bytes4(id)])
NewNTPDataPacket(ip) == Request(RequestNTPData, CommandTypes.NTPData, [IPAddr |-> newIPAddr(ip)])
NewNTPSourceNamePacket(ip) ==
  Request(RequestNTPSourceName, CommandTypes.NTPSourceName, [IPAddr |-> newIPAddr(ip)])
NewServerStatsPacket == Request(RequestServerStats, CommandTypes.ServerStats, Nothing)
NewActivityPacket == Request(RequestActivity, CommandTypes.Activity, Nothing)
NewSelectDataPacket(id) == Request(RequestSelectData, CommandTypes.SelectData, [Index |-> Bytes4(id)])

NewPacket(q) ==
  CASE q.ask = "NSources" -> NewSourcesPacket
    [] q.ask = "Tracking" -> NewTrackingPacket
    [] q.ask = "SourceStats" -> NewSourceStatsPacket(q.arg)
    [] q.ask = "SourceData" -> NewSourceDataPacket(q.arg)
    [] q.ask = "NTPData" -> NewNTPDataPacket(q.arg)
    [] q.ask = "NTPSourceName" -> NewNTPSourceNamePacket(q.arg)
    [] q.ask = "ServerStats" -> NewServerStatsPacket
    [] q.ask = "Activity" -> NewActivityPacket
    [] q.ask = "SelectData" -> NewSelectDataPacket(q.arg)

------------------------------------------------------------------------------
(* Replies. *)

ReplyTypes ==
  [ NSources |-> 2, SourceData |-> 3, Tracking |-> 5, SourceStats |-> 6, Activity |-> 12,
    ServerStats |-> 14, NTPData |-> 16, NTPSourceName |-> 19, ServerStats2 |-> 22,
    SelectData |-> 23, ServerStats3 |-> 24, ServerStats4 |-> 25, NTPData2 |-> 26 ]
sttSuccess == 0
sttNoSuchSource == 4

ReplyHead ==
  << Num("Version", 1), Num("PKTType", 1), Num("Res1", 1), Num("Res2", 1), Num("Command", 2),
     Num("Reply", 2), Num("Status", 2), Num("Pad1", 2), Num("Pad2", 2), Num("Pad3", 2),
     Num("Sequence", 4), Num("Pad4", 4), Num("Pad5", 4) >>

replySourcesContent == <<Num("NSources", 4)>>
replySourceDataContent ==
  << IP("IPAddr"), Num("Poll", 2), Num("Stratum", 2), Num("State", 2), Num("Mode", 2),
     Num("Flags", 2), Num("Reachability", 2), Num("SinceSample", 4), Float("OrigLatestMeas"),
     Float("LatestMeas"), Float("LatestMeasErr") >>
newSourceData(r) == Usable(replySourceDataContent, r)
replyTrackingContent ==
  << Num("RefID", 4), IP("IPAddr"), Num("Stratum", 2), Num("LeapStatus", 2), TimeSpec("RefTime"),
     Float("CurrentCorrection"), Float("LastOffset"), Float("RMSOffset"), Float("FreqPPM"),
     Float("ResidFreqPPM"), Float("SkewPPM"), Float("RootDelay"), Float("RootDispersion"),
     Float("LastUpdateInterval") >>
newTracking(r) == Usable(replyTrackingContent, r)
replySourceStatsContent ==
  << Num("RefID", 4), IP("IPAddr"), Num("NSamples", 4), Num("NRuns", 4), Num("SpanSeconds", 4),
     Float("StandardDeviation"), Float("ResidFreqPPM"), Float("SkewPPM"),
     Float("EstimatedOffset"), Float("EstimatedOffsetErr") >>
newSourceStats(r) == Usable(replySourceStatsContent, r)
NTPDataFields ==
  << IP("RemoteAddr"), IP("LocalAddr"), Num("RemotePort", 2), Num("Leap", 1), Num("Version", 1),
     Num("Mode", 1), Num("Stratum", 1), Num("Poll", 1), Num("Precision", 1), Float("RootDelay"),
     Float("RootDispersion"), Num("RefID", 4), TimeSpec("RefTime"), Float("Offset"),
     Float("PeerDelay"), Float("PeerDispersion"), Float("ResponseTime"), Float("JitterAsymmetry"),
     Num("Flags", 2), Num("TXTssChar", 1), Num("RXTssChar", 1), Num("TotalTXCount", 4),
     Num("TotalRXCount", 4), Num("TotalValidCount", 4) >>
replyNTPDataContent == NTPDataFields \o <<Padding("Reserved", 16)>>
newNTPData(r) == Usable(replyNTPDataContent, r)
replyNTPData2Content ==
  NTPDataFields \o << Num("TotalKernelTXts", 4), Num("TotalKernelRXts", 4), Num("TotalHWTXts", 4),
                      Num("TotalHWRXts", 4), Padding("Reserved", 16) >>
newNTPData2(r) == Usable(replyNTPData2Content, r)

replyNTPSourceNameContent == <<Num("Name", 256)>>
\* The name without the zeros that pad it.
newNTPSourceName(r) ==
  [Name |-> SubSeq(r.Name, 1, Max({0} \cup {i \in 1..256 : r.Name[i] # 0}))]

Activity ==
  << Num("Online", 4), Num("Offline", 4), Num("BurstOnline", 4), Num("BurstOffline", 4),
     Num("Unresolved", 4) >>
ServerStats ==
  << Num("NTPHits", 4), Num("CMDHits", 4), Num("NTPDrops", 4), Num("CMDDrops", 4), Num("LogDrops", 4) >>
ServerStats2 ==
  << Num("NTPHits", 4), Num("NKEHits", 4), Num("CMDHits", 4), Num("NTPDrops", 4), Num("NKEDrops", 4),
     Num("CMDDrops", 4), Num("LogDrops", 4), Num("NTPAuthHits", 4) >>
ServerStats3 ==
  ServerStats2 \o << Num("NTPInterleavedHits", 4), Num("NTPTimestamps", 4), Num("NTPSpanSeconds", 4) >>
ServerStats4 ==
  [i \in DOMAIN ServerStats3 |-> Num(ServerStats3[i][1], 8)] \o
  << Num("NTPDaemonRxtimestamps", 8), Num("NTPDaemonTxtimestamps", 8), Num("NTPKernelRxtimestamps", 8),
     Num("NTPKernelTxtimestamps", 8), Num("NTPHwRxTimestamps", 8), Num("NTPHwTxTimestamps", 8) >>
replySelectData ==
  << Num("RefID", 4), IP("IPAddr"), Num("StateChar", 1), Num("Authentication", 1), Num("Leap", 1),
     Padding("Pad", 1), Num("ConfOptions", 2), Num("EFFOptions", 2), Num("LastSampleAgo", 4),
     Float("Score"), Float("LoLimit"), Float("HiLimit") >>
newSelectData(r) == Usable(replySelectData, r)

Contents ==
  [ NSources |-> replySourcesContent, SourceData |-> replySourceDataContent,
    Tracking |-> replyTrackingContent, SourceStats |-> replySourceStatsContent,
    Activity |-> Activity, ServerStats |-> ServerStats, NTPData |-> replyNTPDataContent,
    NTPData2 |-> replyNTPData2Content, NTPSourceName |-> replyNTPSourceNameContent,
    ServerStats2 |-> ServerStats2, ServerStats3 |-> ServerStats3, ServerStats4 |-> ServerStats4,
    SelectData |-> replySelectData ]

Succeeded(head) == U16(head.Status) = sttSuccess

decodePacket(b) ==
  LET head    == Load(Packed(ReplyHead), b)
      data    == From(b, StructSize(ReplyHead))
      type    == CHOOSE t \in DOMAIN ReplyTypes : ReplyTypes[t] = U16(head.Reply)
      content == Load(Packed(Contents[type]), data)
  IN IF \/ ~Fits(Packed(ReplyHead), b)
        \/ ~Succeeded(head)
        \/ U16(head.Reply) \notin Range(ReplyTypes)
        \/ ~Fits(Packed(Contents[type]), data)
     THEN Refused
     ELSE Decoded([ type |-> type,
                    data |-> CASE type = "SourceData" -> newSourceData(content)
                               [] type = "Tracking" -> newTracking(content)
                               [] type = "SourceStats" -> newSourceStats(content)
                               [] type = "NTPData" -> newNTPData(content)
                               [] type = "NTPData2" -> newNTPData2(content)
                               [] type = "NTPSourceName" -> newNTPSourceName(content)
                               [] type = "SelectData" -> newSelectData(content)
                               [] OTHER -> content ])

------------------------------------------------------------------------------
(* chronyd's side of the wire (external). *)

\* chronyd knows an argument by the command.
ChronydReads(b) ==
  LET command == CHOOSE c \in DOMAIN CommandTypes : CommandTypes[c] = U16(From(b, 4))
  IN [ ask |-> command,
       arg |-> CASE command \in {"SourceData", "SourceStats", "SelectData"} -> U16(From(b, 22))
                 [] command \in {"NTPData", "NTPSourceName"} ->
                      IF U16(From(b, 36)) = 1 THEN SubSeq(b, 21, 24) ELSE SubSeq(b, 21, 36)
                 [] OTHER -> 0 ]

\* Addresses, times and floats as chronyd sends them.
Encoded(kind, v) ==
  CASE kind = "ipAddr" ->
         [i \in 1..16 |-> IF i <= Len(v) THEN v[i] ELSE 0] \o Put16(IF Len(v) = 4 THEN 1 ELSE 2) \o <<0, 0>>
    [] kind = "timeSpec" -> v.sec \o v.nsec
    [] kind = "chronyFloat" ->
         LET e == (v.exp + 25) % 128
             c == v.coef % 2^25
         IN <<2 * e + c \div 2^24, (c \div 2^16) % 256, (c \div 2^8) % 256, c % 256>>
    [] OTHER -> v
ChronydReply(status, report) ==
  LET content == Contents[report.type]
      value(f) == IF f[3] = "unused" THEN [i \in 1..f[2] |-> 0]
                  ELSE IF report.type = "NTPSourceName"
                  THEN [i \in 1..256 |-> IF i <= Len(report.data.Name) THEN report.data.Name[i] ELSE 0]
                  ELSE Encoded(f[3], report.data[f[1]])
  IN Store(Packed(ReplyHead),
           [n \in {f[1] : f \in ToSet(ReplyHead)} |->
              CASE n = "Reply" -> Put16(ReplyTypes[report.type])
                [] n = "Status" -> Put16(status)
                [] OTHER -> [i \in 1..(CHOOSE f \in ToSet(ReplyHead) : f[1] = n)[2] |-> 0]])
       \o FlattenSeq([i \in DOMAIN content |-> value(content[i])])

------------------------------------------------------------------------------
(* The client. *)

ChrOff == chr = [stage |-> "off"]
ChrInit ==
  \E q \in Questions : chr = [stage |-> "idle", question |-> q, Sequence |-> 1]

\* Communicate up to its Write: the request with the next sequence number.
ChronyCommunicate ==
  /\ chr.stage = "idle"
  /\ LET p == NewPacket(chr.question)
         seq == chr.Sequence + 1
     IN chr' = [ stage |-> "asked", question |-> chr.question, Sequence |-> seq,
                 wire |-> Store(p.struct, [p.value EXCEPT !.Sequence = Bytes4(seq)]) ]

\* The reply types chronyd has for a question: it depends on its version (external).
AnswerTypes(ask) ==
  CASE ask = "ServerStats" -> {"ServerStats", "ServerStats2", "ServerStats3", "ServerStats4"}
    [] ask = "NTPData" -> {"NTPData", "NTPData2"}
    [] OTHER -> {ask}

\* Read and decodePacket.  chronyd may answer with any status; the datagram may be cut.
ReadReply ==
  /\ chr.stage = "asked"
  /\ \E r \in {r \in Reports : r.type \in AnswerTypes(chr.question.ask)}, status \in {sttSuccess, sttNoSuchSource} :
       LET whole == ChronydReply(status, r) IN
       \E len \in {0, 27, 28, Len(whole) - 1, Len(whole)} :
         chr' = [ stage |-> "done", question |-> chr.question, Sequence |-> chr.Sequence,
                  wire |-> chr.wire, report |-> r, status |-> status, cut |-> len < Len(whole),
                  got |-> decodePacket(SubSeq(whole, 1, len)) ]

ChrNext == ChronyCommunicate \/ ReadReply

\* chronyd reads the command and the argument, index or address, that the caller
\* meant: the request structs have the layout and the order chronyd expects, and an
\* address taken from a reply goes back as the same address.
ChronyAsksWhatItMeans ==
  chr.stage \in {"asked", "done"} => ChronydReads(chr.wire) = chr.question

\* A complete successful reply is read as what chronyd reported: every number,
\* address, time and float of each of the thirteen reply types.
ChronyReplyRead ==
  (chr.stage = "done" /\ chr.status = sttSuccess /\ ~chr.cut) =>
     chr.got = Decoded([ type |-> chr.report.type,
                         data |-> [n \in DOMAIN chr.report.data |->
                                     IF n = "RefTime" /\ SubSeq(chr.report.data[n].sec, 1, 4) = <<127, 255, 255, 255>>
                                     THEN [chr.report.data[n] EXCEPT !.sec = <<0, 0, 0, 0>> \o SubSeq(@, 5, 8)]
                                     ELSE chr.report.data[n]] ])

\* A reply that is cut short or carries an error status is refused, whatever it is:
\* no half read struct and no error reply reaches a caller as data.
ChronyNoHalfReply ==
  (chr.stage = "done" /\ (chr.status # sttSuccess \/ chr.cut)) => chr.got = Refused

\* The client and chronyd understand each other, whatever chronyd's version, the status and the
\* length of the datagram: the question arrives as it was meant and the answer is read as it was
\* reported or refused.
ChronyExchangeRight == ChronyAsksWhatItMeans /\ ChronyReplyRead /\ ChronyNoHalfReply
==============================================================================
