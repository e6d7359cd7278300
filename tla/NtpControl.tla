------------------------------ MODULE NtpControl ------------------------------
(* NTP control messages (ntp/control): the status words, and the client that asks
   ntpd and puts an answer together from its fragments. *)
EXTENDS Integers, Sequences, SequencesExt, FiniteSets, FiniteSetsExt

CONSTANTS
  Words,          \* the sample of 16-bit status words
  CtlAnswers,       \* what ntpd may answer: [op, status, items]; items of 4 bytes, or k=v pairs
  PerFragment     \* items that fit one fragment (117 associations in 468 bytes)

VARIABLE ctl      \* a word, or a conversation of the client

(* Words.  A field of w bits at bit position p. *)
Field(n, p, w) == (n \div 2^p) % 2^w

SystemStatusWord(s) == s.LI * 2^14 + s.ClockSource * 2^8 + s.SystemEventCounter * 2^4 + s.SystemEventCode

ReadSystemStatusWord(b) ==
  [ LI |-> Field(b, 14, 2), ClockSource |-> Field(b, 8, 6), SystemEventCounter |-> Field(b, 4, 4),
    SystemEventCode |-> Field(b, 0, 4) ]

PeerStatusByte(s) ==
  (IF s.Configured THEN 16 ELSE 0) + (IF s.AuthOK THEN 8 ELSE 0) + (IF s.AuthEnabled THEN 4 ELSE 0)
    + (IF s.Reachable THEN 2 ELSE 0) + (IF s.Broadcast THEN 1 ELSE 0)
ReadPeerStatus(b) ==
  [ Configured |-> Field(b, 4, 1) = 1, AuthOK |-> Field(b, 3, 1) = 1, AuthEnabled |-> Field(b, 2, 1) = 1,
    Reachable |-> Field(b, 1, 1) = 1, Broadcast |-> Field(b, 0, 1) = 1 ]
PeerStatusWord(s) ==
  PeerStatusByte(s.PeerStatus) * 2^11 + s.PeerSelection * 2^8 + s.PeerEventCounter * 2^4 + s.PeerEventCode
ReadPeerStatusWord(b) ==
  [ PeerStatus |-> ReadPeerStatus(Field(b, 11, 5)), PeerSelection |-> Field(b, 8, 3),
    PeerEventCounter |-> Field(b, 4, 4), PeerEventCode |-> Field(b, 0, 4) ]

MakeVnMode(version, mode) == version * 8 + mode
GetVersion(b) == Field(b, 3, 3)
GetMode(b) == Field(b, 0, 3)
MakeREMOp(response, error, more, op) ==
  (IF response THEN 128 ELSE 0) + (IF error THEN 64 ELSE 0) + (IF more THEN 32 ELSE 0) + op
IsResponse(b) == Field(b, 7, 1) = 1
HasError(b) == Field(b, 6, 1) = 1
HasMore(b) == Field(b, 5, 1) = 1
GetOperation(b) == Field(b, 0, 5)

------------------------------------------------------------------------------
(* The client. *)

ControlMode == 6
OpReadStatus == 1
OpReadVariables == 2

CtlOff == ctl = [stage |-> "off"]
CtlInit ==
  \/ \E w \in Words : ctl = [stage |-> "word", word |-> w]
  \/ \E a, b \in CtlAnswers :
       ctl = [ stage |-> "idle", Sequence |-> 1, todo |-> <<a, b>>, socket |-> <<>>,
               data |-> <<>>, got |-> <<>> ]

\* ntpd (external) answers in fragments of PerFragment items; all but the last have More.
Fragments(a, seq) ==
  LET n == Max({1, (Len(a.items) + PerFragment - 1) \div PerFragment}) IN
  [k \in 1..n |->
     LET items == SubSeq(a.items, (k - 1) * PerFragment + 1, Min({k * PerFragment, Len(a.items)}))
     IN [ VnMode |-> MakeVnMode(3, ControlMode), REMOp |-> MakeREMOp(TRUE, FALSE, k < n, a.op),
          Sequence |-> seq, Status |-> a.status, Count |-> 4 * Len(items), items |-> items ]]

\* CommunicateWithData up to its Write.
CtlCommunicate ==
  /\ ctl.stage = "idle" /\ Len(ctl.got) < Len(ctl.todo)
  /\ ctl' = [ctl EXCEPT !.stage = "reading", !.Sequence = @ + 1, !.data = <<>>,
               !.socket = @ \o Fragments(ctl.todo[Len(ctl.got) + 1], ctl.Sequence)]

\* Mutant of CtlRead: the answer is what the last fragment holds.
CtlReadLast ==
  /\ ctl.stage = "reading" /\ ctl.socket # <<>>
  /\ LET head == Head(ctl.socket)
     IN ctl' = IF HasMore(head.REMOp)
               THEN [ctl EXCEPT !.socket = Tail(@)]
               ELSE [ctl EXCEPT !.stage = "idle", !.socket = Tail(@),
                       !.got = Append(@, [head |-> head, Data |-> head.items])]

\* One Read: the data of every fragment is kept, the head of the last one.
CtlRead ==
  /\ ctl.stage = "reading" /\ ctl.socket # <<>>
  /\ LET head == Head(ctl.socket)
         data == ctl.data \o head.items
     IN ctl' = IF HasMore(head.REMOp)
               THEN [ctl EXCEPT !.socket = Tail(@), !.data = data]
               ELSE [ctl EXCEPT !.stage = "idle", !.socket = Tail(@), !.data = <<>>,
                       !.got = Append(@, [head |-> head, Data |-> data])]
CtlNext == CtlCommunicate \/ CtlRead

NoStatus == [LI |-> 4]
GetSystemStatus(m) ==
  IF GetOperation(m.head.REMOp) # OpReadStatus THEN NoStatus ELSE ReadSystemStatusWord(m.head.Status)
GetPeerStatus(m) ==
  IF GetOperation(m.head.REMOp) # OpReadVariables THEN NoStatus ELSE ReadPeerStatusWord(m.head.Status)
GetAssociations(m) ==
  IF GetOperation(m.head.REMOp) # OpReadStatus THEN {}
  ELSE {m.Data[i] : i \in 1..(m.head.Count \div 4)}

\* NormalizeData: the well formed pairs; a later pair replaces an earlier one of the same name.
NormalizeData(items) ==
  LET good == {i \in DOMAIN items : items[i].ok} IN
  [k \in {items[i].k : i \in good} |-> items[Max({i \in good : items[i].k = k})].v]
GetAssociationInfo(m) ==
  IF GetOperation(m.head.REMOp) # OpReadVariables \/ \A i \in DOMAIN m.Data : ~m.Data[i].ok
  THEN [k \in {} |-> 0] ELSE NormalizeData(m.Data)

------------------------------------------------------------------------------
\* Encoding a status word, a version and mode byte or an operation byte undoes decoding it,
\* for every word: no two fields overlap and none is cut.
ControlWordsRoundTrip ==
  ctl.stage = "word" =>
    /\ SystemStatusWord(ReadSystemStatusWord(ctl.word)) = ctl.word
    /\ PeerStatusWord(ReadPeerStatusWord(ctl.word)) = ctl.word
    /\ LET b == ctl.word % 256 IN
         /\ MakeREMOp(IsResponse(b), HasError(b), HasMore(b), GetOperation(b)) = b
         /\ b < 64 => MakeVnMode(GetVersion(b), GetMode(b)) = b

\* Each answer is the data of its own request, complete and in order, however many fragments
\* it came in, and an answer leaves nothing on the socket for the next request.
AnswerIsWhole ==
  ctl.stage \in {"idle", "reading"} =>
    /\ \A k \in DOMAIN ctl.got : ctl.got[k].Data = ctl.todo[k].items
    /\ ctl.stage = "idle" => ctl.socket = <<>>

\* A list of associations that fits one fragment is read completely, and variables are read
\* completely from any number of fragments; the status word is read as ntpd meant it.
AnswerIsUsed ==
  ctl.stage \in {"idle", "reading"} =>
    \A k \in DOMAIN ctl.got :
      LET a == ctl.todo[k]  m == ctl.got[k] IN
      /\ IF a.op = OpReadStatus THEN SystemStatusWord(GetSystemStatus(m)) = a.status
                                ELSE PeerStatusWord(GetPeerStatus(m)) = a.status
      /\ (a.op = OpReadStatus /\ Len(a.items) <= PerFragment) => GetAssociations(m) = ToSet(a.items)
      /\ a.op = OpReadVariables =>
           \A i \in DOMAIN a.items : a.items[i].ok => a.items[i].k \in DOMAIN GetAssociationInfo(m)

\* The control client reads ntpd's answers as ntpd meant them, whatever the number of fragments:
\* status words without loss, data whole and in order, for the request that was made.
ControlAnswerRight == ControlWordsRoundTrip /\ AnswerIsWhole /\ AnswerIsUsed
==============================================================================
