----------------------------- MODULE LeapSeconds -----------------------------
(* The leap second table of the time zone database (leapsectz), and ntpcheck's command that writes
   one with a further leap second.  In a file the fields of a leap second are bytes; for
   arithmetic they are numbers. *)
EXTENDS Wire, FiniteSets

CONSTANTS
  LeapFiles,    \* sample of files: [ver, name, ls], ls a sequence of leap seconds in bytes
  LeapTables,   \* sample of tables in numbers
  LeapNows      \* sample of the times they are looked at

VARIABLE lpz    \* one file or one look at a table

Magic == <<84, 90, 105, 102>>
V2 == 50        \* the character '2'
ZeroBytes(n) == [i \in 1..n |-> 0]

------------------------------------------------------------------------------
(* Write. *)

prepareHeader(ver, lsCnt, name) ==
  Magic \o <<ver>> \o ZeroBytes(15)
  \o FlattenSeq([i \in 1..6 |-> <<0, 0>> \o Put16(<<1, 1, lsCnt, 0, 1, Len(name)>>[i])])
writePreData(name) == ZeroBytes(6) \o name
writePostData == ZeroBytes(2)

\* Version 0 has 4 bytes of Tleap, the second part of version 2 all 8.
LeapWrite(ver, ls, name) ==
  LET nameFormatted == (IF name = <<>> THEN <<85, 84, 67>> ELSE name) \o <<0>>
      part(size) == prepareHeader(ver, Len(ls), nameFormatted) \o writePreData(nameFormatted)
                    \o FlattenSeq([i \in DOMAIN ls |-> From(ls[i].Tleap, 8 - size) \o ls[i].Nleap]) \o writePostData
  IN IF ver # V2 THEN part(4) ELSE part(4) \o part(8) \o <<10>> \o name \o <<10>>

------------------------------------------------------------------------------
(* parseVx: the first part, or the second when the version has one. *)

\* Magic, version and counts; the bytes that follow.
LeapHeader(b) ==
  LET count(i) == U16(SubSeq(b, 19 + 4 * i, 20 + 4 * i)) IN
  IF Len(b) < 44 \/ SubSeq(b, 1, 4) # Magic \/ b[5] \notin {0, V2, V2 + 1} THEN Refused
  ELSE Decoded([ version |-> b[5], IsUtcCnt |-> count(1), IsStdCnt |-> count(2), LeapCnt |-> count(3),
                 TimeCnt |-> count(4), TypeCnt |-> count(5), CharCnt |-> count(6), rest |-> From(b, 44) ])

LeapRecords(b, n, size) ==
  IF Len(b) < n * (size + 4) \/ n = 0 THEN Refused
  ELSE Decoded([i \in 1..n |->
         LET r == From(b, (i - 1) * (size + 4))
         IN [Tleap |-> ZeroBytes(8 - size) \o SubSeq(r, 1, size), Nleap |-> SubSeq(r, size + 1, size + 4)]])

parseVx(b) ==
  LET one  == LeapHeader(b)
      h    == one.value
      skip == h.TimeCnt * 5 + h.TypeCnt * 6 + h.CharCnt
      whole == skip + h.LeapCnt * 8 + h.IsUtcCnt + h.IsStdCnt
      two  == LeapHeader(From(h.rest, whole))
      g    == two.value
      skip2 == g.TimeCnt * 9 + g.TypeCnt * 6 + g.CharCnt
  IN CASE one.result # "ok" -> Refused
       [] one.result = "ok" /\ h.version = 0 ->
            IF Len(h.rest) < skip THEN Refused ELSE LeapRecords(From(h.rest, skip), h.LeapCnt, 4)
       [] OTHER ->
            IF Len(h.rest) < whole \/ two.result # "ok" THEN Refused
            ELSE IF g.version = 0 \/ Len(g.rest) < skip2 THEN Refused
            ELSE LeapRecords(From(g.rest, skip2), g.LeapCnt, 8)

------------------------------------------------------------------------------
(* Times. *)

LeapTime(l) == l.Tleap - l.Nleap + 1

NoLeap == [Tleap |-> 0, Nleap |-> 0]

\* Mutant of Latest: a leap second to come counts.
LatestListed(ls, now) ==
  FoldLeft(LAMBDA res, l : IF LeapTime(l) > LeapTime(res) THEN l ELSE res, NoLeap, ls)

Latest(ls, now) ==
  FoldLeft(LAMBDA res, l : IF LeapTime(l) > LeapTime(res) /\ LeapTime(l) < now THEN l ELSE res, NoLeap, ls)

InBytes(l) == [Tleap |-> ZeroBytes(6) \o Put16(l.Tleap), Nleap |-> ZeroBytes(2) \o Put16(l.Nleap)]
InNumbers(l) == [Tleap |-> U16(From(l.Tleap, 6)), Nleap |-> U16(From(l.Nleap, 2))]

\* addFakeSecondZoneInfo, from the table in one file to the bytes of the other.
addFakeSecondZoneInfo(ls, fakeLeap) ==
  LET fake == [Tleap |-> fakeLeap + Len(ls), Nleap |-> Len(ls) + 1]
  IN LeapWrite(V2, [i \in DOMAIN Append(ls, fake) |-> InBytes(Append(ls, fake)[i])], <<>>)

------------------------------------------------------------------------------
LpzOff == lpz = [fn |-> "off"]
LpzInit ==
  \/ \E f \in LeapFiles : \E cut \in 0..Len(LeapWrite(f.ver, f.ls, f.name)) :
       lpz = [fn |-> "file", file |-> f, cut |-> cut]
  \/ \E t \in LeapTables, now \in LeapNows : lpz = [fn |-> "table", ls |-> t, now |-> now]

\* What Parse reads of a file that Write wrote is the table, in 32 bits in version 0; and of a file
\* cut short anywhere it reads the whole table or nothing, never a part.
LeapFileWholeOrRefused ==
  lpz.fn = "file" =>
    LET f == lpz.file
        b == LeapWrite(f.ver, f.ls, f.name)
        got == parseVx(SubSeq(b, 1, lpz.cut))
        table == [i \in DOMAIN f.ls |-> IF f.ver = V2 THEN f.ls[i]
                                        ELSE [f.ls[i] EXCEPT !.Tleap = ZeroBytes(4) \o From(@, 4)]]
    IN /\ got \in {Refused, Decoded(table)}
       /\ lpz.cut = Len(b) /\ table # <<>> => got = Decoded(table)

\* With one second for each entry, Latest is the entry that is in force: the count of the leap
\* seconds that have passed, whatever is announced for later.
LatestIsInForce ==
  lpz.fn = "table" =>
    LET passed == {i \in DOMAIN lpz.ls : LeapTime(lpz.ls[i]) < lpz.now}
    IN Latest(lpz.ls, lpz.now).Nleap = Cardinality(passed)

\* A leap second added by ntpcheck comes back at the beginning of the month it was asked for, after
\* the ones that were there.
FakeLeapLands ==
  lpz.fn = "table" =>
    LET got == parseVx(addFakeSecondZoneInfo(lpz.ls, lpz.now))
    IN /\ got.result = "ok"
       /\ [i \in DOMAIN lpz.ls |-> InNumbers(got.value[i])] = lpz.ls
       /\ LeapTime(InNumbers(Last(got.value))) = lpz.now

\* The leap second table survives its file, cut anywhere, or is refused; the entry taken as the
\* latest is the one in force; and a leap second that is added comes last, at its month.
LeapTableRight == LeapFileWholeOrRefused /\ LatestIsInForce /\ FakeLeapLands
==============================================================================
