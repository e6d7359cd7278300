--------------------------------- MODULE Sa53 ---------------------------------
(* sa53fw: the firmware of the SA53 atomic clock is upgraded over its serial port.
   The image is sent in XModem blocks over a line that may damage a byte of a block
   or of its answer; the answers to commands arrive in pieces of any length. *)
EXTENDS Integers, Sequences, SequencesExt, FiniteSets, Bitwise

CONSTANTS
  SaImages,       \* firmware files: [version, size, footer: where it is, blocks: sequence of byte sequences]
  SaDevices,      \* device versions, 0 for a broken image
  SaBlockSize,    \* XModem1KBlockSsize
  SaBlockMod,     \* block numbers are one byte: 256
  SaTries,        \* attempts to send a block
  SaMaxNoise      \* bound: damaged transmissions and answers

ASSUME SaConstants == SaBlockSize \in Nat /\ SaBlockMod \in Nat \ {0} /\ SaTries \in Nat \ {0}

VARIABLES
  sa,             \* main: [pc, file, upgrade, force, block, try, gaveUp]
  saDev,          \* the device: [version, mode, image, expects]
  saNoise

saVars == <<sa, saDev, saNoise>>

------------------------------------------------------------------------------
(* Pure parts. *)

\* Version, of the device and of the file: major, minor and patch in one number.
SaVersion(v) == v[1] * 65536 + v[2] * 256 + v[3]

\* CRC16, one bit and one byte at a time.
CrcBit(crc) == IF crc >= 32768 THEN ((crc * 2) % 65536) ^^ 4129 ELSE crc * 2
CrcByte(crc, byte) == FoldLeft(LAMBDA c, i : CrcBit(c), crc ^^ (byte * 256), <<1, 2, 3, 4, 5, 6, 7, 8>>)
CRC16(data) == FoldLeft(CrcByte, 0, data)
cCPMEOF == 26
Padded(data) == data \o [i \in 1..(SaBlockSize - Len(data)) |-> cCPMEOF]

\* ParseVersion looks for the four bytes the footer starts with in windows of 256 bytes from the
\* end of the file: they are found if one window holds them all.  A file smaller than a window
\* is only looked at from its first byte.
FooterFound(f) ==
  \/ f.size < 256 /\ f.footer = 0
  \/ \E k \in 1..(f.size \div 256) : f.size - k * 256 <= f.footer /\ f.footer + 4 <= f.size - (k - 1) * 256

------------------------------------------------------------------------------
SaOff == sa = [pc |-> "off", file |-> 0, upgrade |-> FALSE, force |-> FALSE, block |-> 0, try |-> 0, gaveUp |-> FALSE]
         /\ saDev = [version |-> <<0, 0, 0>>, mode |-> "off", image |-> <<>>, expects |-> 1] /\ saNoise = 0
SaInit ==
  /\ \E f \in SaImages, upgrade, force \in BOOLEAN :
       sa = [pc |-> "version", file |-> f, upgrade |-> upgrade, force |-> force, block |-> 1, try |-> SaTries, gaveUp |-> FALSE]
  /\ \E v \in SaDevices : saDev = [version |-> v, mode |-> "run", image |-> <<>>, expects |-> 1]
  /\ saNoise = 0

\* readResult of an answer: it panics when the first piece is a single byte; an error of the
\* port or another answer than the expected one ends main.
AnswerRead(pc) == \E next \in {pc, "panic", "failed"} : sa' = [sa EXCEPT !.pc = next]

\* main up to the reset: ReadFirmware, ParseVersion, the comparison and the -upgrade flag; a
\* broken image counts as version 0.
CompareVersions ==
  /\ sa.pc = "version"
  /\ AnswerRead(IF ~FooterFound(sa.file) /\ ~sa.force THEN "refused"
                ELSE IF SaVersion(saDev.version) >= (IF FooterFound(sa.file) THEN SaVersion(sa.file.version) ELSE 0) /\ ~sa.force
                     THEN "refused"
                ELSE IF sa.upgrade THEN "reset" ELSE "refused")
  /\ UNCHANGED <<saDev, saNoise>>
Reset ==
  /\ sa.pc = "reset" /\ AnswerRead("upgrade")
  /\ UNCHANGED <<saDev, saNoise>>
Upgrade ==
  /\ sa.pc = "upgrade" /\ AnswerRead("xmodem")
  /\ saDev' = [saDev EXCEPT !.mode = "bsl"]
  /\ UNCHANGED saNoise
XModemInit ==
  /\ sa.pc = "xmodem" /\ saDev.mode = "bsl"
  /\ \E waits \in BOOLEAN : sa' = [sa EXCEPT !.pc = IF waits THEN "block" ELSE "failed"]
  /\ saDev' = [saDev EXCEPT !.mode = "receive", !.image = <<>>, !.expects = 1]
  /\ UNCHANGED saNoise

\* The device's side (external): a block is taken if its number is the expected one and its CRC
\* fits; the block before it is acknowledged again; anything else is refused.
Damaged(data) == {[data EXCEPT ![i] = (@ + d) % 256] : i \in DOMAIN data, d \in {1, 128}}
Receive(number, data, crc) ==
  IF CRC16(data) # crc THEN <<saDev, FALSE>>
  ELSE IF number = saDev.expects % SaBlockMod
       THEN <<[saDev EXCEPT !.image = Append(@, data), !.expects = @ + 1], TRUE>>
  ELSE <<saDev, number = (saDev.expects - 1) % SaBlockMod>>

\* Mutant of AfterAnswer: any answer will do.
AfterAnswerAny(heard) == [sa EXCEPT !.block = @ + 1, !.try = SaTries]

\* An acknowledged block is done; any other answer costs one attempt, and after the last of
\* them main goes on with the next block.
AfterAnswer(heard) ==
  IF heard THEN [sa EXCEPT !.block = @ + 1, !.try = SaTries]
  ELSE IF sa.try > 1 THEN [sa EXCEPT !.try = @ - 1]
  ELSE [sa EXCEPT !.block = @ + 1, !.try = SaTries, !.gaveUp = TRUE]

\* One attempt of SendBlock1K, and the step of main's loop to the next block when it ends:
\* a block that was refused every time, or could not be written to the port, is reported and
\* left out.
SendBlock1K ==
  /\ sa.pc = "block" /\ sa.block <= Len(sa.file.blocks)
  /\ \/ /\ saNoise < SaMaxNoise /\ saNoise' = saNoise + 1
        /\ sa' = [sa EXCEPT !.block = @ + 1, !.try = SaTries, !.gaveUp = TRUE]
        /\ UNCHANGED saDev
     \/ LET data == Padded(sa.file.blocks[sa.block])
            crc == CRC16(data)
        IN \E seen \in {data} \cup (IF saNoise < SaMaxNoise THEN Damaged(data) ELSE {}) :
           \E r \in {Receive(sa.block % SaBlockMod, seen, crc)} :
           \E heard \in {r[2]} \cup (IF saNoise < SaMaxNoise THEN {FALSE} ELSE {}) :
             /\ saDev' = r[1]
             /\ saNoise' = saNoise + (IF seen = data THEN 0 ELSE 1) + (IF heard = r[2] THEN 0 ELSE 1)
             /\ sa' = AfterAnswer(heard)
\* SendEOT, and XModemDone: the device (external) says whether it could use the image.
SendEOT ==
  /\ sa.pc = "block" /\ sa.block > Len(sa.file.blocks)
  /\ \E nak \in BOOLEAN : sa' = [sa EXCEPT !.pc = IF nak THEN "failed" ELSE "done"]
  /\ saDev' = [saDev EXCEPT !.mode = "check"]
  /\ UNCHANGED saNoise
XModemDone ==
  /\ sa.pc = "done"
  /\ \E complete \in BOOLEAN :
       /\ complete => saDev.image # <<>>
       /\ AnswerRead(IF complete THEN "reload" ELSE "failed")
       /\ saDev' = [saDev EXCEPT !.mode = "run", !.version = IF complete THEN sa.file.version ELSE @]
  /\ UNCHANGED saNoise
\* Reset, WaitBoot and ReadFirmware of the new image.
WaitBoot ==
  /\ sa.pc = "reload" /\ AnswerRead("upgraded")
  /\ UNCHANGED <<saDev, saNoise>>

SaNext == CompareVersions \/ Reset \/ Upgrade \/ XModemInit \/ SendBlock1K \/ SendEOT \/ XModemDone \/ WaitBoot

------------------------------------------------------------------------------
\* Until main gives up on a block, the device holds a prefix of the file, padded, with no block
\* twice and none missing, whatever the line does to blocks and answers.
SaPrefix ==
  (sa.pc \in {"block", "done", "reload", "upgraded"} /\ ~sa.gaveUp) =>
    /\ Len(saDev.image) <= Len(sa.file.blocks)
    /\ \A i \in DOMAIN saDev.image : saDev.image[i] = Padded(sa.file.blocks[i])
    /\ sa.pc # "block" => Len(saDev.image) = Len(sa.file.blocks)

\* Only an older device is upgraded, in the order of major, minor and patch, unless forced to.
Older(v, w) == v[1] < w[1] \/ (v[1] = w[1] /\ (v[2] < w[2] \/ (v[2] = w[2] /\ v[3] < w[3])))
SaUpgradesOlder ==
  (sa.pc \notin {"off", "version", "refused", "panic"} /\ ~sa.force /\ saDev.mode # "run")
     => FooterFound(sa.file) /\ Older(saDev.version, sa.file.version)

\* The device gets the image of the file, whole and in order, whatever the line does, and only a
\* device that is older.
SaImageRight == SaPrefix /\ SaUpgradesOlder
==============================================================================
