--------------------------------- MODULE Wire ---------------------------------
(* Byte strings for the codecs of ptp/protocol, ntp/chrony, ntp/control and
   ntp/protocol.  A field is the sequence of its bytes; only the fields that steer
   a decoder are read as numbers.  A message layout is a table of fields. *)
EXTENDS Integers, Sequences, SequencesExt, FiniteSetsExt

(* Results, and big endian integers of two bytes. *)

Decoded(v) == [result |-> "ok", value |-> v]
Refused    == [result |-> "error"]
Panicked   == [result |-> "panic"]

U16(b)     == b[1] * 256 + b[2]
Put16(n)   == <<n \div 256, n % 256>>

(* Tables of fields: a name, the offset of its first byte and its size. *)
At(name, off, size) == [name |-> name, off |-> off, size |-> size]
Ends(t)    == {f.off + f.size : f \in ToSet(t)}
SizeOf(t)  == Max(Ends(t))
Shift(t, n) == [i \in DOMAIN t |-> [t[i] EXCEPT !.off = @ + n]]

\* The bytes that the assignments of table t leave in a zeroed buffer.
Store(t, p) ==
  [i \in 1..SizeOf(t) |->
     LET owners == {f \in ToSet(t) : f.off < i /\ i <= f.off + f.size}
     IN IF owners = {} THEN 0 ELSE LET f == CHOOSE f \in owners : TRUE IN p[f.name][i - f.off]]

\* The fields that the reads of table t find in b.
Load(t, b) ==
  [n \in {f.name : f \in ToSet(t)} |->
     LET f == CHOOSE f \in ToSet(t) : f.name = n IN SubSeq(b, f.off + 1, f.off + f.size)]

Fits(t, b) == SizeOf(t) <= Len(b)
From(b, n) == SubSeq(b, n + 1, Len(b))

\* encoding/binary on a struct: its fields one after the other, no padding; a
\* short reader is an error.
Packed(ws) ==
  [i \in DOMAIN ws |->
     At(ws[i][1], MapThenSumSet(LAMBDA j : ws[j][2], 1..(i - 1)), ws[i][2])]
StructSize(ws) == MapThenSumSet(LAMBDA j : ws[j][2], DOMAIN ws)

\* hostendian.Order on a little endian machine: the bytes of each word reversed.
HostOrder(b, word) ==
  [i \in DOMAIN b |-> b[((i - 1) \div word) * word + word - ((i - 1) % word)]]

\* A record with the fields of both.
Both(r, s) == [n \in DOMAIN r \cup DOMAIN s |-> IF n \in DOMAIN s THEN s[n] ELSE r[n]]

\* Arbitrary, recognisable contents for the fields of a table.
Filled(t, salt) ==
  [n \in {f.name : f \in ToSet(t)} |->
     LET f == CHOOSE f \in ToSet(t) : f.name = n
     IN [i \in 1..f.size |-> (salt + 7 * (f.off + i)) % 256]]
==============================================================================
