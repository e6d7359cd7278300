------------------------------- MODULE MCSmear -------------------------------
(* Small instances of Smear: a second has 52 nanoseconds, and with 25 seconds of smearing in steps of
   26 the smearing covers 25/26 of a leap second, as 62500 s in steps of 65 us do. *)
EXTENDS Smear

\* A third leap second is announced: one is added, or removed.
Announced(n, tleap) ==
  LET old == <<[Tleap |-> 3, Nleap |-> 1], [Tleap |-> 7, Nleap |-> 2]>>
  IN [old |-> old, new |-> Append(old, [Tleap |-> tleap, Nleap |-> n]), from |-> 36, until |-> 67]
SampleWorlds == {Announced(3, 36), Announced(1, 36)}

\* The last seconds of a smearing.
EndingWorlds == {[Announced(3, 36) EXCEPT !.old = Announced(3, 36).new, !.from = 62, !.until = 64]}

\* A client asks at every nanosecond: what it sees over a longer time is the sum of these.
AskingNext == SmrNext /\ smr'.tai <= smrUtc'.tai + 1
==============================================================================
