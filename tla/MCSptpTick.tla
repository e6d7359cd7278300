----------------------------- MODULE MCSptpTick -----------------------------
(* Small instances of SptpTick. *)
EXTENDS SptpTick

CONSTANTS s1, s2, s3

\* README.md of sptp numbers the servers 1, 2, ...; identities in another order.
Prio1 == [s \in {s1} |-> 1]
Prio2 == [s \in {s1, s2} |-> IF s = s1 THEN 1 ELSE 2]
Prio3 == [s \in {s1, s2, s3} |-> CASE s = s1 -> 1 [] s = s2 -> 2 [] OTHER -> 3]
Identity1 == [s \in {s1} |-> 7]
Identity3 == [s \in {s1, s2, s3} |-> CASE s = s1 -> 9 [] s = s2 -> 7 [] OTHER -> 8]
SharedIdentity == [s \in {s1, s2} |-> 7]

Answer(class, accuracy, cf) == [class |-> class, accuracy |-> accuracy, cf |-> cf]
\* Better class or better accuracy, both worse, beyond the limits, and unusable.
Qualities == {Answer(6, 35, FALSE), Answer(7, 33, FALSE), Answer(7, 35, FALSE),
              Answer(52, 33, FALSE), Answer(6, 33, TRUE)}
GoodOrUnusable == {Answer(6, 33, FALSE), Answer(6, 33, TRUE)}
Good == {Answer(6, 33, FALSE)}

AllSamples == [big : BOOLEAN, spike : BOOLEAN, late : BOOLEAN, soon : BOOLEAN]
SmallOffset == {[big |-> FALSE, spike |-> FALSE, late |-> FALSE, soon |-> FALSE]}
=============================================================================
