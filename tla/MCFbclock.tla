------------------------------ MODULE MCFbclock ------------------------------
(* A small instance of Fbclock. *)
EXTENDS Fbclock

CONSTANT r1

\* W is 0, both fit, the multiplier does not.
SomeWindows == {[bound |-> "zero", multiplier |-> "some"], [bound |-> "some", multiplier |-> "some"],
                [bound |-> "some", multiplier |-> "max"]}
=============================================================================
