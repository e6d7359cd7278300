--------------------------- MODULE FbclockRegister ---------------------------
(***************************************************************************)
(* What the shared memory of fbclock promises its readers: it is a         *)
(* register. A reader gets what the register holds at one moment of its    *)
(* call, or data that nobody vouches for, until it returns.                *)
(***************************************************************************)
CONSTANTS Readers, Values,
          Nothing, Unchecked   \* no value yet; data that was not checked

VARIABLES reg, loaded

vars == <<reg, loaded>>

Init == reg = Nothing /\ loaded = [r \in Readers |-> Nothing]

Publish == reg' \in Values /\ UNCHANGED loaded

Return(r) == loaded' = [loaded EXCEPT ![r] = Nothing] /\ UNCHANGED reg

Load(r) ==
    /\ loaded[r] = Nothing /\ reg # Nothing
    /\ loaded' = [loaded EXCEPT ![r] = reg]
    /\ UNCHANGED reg

GiveUp(r) ==
    /\ loaded[r] = Nothing
    /\ loaded' = [loaded EXCEPT ![r] = Unchecked]
    /\ UNCHANGED reg

Next == Publish \/ \E r \in Readers : Load(r) \/ GiveUp(r) \/ Return(r)

Spec == Init /\ [][Next]_vars
=============================================================================
