------------------------------ MODULE MCDaemons ------------------------------
(* The programs made of goroutines or processes, one of them at a time: the main
   loop of the SPTP client, the NTP responder, c4u beside ptp4u, and ziffy. *)
EXTENDS MCSptpTick, NtpResponder, C4u, Ziffy

CONSTANTS i1, w1

VARIABLE program     \* the one that runs

\* A request that is answered, one of a wrong format, one that is too short to read.
SampleRequests ==
  { [id |-> 1, settings |-> 27, short |-> FALSE], [id |-> 2, settings |-> 0, short |-> FALSE],
    [id |-> 3, settings |-> 27, short |-> TRUE] }
SampleStatuses == {[Class |-> 7, Offset |-> 1], [Class |-> 0, Offset |-> 9]}
\* Two routes that share their first switch.
SampleTopologies == {<<<<"a", "b", "dst">>, <<"a", "c", "dst">>>>}
SampleResidence == [a |-> 0, b |-> 7, c |-> 4, dst |-> 0]

DaemonsInit ==
  /\ program \in {"sptp", "ntpresponder", "c4u", "ziffy"}
  /\ Init
  /\ IF program = "ntpresponder" THEN NrInit ELSE NrOff
  /\ IF program = "c4u" THEN C4uInit ELSE C4uOff
  /\ IF program = "ziffy" THEN ZifInit ELSE ZifOff
  /\ NtsOff /\ TypOff

pure == <<program, nts, typ>>
DaemonsNext ==
  /\ UNCHANGED pure
  /\ \/ program = "sptp" /\ Next /\ UNCHANGED <<nrVars, c4uVars, zVars>>
     \/ program = "ntpresponder" /\ NrNext /\ UNCHANGED <<vars, c4uVars, zVars>>
     \/ program = "c4u" /\ C4uNext /\ UNCHANGED <<vars, nrVars, zVars>>
     \/ program = "ziffy" /\ ZifNext /\ UNCHANGED <<vars, nrVars, c4uVars>>

\* The SPTP client ticks for ever. In the state another program that does not run is in, none
\* of its fair steps is enabled.
DaemonsSpec ==
  /\ DaemonsInit /\ [][DaemonsNext]_<<pure, vars, nrVars, c4uVars, zVars>>
  /\ WF_vars(program = "sptp" /\ Next) /\ NrFairness /\ ZifFairness
==============================================================================
