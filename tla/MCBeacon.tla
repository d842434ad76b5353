------------------------------ MODULE MCBeacon -------------------------------
(* Instances of Beacon for TLC.  send_beacon succeeds, fails, or, on a KISS  *)
(* link whose conversion fails, returns true with nothing sent.              *)
EXTENDS Beacon

Sent    == [ret |-> TRUE,  air |-> TRUE]
Failed  == [ret |-> FALSE, air |-> FALSE]
Dropped == [ret |-> TRUE,  air |-> FALSE]

AnyOutcome  == {Sent, Failed, Dropped}
AlwaysSent  == {Sent}
ClockSteps  == {-3, 3}
NoSteps     == {}
=============================================================================
