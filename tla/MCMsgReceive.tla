--------------------------- MODULE MCMsgReceive ----------------------------
(* Instances of MsgReceive for TLC: a far station, this one, and one with  *)
(* the same callsign and another suffix.  The text colon has ":ack" in it. *)
EXTENDS MsgReceive

CONSTANTS far, near, hi, bye, colon

Msg(s, d, t, r) == [src |-> s, dst |-> d, text |-> t, req |-> r]

\* Twice as many as the history of the instance holds.
Heard ==
  {Msg(far, Me, hi, "id"), Msg(far, Me, bye, "brace"),
   Msg(far, near, colon, "id"), Msg(near, Me, hi, "no")}
=============================================================================
