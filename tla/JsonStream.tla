----------------------------- MODULE JsonStream -----------------------------
(***************************************************************************)
(* JSON objects on a stream socket, as both web servers see them.          *)
(*                                                                         *)
(* The daemons write one object after the other with nothing between       *)
(* (uiclient.c ui_send, aprs-ax25.c send_ui_sock); a read of the server    *)
(* returns any part of what was written.  An object is two pieces, so that *)
(* a read may end inside it.  The servers look for "}{" to find where one  *)
(* object ends and the next begins; an object in Braced has these two      *)
(* characters in a text of its own, between its pieces.                    *)
(***************************************************************************)
EXTENDS Integers, Sequences, SequencesExt

CONSTANT Braced      \* the objects, by number, whose text holds "}{"

Piece == [obj : Nat, half : {1, 2}]

Pieces(o) == << [obj |-> o, half |-> 1], [obj |-> o, half |-> 2] >>

EndsBrace(p) == p.half = 2 \/ p.obj \in Braced
BeginsBrace(p) == p.half = 1 \/ p.obj \in Braced

\* Where search("}{") finds something in a buffer: after these pieces.
Joints(buf) ==
    {k \in 1..(Len(buf) - 1) : EndsBrace(buf[k]) /\ BeginsBrace(buf[k + 1])}

\* Where the part that begins behind piece k ends: at the first joint after it,
\* or with the buffer.
PartEnd(buf, k) ==
    IF k = Len(buf) THEN k ELSE Min({j \in Joints(buf) \cup {Len(buf)} : j > k})

\* Where the parts end, one after the other.
Cuts(buf) ==
    LET cut[i \in 0..Len(buf)] == IF i = 0 THEN 0 ELSE PartEnd(buf, cut[i - 1])
    IN  cut

\* The buffer cut at every joint, as both servers' loops do with slice.
Segments(buf) ==
    LET cut == Cuts(buf)
        n == Min({i \in DOMAIN cut : cut[i] = Len(buf)})
    IN  [i \in 1..n |-> SubSeq(buf, cut[i - 1] + 1, cut[i])]

\* What JSON.parse accepts.
IsObject(buf) == Len(buf) = 2 /\ buf = Pieces(buf[1].obj)
=============================================================================
