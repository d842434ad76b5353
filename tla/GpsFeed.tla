------------------------------- MODULE GpsFeed -------------------------------
(***************************************************************************)
(* What becomes of the sentences of a GPS (aprs.c handle_gps_data, nmea.c):*)
(* reads that end anywhere, the buffer for what is left over, and the ring *)
(* of positions that the sentences fill.                                   *)
(*                                                                         *)
(* Characters are counted in units, of which a sentence has a few; the     *)
(* last unit on the wire is its end.  A serial port is read a little at a  *)
(* time and hands out any part of the stream; gpsd's socket is read with   *)
(* room for many sentences and hands out whole ones, for gpsd writes them  *)
(* whole.  The line feed after a carriage return is skipped by the parser  *)
(* and is not a unit.  The clock, which the handler goes on to set, is in  *)
(* Beacon.                                                                 *)
(*                                                                         *)
(* X_Faulty is a plausible wrong version of X that the specification does  *)
(* not use.                                                                *)
(***************************************************************************)
EXTENDS Integers, Sequences, FiniteSetsExt

CONSTANTS
    KeepPosits,     \* KEEP_POSITS
    ReadMax,        \* units a read of the serial port returns at most: 32 bytes
    BufMax,         \* units in gps_buffer
    Sentences,      \* what a GPS sends: [kind, len, good]
    MaxSentences    \* bound: sentences sent

Kinds == {"GGA", "RMC", "void RMC", "other"}

ASSUME GpsAssumption ==
    /\ KeepPosits \in Nat \ {0} /\ BufMax \in Nat /\ ReadMax \in 1..BufMax
    /\ Sentences \subseteq [kind : Kinds, len : Nat, good : BOOLEAN]
    /\ MaxSentences \in Nat

VARIABLES
    gps_type,       \* "serial" or "gpsd"
    wire,           \* units sent and not yet read
    gps_idx,        \* units in gps_buffer
    mypos,          \* the positions; a sentence's number stands for its fields
    mypos_idx,      \* the current one
    \* only read by properties
    sent,           \* the sentences by number
    log             \* the numbers of those that were understood

gpsVars == <<gps_type, wire, gps_idx, mypos, mypos_idx, sent, log>>

Posit == [fix : 0..MaxSentences, motion : 0..MaxSentences]
Unit == [n : 1..MaxSentences, k : Nat]
End == 0
Units(n, s) == [k \in 1..(s.len + 1) |-> [n |-> n, k |-> IF k > s.len THEN End ELSE k]]

GpsTypeOK ==
    /\ gps_type \in {"serial", "gpsd"}
    /\ wire \in Seq(Unit)
    /\ gps_idx \in 0..BufMax
    /\ mypos \in [0..(KeepPosits - 1) -> Posit]
    /\ mypos_idx \in 0..(KeepPosits - 1)
    /\ sent \in Seq([kind : Kinds, len : Nat, good : BOOLEAN])
    /\ log \in Seq(1..MaxSentences)

GpsInit ==
    /\ gps_type \in {"serial", "gpsd"}
    /\ wire = <<>> /\ gps_idx = 0
    /\ mypos = [i \in 0..(KeepPosits - 1) |-> [fix |-> 0, motion |-> 0]]
    /\ mypos_idx = 0
    /\ sent = <<>> /\ log = <<>>

-----------------------------------------------------------------------------
\* The GPS sends a sentence; on a serial line it may arrive damaged.
Send(s) ==
    /\ Len(sent) < MaxSentences
    /\ gps_type = "gpsd" => s.good
    /\ sent' = Append(sent, s)
    /\ wire' = wire \o Units(Len(sent) + 1, s)
    /\ UNCHANGED <<gps_type, gps_idx, mypos, mypos_idx, log>>

\* parse_gps_nmea_string, parse_gpsd_nmea_string: what is parsed begins where
\* the last read was put, which has to be the '$'; only on the serial line is
\* the checksum looked at.
Understood(line) ==
    /\ line # <<>> /\ line[1].k = 1
    /\ sent[line[1].n].kind # "other"
    /\ gps_type = "serial" => sent[line[1].n].good

\* An RMC takes the next position before it is parsed.
Advances_Faulty(kind) == kind = "RMC"

Advances(kind) == kind \in {"RMC", "void RMC"}

\* parse_gga fills place, time and quality; parse_rmc speed, course and date,
\* nothing if the GPS calls it void.
Filled(pos, n) ==
    CASE sent[n].kind = "GGA" -> [pos EXCEPT !.fix = n]
      [] sent[n].kind = "RMC" -> [pos EXCEPT !.motion = n]
      [] OTHER -> pos

Parse(line) ==
    IF ~Understood(line)
      THEN UNCHANGED <<mypos, mypos_idx, log>>
      ELSE LET n == line[1].n
               i == IF Advances(sent[n].kind) THEN (mypos_idx + 1) % KeepPosits
                                              ELSE mypos_idx
           IN  /\ mypos_idx' = i
               /\ mypos' = [mypos EXCEPT ![i] = Filled(@, n)]
               /\ log' = Append(log, n)

\* Where the next read is put: at the front if it might not fit.
Room_Faulty(n) == gps_idx

Room(n) == IF gps_idx + n > BufMax THEN 0 ELSE gps_idx

\* The serial port.  With an end in what was read the line up to it is parsed
\* and the rest moved to the front; otherwise what was read is kept.
ReadSerial ==
    /\ gps_type = "serial"
    /\ \E n \in 1..Min({ReadMax, Len(wire)}) :
         LET ends == {i \in 1..n : wire[i].k = End}
         IN  /\ wire' = SubSeq(wire, n + 1, Len(wire))
             /\ IF ends # {}
                  THEN /\ Parse(SubSeq(wire, 1, Min(ends) - 1))
                       /\ gps_idx' = n - Min(ends)
                  ELSE /\ gps_idx' = Room(n) + n
                       /\ UNCHANGED <<mypos, mypos_idx, log>>
    /\ UNCHANGED <<gps_type, sent>>

\* gpsd.  Of the sentences read the first is parsed and the others moved to
\* the front, with whatever the array held beyond what was received.
ReadGpsd ==
    /\ gps_type = "gpsd"
    /\ \E n \in {i \in DOMAIN wire : wire[i].k = End} :
         LET first == Min({i \in 1..n : wire[i].k = End})
         IN  /\ wire' = SubSeq(wire, n + 1, Len(wire))
             /\ Parse(SubSeq(wire, 1, first - 1))
             /\ gps_idx' \in (n - first)..BufMax
    /\ UNCHANGED <<gps_type, sent>>

GpsNext == (\E s \in Sentences : Send(s)) \/ ReadSerial \/ ReadGpsd

GpsSpec == GpsInit /\ [][GpsNext]_gpsVars

-----------------------------------------------------------------------------
(* Properties.                                                             *)

\* A turn lasts from one RMC to the next.
TurnAt(i) == Cardinality({j \in 1..i : sent[log[j]].kind \in {"RMC", "void RMC"}})
LatestOf(kind) ==
    LET same == {i \in DOMAIN log : sent[log[i]].kind = kind
                                      /\ (TurnAt(Len(log)) - TurnAt(i)) % KeepPosits = 0}
    IN  IF same = {} THEN 0 ELSE log[Max(same)]

\* The current position is made of the sentences of this turn; where this turn
\* brought none yet, of those KEEP_POSITS turns, or a multiple of it, ago:
\* after each RMC place and speed belong to different times (aprs.c:1243).
PositionOfItsTurn ==
    mypos[mypos_idx] = [fix |-> LatestOf("GGA"), motion |-> LatestOf("RMC")]

\* "serial - for gps usb/serial devices using NMEA-0183 standard"
\* (notes.txt:25): a position sentence that arrived undamaged is understood.
SerialUnderstood ==
    \A n \in DOMAIN sent :
        gps_type = "serial" /\ sent[n].good /\ sent[n].kind # "other"
          /\ (\A i \in DOMAIN wire : wire[i].n # n)
        => \E i \in DOMAIN log : log[i] = n
=============================================================================
