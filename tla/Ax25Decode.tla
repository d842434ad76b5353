----------------------------- MODULE Ax25Decode -----------------------------
(***************************************************************************)
(* The AX.25 header decoder of the packet spy (ax25dump.c ax25_decode,     *)
(* mem2ax25call, ftype), against the encoding it has to undo.              *)
(*                                                                         *)
(* The frame is given as its address cells (a callsign, and the SSID byte  *)
(* with its flags), the control field's bytes, and the rest.  A cell is    *)
(* seven bytes and none is cut; a frame has at most eight digipeaters; the *)
(* first cell may be the first bytes of a FlexNet header.                  *)
(*                                                                         *)
(* X_Faulty is a plausible wrong version of X that the specification does  *)
(* not use.                                                                *)
(***************************************************************************)
EXTENDS Integers, Sequences, FiniteSetsExt

CONSTANTS
    Calls,          \* callsigns
    AxFrames        \* the frames that are sent, as Encoded describes them

VARIABLES
    frame,          \* what was sent
    packet          \* the decoder's t_ax25packet

axVars == <<frame, packet>>

\* Bit b of a byte.
Has(byte, b) == (byte \div b) % 2 = 1

HDLCAEB == 1
SSSID_SPARE == 64
ESSID_SPARE == 32
Bit8 == 128

Address == [call : Calls, ssid : 0..15]
Octets == 0..255
AxFrame ==
    [flexnet : BOOLEAN, cut : BOOLEAN,
     tocall : Address, fmcall : Address, digis : Seq(Address), repeated : Nat,
     cmdrsp : {"command", "response", "unknown"}, extseq : BOOLEAN, dama : BOOLEAN,
     ctl : [type : {"I", "S", "U"}, ns : 0..127, nr : 0..127, code : Octets],
     pf : BOOLEAN, rest : Seq(Octets)]

\* Digipeaters repeat in turn; numbers are counted modulo 8 or 128; the code of
\* a frame without numbers has its two low bits set and room for the poll bit.
ASSUME AxAssumption ==
    \A f \in AxFrames :
        /\ f \in AxFrame
        /\ f.repeated <= Len(f.digis)
        /\ ~f.extseq => f.ctl.ns < 8 /\ f.ctl.nr < 8
        /\ f.ctl.type = "S" => f.ctl.code \in {1, 5, 9, 13}
        /\ f.ctl.type = "U" => f.ctl.code % 4 = 3 /\ ~Has(f.ctl.code, 16)

-----------------------------------------------------------------------------
(* The encoding, from the protocol: what other stations send.              *)

Ssid(call, flag, ext, dama, last) ==
    [call |-> call.call,
     ssid |-> 2 * call.ssid + (IF flag THEN Bit8 ELSE 0) + (IF ext THEN 0 ELSE SSSID_SPARE)
                + (IF dama THEN 0 ELSE ESSID_SPARE) + (IF last THEN HDLCAEB ELSE 0)]

Cells(f) ==
    LET n == Len(f.digis)
    IN  <<Ssid(f.tocall, f.cmdrsp = "command", FALSE, FALSE, FALSE),
          Ssid(f.fmcall, f.cmdrsp = "response", f.extseq, f.dama, n = 0)>>
          \o [i \in 1..n |-> Ssid(f.digis[i], i <= f.repeated, FALSE, FALSE, i = n)]

\* Modulo 8 the numbers share the control byte, modulo 128 they take another.
Control(f) ==
    LET pf == IF f.pf THEN 1 ELSE 0
        c == f.ctl
    IN  CASE c.type = "I" /\ ~f.extseq -> <<32 * c.nr + 16 * pf + 2 * c.ns>>
          [] c.type = "I" /\ f.extseq  -> <<2 * c.ns, 2 * c.nr + pf>>
          [] c.type = "S" /\ ~f.extseq -> <<32 * c.nr + 16 * pf + c.code>>
          [] c.type = "S" /\ f.extseq  -> <<c.code, 2 * c.nr + pf>>
          [] OTHER -> <<c.code + 16 * pf>>

Encoded(f) == [flexnet |-> f.flexnet, cells |-> Cells(f),
               bytes |-> IF f.cut THEN <<>> ELSE Control(f) \o f.rest]

-----------------------------------------------------------------------------
(* The decoder.                                                            *)

I == 0
UI == 3

\* mem2ax25call
Mem2ax25call_Faulty(cell) == [call |-> cell.call, ssid |-> cell.ssid % 16]

Mem2ax25call(cell) == [call |-> cell.call, ssid |-> (cell.ssid \div 2) % 16]

\* ftype: how long the control field is and what it says.  The poll bit of a
\* byte is its fifth, of a second byte its first.
Ftype(b, extseq) ==
    LET c == b[1]
        S(n, nr, pf, len) == [type |-> n, ns |-> -1, nr |-> nr, pf |-> pf, len |-> len]
    IN  CASE c % 2 = 0 /\ extseq ->
               [type |-> I, ns |-> (c \div 2) % 128, nr |-> (b[2] \div 2) % 128,
                pf |-> Has(b[2], 1), len |-> 2]
          [] c % 2 = 0 /\ ~extseq ->
               [type |-> I, ns |-> (c \div 2) % 8, nr |-> (c \div 32) % 8,
                pf |-> Has(c, 16), len |-> 1]
          [] c % 2 = 1 /\ Has(c, 2) -> S(c - (IF Has(c, 16) THEN 16 ELSE 0), -1, Has(c, 16), 1)
          [] c % 2 = 1 /\ ~Has(c, 2) /\ extseq -> S(c, (b[2] \div 2) % 128, Has(b[2], 1), 2)
          [] OTHER -> S(c % 16, (c \div 32) % 8, Has(c, 16), 1)

\* What t_ax25packet holds of a frame whose header is refused, or empty: it was
\* cleared, and only the pid set.
Cleared == [valid |-> FALSE, pid |-> -1, datalength |-> 0]

\* The address field ends at the first cell with the extension bit.
Digis(cells) ==
    LET ends == {i \in 2..Len(cells) : Has(cells[i].ssid, HDLCAEB)}
    IN  SubSeq(cells, 3, IF ends = {} THEN Len(cells) ELSE Min(ends))

Header(cells) ==
    LET to == cells[1].ssid
        fm == cells[2].ssid
        digis == Digis(cells)
        repeated == {i \in DOMAIN digis : Has(digis[i].ssid, Bit8)}
    IN  [fExtseq |-> ~Has(fm, SSSID_SPARE), fDama |-> ~Has(fm, ESSID_SPARE),
         tocall |-> Mem2ax25call(cells[1]), fmcall |-> Mem2ax25call(cells[2]),
         cmdrsp |-> CASE Has(to, Bit8) /\ ~Has(fm, Bit8) -> "command"
                      [] Has(fm, Bit8) /\ ~Has(to, Bit8) -> "response"
                      [] OTHER -> "unknown",
         digi |-> [i \in DOMAIN digis |-> Mem2ax25call(digis[i])],
         ndigirepeated |-> IF repeated = {} THEN -1 ELSE Max(repeated) - 1]

\* ax25_decode.  Only I and UI frames have a pid.
Decoded(e) ==
    IF e.flexnet \/ 7 * Len(e.cells) + Len(e.bytes) < 15
      THEN Cleared
      ELSE LET h == Header(e.cells)
               ct == Ftype(e.bytes, h.fExtseq)
               left == Len(e.bytes) - ct.len
               withPid == ct.type \in {I, UI} /\ left > 0
           IN  IF e.bytes = <<>>
                 THEN [valid |-> TRUE, pid |-> -1, datalength |-> 0, header |-> h]
                 ELSE [valid |-> TRUE, header |-> h, control |-> ct,
                       pid |-> IF withPid THEN e.bytes[ct.len + 1] ELSE -1,
                       datalength |-> IF withPid THEN left - 1 ELSE left]

-----------------------------------------------------------------------------
AxInit == frame = <<>> /\ packet = Cleared

\* handle_ax25_pkt clears the packet and decodes a frame into it.
DecodeNext(f) ==
    /\ frame' = f
    /\ packet' = Decoded(Encoded(f))

\* Nothing is kept between frames, so one is looked at.
AxNext == frame = <<>> /\ \E f \in AxFrames : DecodeNext(f)

AxSpec == AxInit /\ [][AxNext]_axVars

-----------------------------------------------------------------------------
(* Properties.                                                             *)

AxTypeOK == packet.valid \in BOOLEAN /\ packet.pid \in -1..255 /\ packet.datalength \in Nat

\* The decoder undoes the encoding: whom a frame is from, for and via, who
\* repeated it last, command or response, what it is, its numbers modulo 8 or
\* 128, its poll bit, pid and length (ax25dump.c:167-319, 582-625).
DecodeInverts ==
    frame # <<>> /\ ~frame.flexnet /\ ~frame.cut =>
        LET c == frame.ctl
            h == packet.header
            ct == packet.control
            numbered == c.type = "I"
            withPid == c.type = "I" \/ (c.type = "U" /\ c.code = UI)
        IN  /\ packet.valid
            /\ h.tocall = frame.tocall /\ h.fmcall = frame.fmcall
            /\ h.digi = frame.digis /\ h.ndigirepeated = frame.repeated - 1
            /\ h.cmdrsp = frame.cmdrsp
            /\ h.fExtseq = frame.extseq /\ h.fDama = frame.dama
            /\ ct.type = (IF numbered THEN I ELSE c.code)
            /\ ct.ns = (IF numbered THEN c.ns ELSE -1)
            /\ ct.nr = (IF c.type = "U" THEN -1 ELSE c.nr)
            /\ ct.pf = frame.pf
            /\ packet.pid = (IF withPid /\ frame.rest # <<>> THEN Head(frame.rest) ELSE -1)
            /\ packet.datalength = Len(frame.rest) - (IF packet.pid = -1 THEN 0 ELSE 1)
=============================================================================
