------------------------------ MODULE InfoPanel ------------------------------
(***************************************************************************)
(* The station panel and the weather panel (aprs.c display_packet and what *)
(* it calls, update_packets_ui, handle_display_showinfo).                  *)
(*                                                                         *)
(* The daemon does not draw a panel, it sends the value of one field at a  *)
(* time; a field nothing is sent for keeps what it showed.  Which fields a *)
(* packet sends depends on its kind and on whether its station is the one  *)
(* shown before.  For each field the model keeps the station it tells of;  *)
(* of the fields it has four, one for each way they are sent, and not the  *)
(* icon, which is sent when there is one and never cleared.                *)
(* The weather panel shows the weather packet that was retained, copied    *)
(* and stamped when it was displayed.                                      *)
(*                                                                         *)
(* The list of stations is PacketStore's: here `kept' has the packet kept  *)
(* of each station.  A station is an object, an item or a callsign, as     *)
(* OBJNAME names it, and the own one stands still.  Allocations do not     *)
(* fail here.                                                              *)
(*                                                                         *)
(* X_Faulty is a plausible wrong version of X that the specification does  *)
(* not use.                                                                *)
(***************************************************************************)
EXTENDS Integers, Sequences

CONSTANTS
    Stations,       \* names heard
    MyCall,         \* the own one among them
    Heard,          \* what may be heard: [name, kind, comment, speed, dist]
    Blank,          \* an empty field
    None,           \* no packet
    OwnDist,        \* distance of the own packets that have a position
    Far,            \* 9999999.0, the distance of a packet without position
    WxAge,          \* 1800 seconds
    LastSecond      \* bound: the clock

\* "lame PHG" cannot be scanned.  A packet that has no position has dist 0;
\* raw is what dist was before it was merged.
Reports == {"weather", "telemetry", "PHG", "lame PHG", "message", "third party", "position"}
Speeds == {"none", "zero", "some"}
Packet == [name : Stations, kind : Reports, comment : BOOLEAN, speed : Speeds,
           dist : 0..Far, raw : 0..Far]

\* A weather packet that was displayed, as it was heard.
Wx == [name : Stations, dist : 0..Far, timestamp : Nat]

ASSUME InfoPanelAssumption ==
    /\ MyCall \in Stations /\ {Blank, None} \cap Stations = {}
    /\ None \notin Wx
    /\ Far \in Nat /\ WxAge \in Nat /\ OwnDist \in 0..Far /\ LastSecond \in Nat
    /\ Heard \subseteq [name : Stations, kind : Reports, comment : BOOLEAN,
                        speed : Speeds, dist : 0..Far]
    /\ \A h \in Heard : h.name = MyCall => h.dist \in {0, OwnDist}

VARIABLES
    clock,
    kept,           \* the packet kept of each station
    last_packet,    \* the station heard last
    disp_idx,       \* < 0, or a line was picked: TRUE
    panel,          \* the station each AI_ field tells of
    last_callsign,
    last_wx,        \* the weather packet retained: [name, dist, timestamp]
    \* only read by properties
    first,          \* kind of the packet that brought up the station shown
    othersWx        \* the weather packet of another station displayed last

panelVars == <<clock, kept, last_packet, disp_idx, panel, last_callsign, last_wx,
               first, othersWx>>

Fields == {"CALLSIGN", "DISTANCE", "COURSE", "COMMENT"}
PanelTypeOK ==
    /\ clock \in 0..LastSecond
    /\ kept \in [Stations -> Packet \cup {None}]
    /\ last_packet \in Stations \cup {None}
    /\ disp_idx \in BOOLEAN
    /\ panel \in [Fields -> Stations \cup {Blank}]
    /\ last_callsign \in Stations \cup {Blank}
    /\ {last_wx, othersWx} \subseteq Wx \cup {None}
    /\ first \in Reports \cup {None}

PanelInit ==
    /\ clock = 0
    /\ kept = [s \in Stations |-> None] /\ last_packet = None
    /\ disp_idx = FALSE
    /\ panel = [f \in Fields |-> Blank] /\ last_callsign = Blank
    /\ last_wx = None
    /\ first = None /\ othersWx = None

-----------------------------------------------------------------------------
(* Weather.                                                                *)

\* display_wx retains the packet.  Its distance is that of the packet merged
\* with what was known of the station, the retained copy is of the packet as it
\* was heard.
Distance(wx) == IF wx # None /\ wx.dist > 0 THEN wx.dist ELSE Far

Retains_Faulty(p) ==
    \/ p.name # MyCall
    \/ last_wx = None
    \/ last_wx # None /\ last_wx.name = p.name
    \/ last_wx # None /\ clock - last_wx.timestamp > WxAge
    \/ p.dist <= Distance(last_wx)

Retains(p) ==
    \/ p.name # MyCall
    \/ last_wx = None
    \/ last_wx # None /\ last_wx.name = p.name
    \/ last_wx # None /\ clock - last_wx.timestamp > WxAge
    \/ p.dist > 0 /\ p.dist <= Distance(last_wx)

DisplayWx(p) ==
    IF p.kind # "weather"
      THEN UNCHANGED <<last_wx, othersWx>>
      ELSE LET copy == [name |-> p.name, dist |-> p.raw, timestamp |-> clock]
           IN  /\ last_wx' = IF Retains(p) THEN copy ELSE last_wx
               /\ othersWx' = IF p.name # MyCall THEN copy ELSE othersWx

-----------------------------------------------------------------------------
(* The station panel.                                                      *)

\* display_telemetry, display_phg, display_wx and display_posit: what they send
\* for AI_COURSE and AI_COMMENT; a message or third-party packet sends nothing.
Course(p, isnew) ==
    CASE p.kind \in {"telemetry", "lame PHG"} -> p.name
      [] p.kind \in {"weather", "PHG"} -> IF p.comment THEN p.name ELSE Blank
      [] p.kind = "position" /\ p.speed = "some" -> p.name
      [] p.kind = "position" /\ p.speed # "some" /\ isnew -> Blank
      [] OTHER -> panel["COURSE"]

Comment_Faulty(p, isnew) ==
    CASE p.kind \in {"weather", "telemetry", "PHG"} -> p.name
      [] p.kind = "position" /\ p.comment -> p.name
      [] OTHER -> panel["COMMENT"]

Comment(p, isnew) ==
    CASE p.kind \in {"weather", "telemetry", "PHG"} -> p.name
      [] p.kind = "position" /\ p.comment -> p.name
      [] p.kind = "position" /\ ~p.comment /\ isnew -> Blank
      [] OTHER -> panel["COMMENT"]

\* display_packet
DisplayPacket(p) ==
    LET isnew == p.name # last_callsign
    IN  /\ panel' = [f \in Fields |->
                       CASE f = "COURSE" -> Course(p, isnew)
                         [] f = "COMMENT" -> Comment(p, isnew)
                         [] OTHER -> p.name]
        /\ last_callsign' = p.name
        /\ first' = IF isnew THEN p.kind ELSE first
        /\ DisplayWx(p)

NoDisplay == UNCHANGED <<panel, last_callsign, last_wx, first, othersWx>>

\* update_packets_ui sends the distance of the last packet, unless a line was
\* picked; its lines are PacketStore's.
UpdateDistance_Faulty == last_packet # None

UpdateDistance == last_packet # None /\ ~disp_idx

\* merge_packets
Merge(p, old) ==
    IF old = None THEN p
    ELSE [p EXCEPT !.comment = @ \/ old.comment,
                   !.speed = IF @ = "none" THEN old.speed ELSE @,
                   !.dist = IF @ = 0 THEN old.dist ELSE @]

\* parse_incoming_packet: the packet is merged with the one kept of its station
\* and kept instead.  What was the last packet goes to the list, another may
\* fall off it then; what was kept of the own station goes nowhere.
FallsOff(h) ==
    IF kept[h.name] = None /\ last_packet \notin {None, MyCall}
      THEN {None} \cup (Stations \ {last_packet, h.name}) ELSE {None}

Hear(h) ==
    LET raw == [name |-> h.name, kind |-> h.kind, comment |-> h.comment,
                speed |-> h.speed, dist |-> h.dist, raw |-> h.dist]
        p == Merge(raw, kept[h.name])
    IN  /\ \E gone \in FallsOff(h) :
             kept' = [s \in Stations |->
                        IF s = h.name THEN p
                        ELSE IF s \in {MyCall, gone} THEN None ELSE kept[s]]
        /\ last_packet' = h.name
        /\ IF disp_idx THEN NoDisplay ELSE DisplayPacket(p)
        /\ UNCHANGED <<clock, disp_idx>>

\* STATIONINFO: a line of the list, with or without a station, or the last
\* packet.  The index is taken first.
PickLine(s) ==
    /\ disp_idx' = TRUE
    /\ IF s \in Stations \ {last_packet} /\ kept[s] # None
         THEN DisplayPacket(kept[s]) ELSE NoDisplay
    /\ UNCHANGED <<clock, kept, last_packet>>

PickLast ==
    /\ disp_idx' = FALSE
    /\ IF last_packet # None THEN DisplayPacket(kept[last_packet]) ELSE NoDisplay
    /\ UNCHANGED <<clock, kept, last_packet>>

\* The GPS, the TNC or the display made the lines be sent anew.
UpdatePacketsUi ==
    /\ UpdateDistance
    /\ panel' = [panel EXCEPT !["DISTANCE"] = last_packet]
    /\ UNCHANGED <<clock, kept, last_packet, disp_idx, last_callsign, last_wx,
                   first, othersWx>>

Tick ==
    /\ clock < LastSecond
    /\ clock' = clock + 1
    /\ UNCHANGED <<kept, last_packet, disp_idx, panel, last_callsign, last_wx,
                   first, othersWx>>

PanelNext ==
    \/ \E h \in Heard : Hear(h)
    \/ \E s \in Stations \cup {None} : PickLine(s)
    \/ PickLast \/ UpdatePacketsUi \/ Tick

PanelSpec == PanelInit /\ [][PanelNext]_panelVars

-----------------------------------------------------------------------------
(* Properties.                                                             *)

\* The distance is that of the station named above it, although it is also
\* sent on its own, for the last packet, and the panel may show another
\* (aprs.c:899).
DistanceOfShown == panel["DISTANCE"] = panel["CALLSIGN"]

\* Course and comment are of the station named or empty, whatever it sends and
\* is picked in which order, unless it came up with a message or a third-party
\* packet, which clear nothing and use up the chance to (aprs.c:808, 826-839);
\* a PHG that cannot be scanned leaves the comment (aprs.c:659-661).
FieldsOfShown ==
    first \notin {"message", "third party"} =>
        /\ panel["COURSE"] \in {panel["CALLSIGN"], Blank}
        /\ first # "lame PHG" => panel["COMMENT"] \in {panel["CALLSIGN"], Blank}

\* The weather panel shows the own station only when no other's weather was
\* displayed for half an hour before, or the own one is nearer than the last of
\* them; any weather of another station takes its place (aprs.c:532-541).
OthersWxFirst ==
    last_wx # None /\ last_wx.name = MyCall /\ othersWx # None =>
        \/ last_wx.timestamp - othersWx.timestamp > WxAge
        \/ OwnDist > 0 /\ OwnDist <= Distance(othersWx)
=============================================================================
