------------------------- MODULE SeparatePartsProofs -------------------------
(* The parts of SeparateParts, each by itself and together: what the panels *)
(* show, which children the plugin server lists, what a position is made of *)
(* and what the history of the spy holds.  RadioProofs has the other two.   *)

EXTENDS SeparateParts, RadioProofs, DisplaySocketProofs

-----------------------------------------------------------------------------
(* The panels.                                                             *)

\* A packet of station s; the own ones have the own distance, or none.
Of(s) == {p \in Packet : p.name = s /\ (s = MyCall => {p.dist, p.raw} \subseteq {0, OwnDist})}

\* What is kept of a station is of that station, and the last one is kept.
KeptInv ==
    /\ kept = [s \in Stations |-> kept[s]]
    /\ \A s \in Stations : kept[s] = None \/ kept[s] \in Of(s)
    /\ last_packet \in Stations \cup {None}
    /\ last_packet # None => kept[last_packet] \in Of(last_packet)

\* As long as no line is picked the panel names the last station, which is why
\* its distance may be sent alone; and it names the one last displayed.
PanelInv ==
    /\ panel = [f \in Fields |-> panel[f]]
    /\ ~disp_idx /\ last_packet # None => panel["CALLSIGN"] = last_packet
    /\ panel["CALLSIGN"] = last_callsign
    /\ DistanceOfShown
    /\ FieldsOfShown

\* The weather retained is the own one or the last of another station.
WxInv ==
    /\ clock \in Nat
    /\ \A w \in {last_wx, othersWx} : w = None \/ (w \in Wx /\ w.timestamp <= clock)
    /\ last_wx = None => othersWx = None
    /\ last_wx # None /\ last_wx.name # MyCall => last_wx = othersWx
    /\ OthersWxFirst

PanelsInv == KeptInv /\ PanelInv /\ WxInv

-----------------------------------------------------------------------------
\* Merging keeps the name, and a distance that is missing is the station's.
LEMMA MergeOf ==
    ASSUME NEW s \in Stations, NEW p \in Of(s), NEW old, old = None \/ old \in Of(s)
    PROVE  Merge(p, old) \in Of(s)
<1>1. CASE old = None
    BY <1>1 DEF Merge
<1>2. CASE old # None
    <2>1. Merge(p, old) = [name |-> p.name, kind |-> p.kind,
                           comment |-> p.comment \/ old.comment,
                           speed |-> IF p.speed = "none" THEN old.speed ELSE p.speed,
                           dist |-> IF p.dist = 0 THEN old.dist ELSE p.dist,
                           raw |-> p.raw]
        BY <1>2 DEF Merge, Of, Packet
    <2>2. QED BY <1>2, <2>1 DEF Of, Packet
<1>3. QED BY <1>1, <1>2

\* Displaying a packet leaves the panels in order, and names its station.
LEMMA DisplayKeepsPanel ==
    ASSUME PanelInv, NEW s \in Stations, NEW p \in Of(s), DisplayPacket(p)
    PROVE  /\ panel' = [f \in Fields |-> panel'[f]]
           /\ panel'["CALLSIGN"] = s /\ last_callsign' = s
           /\ DistanceOfShown' /\ FieldsOfShown'
<1> DEFINE isnew == p.name # last_callsign
<1>1. p.name = s /\ p.kind \in Reports /\ p.comment \in BOOLEAN
    BY DEF Of, Packet
<1>2. panel' = [f \in Fields |->
                  CASE f = "COURSE" -> Course(p, isnew)
                    [] f = "COMMENT" -> Comment(p, isnew)
                    [] OTHER -> p.name]
    BY DEF DisplayPacket
<1>3. /\ panel'["CALLSIGN"] = s /\ panel'["DISTANCE"] = s
      /\ panel'["COURSE"] = Course(p, isnew) /\ panel'["COMMENT"] = Comment(p, isnew)
    BY <1>1, <1>2 DEF Fields
<1>4. last_callsign' = s /\ first' = IF isnew THEN p.kind ELSE first
    BY <1>1 DEF DisplayPacket
<1>5. FieldsOfShown'
    <2>1. CASE isnew
        BY <1>1, <1>3, <1>4, <2>1 DEF FieldsOfShown, Course, Comment, Reports
    <2>2. CASE ~isnew
        BY <1>1, <1>3, <1>4, <2>2 DEF PanelInv, FieldsOfShown, Course, Comment, Reports
    <2>3. QED BY <2>1, <2>2
<1>6. panel' = [f \in Fields |-> panel'[f]]
    BY <1>2
<1>7. QED BY <1>3, <1>4, <1>5, <1>6 DEF DistanceOfShown

\* ... and the own weather behind another's.
LEMMA DisplayKeepsWx ==
    ASSUME WxInv, NEW s \in Stations, NEW p \in Of(s), DisplayWx(p), clock' = clock
    PROVE  WxInv'
<1> DEFINE copy == [name |-> p.name, dist |-> p.raw, timestamp |-> clock]
<1> USE InfoPanelAssumption
<1>1. CASE p.kind # "weather"
    BY <1>1 DEF DisplayWx, WxInv, OthersWxFirst, Distance
<1>2. CASE p.kind = "weather" /\ p.name # MyCall
    <2>1. last_wx' = copy /\ othersWx' = copy /\ copy \in Wx
        BY <1>2 DEF DisplayWx, Retains, Of, Packet, Wx, WxInv
    <2>2. QED BY <1>2, <2>1 DEF WxInv, OthersWxFirst, Distance, Wx
<1>3. CASE p.kind = "weather" /\ p.name = MyCall /\ ~Retains(p)
    BY <1>3 DEF DisplayWx, WxInv, OthersWxFirst, Distance
<1>4. CASE p.kind = "weather" /\ p.name = MyCall /\ Retains(p)
    <2>1. last_wx' = copy /\ othersWx' = othersWx /\ copy \in Wx /\ copy.name = MyCall
        BY <1>4 DEF DisplayWx, Of, Packet, Wx, WxInv
    <2>2. p.dist > 0 => p.dist = OwnDist
        BY <1>4 DEF Of, Packet
    <2>3. ASSUME othersWx # None
          PROVE  \/ clock - othersWx.timestamp > WxAge
                 \/ OwnDist > 0 /\ OwnDist <= Distance(othersWx)
        <3>1. last_wx # None /\ last_wx \in Wx /\ othersWx \in Wx /\ last_wx.timestamp <= clock
            BY <2>3 DEF WxInv
        <3>2. CASE last_wx.name = MyCall
            BY <2>3, <3>1, <3>2 DEF WxInv, OthersWxFirst, Wx
        <3>3. CASE last_wx.name # MyCall
            BY <1>4, <2>2, <3>1, <3>3 DEF WxInv, Retains
        <3>4. QED BY <3>2, <3>3
    <2>4. OthersWxFirst'
        BY <2>1, <2>3 DEF OthersWxFirst, Distance
    <2>5. \A w \in {last_wx, othersWx}' : w = None \/ (w \in Wx /\ w.timestamp <= clock)
        BY <2>1 DEF WxInv, Wx
    <2>6. last_wx' # None
        BY <2>1
    <2>7. QED BY <2>1, <2>4, <2>5, <2>6 DEF WxInv
<1>5. QED BY <1>1, <1>2, <1>3, <1>4

-----------------------------------------------------------------------------
LEMMA PanelInitInv == PanelInit => PanelsInv
<1> USE InfoPanelAssumption
<1> SUFFICES ASSUME PanelInit PROVE PanelsInv
    OBVIOUS
<1>1. KeptInv
    BY DEF PanelInit, KeptInv
<1>2. PanelInv
    BY DEF PanelInit, PanelInv, DistanceOfShown, FieldsOfShown, Fields
<1>3. WxInv
    BY DEF PanelInit, WxInv, OthersWxFirst
<1>4. QED BY <1>1, <1>2, <1>3 DEF PanelsInv

\* A packet displayed, or nothing: what every handler but the clock ends with.
LEMMA DisplayKeeps ==
    ASSUME PanelsInv, NEW s \in Stations, NEW p \in Of(s), DisplayPacket(p), clock' = clock,
           KeptInv', disp_idx' \/ last_packet' = s
    PROVE  PanelsInv'
<1>1. DisplayWx(p)
    BY DEF DisplayPacket
<1>2. WxInv'
    BY <1>1, DisplayKeepsWx DEF PanelsInv
<1>3. PanelInv'
    BY DisplayKeepsPanel DEF PanelsInv, PanelInv
<1>4. QED BY <1>2, <1>3 DEF PanelsInv

LEMMA NoDisplayKeeps ==
    ASSUME PanelsInv, NoDisplay, clock' = clock, KeptInv', disp_idx'
    PROVE  PanelsInv'
<1>1. PanelInv'
    BY DEF PanelsInv, PanelInv, NoDisplay, DistanceOfShown, FieldsOfShown
<1>2. WxInv'
    BY DEF PanelsInv, WxInv, NoDisplay, OthersWxFirst, Distance
<1>3. QED BY <1>1, <1>2 DEF PanelsInv

LEMMA HearKeeps == ASSUME PanelsInv, NEW h \in Heard, Hear(h) PROVE PanelsInv'
<1> USE InfoPanelAssumption
<1> DEFINE raw == [name |-> h.name, kind |-> h.kind, comment |-> h.comment,
                   speed |-> h.speed, dist |-> h.dist, raw |-> h.dist]
           p == Merge(raw, kept[h.name])
<1>1. h.name \in Stations /\ raw \in Of(h.name)
    BY DEF Of, Packet
<1>2. p \in Of(h.name)
    BY <1>1, MergeOf DEF PanelsInv, KeptInv
<1>3. KeptInv'
    <2>1. PICK gone : kept' = [s \in Stations |->
                                 IF s = h.name THEN p
                                 ELSE IF s \in {MyCall, gone} THEN None ELSE kept[s]]
        BY DEF Hear
    <2>2. last_packet' = h.name
        BY DEF Hear
    <2> HIDE DEF p
    <2>3. QED BY <1>1, <1>2, <2>1, <2>2 DEF PanelsInv, KeptInv
<1>4. clock' = clock /\ disp_idx' = disp_idx /\ last_packet' = h.name
    BY DEF Hear
<1>5. CASE disp_idx
    <2>1. NoDisplay
        BY <1>5 DEF Hear
    <2>2. QED BY <1>3, <1>4, <1>5, <2>1, NoDisplayKeeps
<1>6. CASE ~disp_idx
    <2>1. DisplayPacket(p)
        BY <1>6 DEF Hear
    <2> HIDE DEF p
    <2>2. QED BY <1>1, <1>2, <1>3, <1>4, <2>1, DisplayKeeps
<1>7. QED BY <1>5, <1>6

LEMMA PickLineKeeps == ASSUME PanelsInv, NEW s, PickLine(s) PROVE PanelsInv'
<1>1. KeptInv' /\ clock' = clock /\ disp_idx'
    BY DEF PickLine, PanelsInv, KeptInv
<1>2. CASE s \in Stations \ {last_packet} /\ kept[s] # None
    <2>1. kept[s] \in Of(s) /\ DisplayPacket(kept[s])
        BY <1>2 DEF PanelsInv, KeptInv, PickLine
    <2>2. QED BY <1>1, <1>2, <2>1, DisplayKeeps
<1>3. CASE ~(s \in Stations \ {last_packet} /\ kept[s] # None)
    <2>1. NoDisplay
        BY <1>3 DEF PickLine
    <2>2. QED BY <1>1, <2>1, NoDisplayKeeps
<1>4. QED BY <1>2, <1>3

LEMMA PickLastKeeps == ASSUME PanelsInv, PickLast PROVE PanelsInv'
<1>1. KeptInv' /\ clock' = clock /\ last_packet' = last_packet
    BY DEF PickLast, PanelsInv, KeptInv
<1>2. CASE last_packet # None
    <2>1. /\ last_packet \in Stations /\ kept[last_packet] \in Of(last_packet)
          /\ DisplayPacket(kept[last_packet])
        BY <1>2 DEF PanelsInv, KeptInv, PickLast
    <2>2. QED BY <1>1, <2>1, DisplayKeeps
<1>3. CASE last_packet = None
    <2>1. NoDisplay
        BY <1>3 DEF PickLast
    <2>2. PanelInv'
        BY <1>1, <1>3, <2>1 DEF PanelsInv, PanelInv, NoDisplay, DistanceOfShown, FieldsOfShown
    <2>3. WxInv'
        BY <1>1, <2>1 DEF PanelsInv, WxInv, NoDisplay, OthersWxFirst, Distance
    <2>4. QED BY <1>1, <2>2, <2>3 DEF PanelsInv
<1>4. QED BY <1>2, <1>3

LEMMA UpdateKeeps == ASSUME PanelsInv, UpdatePacketsUi PROVE PanelsInv'
<1>1. KeptInv'
    BY DEF UpdatePacketsUi, PanelsInv, KeptInv
<1>2. PanelInv'
    <2>1. panel' = [panel EXCEPT !["DISTANCE"] = last_packet]
        BY DEF UpdatePacketsUi
    <2>2. panel["CALLSIGN"] = last_packet
        BY DEF UpdatePacketsUi, UpdateDistance, PanelsInv, PanelInv
    <2>3. /\ panel' = [f \in Fields |-> panel'[f]]
          /\ \A f \in {"CALLSIGN", "COURSE", "COMMENT"} : panel'[f] = panel[f]
          /\ panel'["DISTANCE"] = last_packet
        BY <2>1 DEF PanelsInv, PanelInv, Fields
    <2>4. QED BY <2>2, <2>3 DEF UpdatePacketsUi, PanelsInv, PanelInv, DistanceOfShown, FieldsOfShown
<1>3. WxInv'
    BY DEF UpdatePacketsUi, PanelsInv, WxInv, OthersWxFirst, Distance
<1>4. QED BY <1>1, <1>2, <1>3 DEF PanelsInv

LEMMA TickKeeps == ASSUME PanelsInv, Tick PROVE PanelsInv'
<1>1. KeptInv'
    BY DEF Tick, PanelsInv, KeptInv
<1>2. PanelInv'
    BY DEF Tick, PanelsInv, PanelInv, DistanceOfShown, FieldsOfShown
<1>3. WxInv'
    BY DEF Tick, PanelsInv, WxInv, Wx, OthersWxFirst, Distance
<1>4. QED BY <1>1, <1>2, <1>3 DEF PanelsInv

LEMMA StutterKeeps == ASSUME PanelsInv, UNCHANGED panelVars PROVE PanelsInv'
<1>1. KeptInv'
    BY DEF panelVars, PanelsInv, KeptInv
<1>2. PanelInv'
    BY DEF panelVars, PanelsInv, PanelInv, DistanceOfShown, FieldsOfShown
<1>3. WxInv'
    BY DEF panelVars, PanelsInv, WxInv, OthersWxFirst, Distance
<1>4. QED BY <1>1, <1>2, <1>3 DEF PanelsInv

LEMMA PanelInvariance == PanelSpec => []PanelsInv
<1>1. ASSUME PanelsInv, [PanelNext]_panelVars PROVE PanelsInv'
    BY <1>1, HearKeeps, PickLineKeeps, PickLastKeeps, UpdateKeeps, TickKeeps, StutterKeeps
       DEF PanelNext
<1>2. QED BY <1>1, PanelInitInv, PTL DEF PanelSpec

-----------------------------------------------------------------------------
\* Whatever is heard and picked in which order, the distance sent on its own is
\* that of the station the panel names (aprs.c:899).
THEOREM DistanceIsOfShown == PanelSpec => []DistanceOfShown
<1>1. PanelsInv => DistanceOfShown
    BY DEF PanelsInv, PanelInv
<1>2. QED BY <1>1, PanelInvariance, PTL

\* Course and comment are of the station the panel names, or empty, with the
\* exceptions FieldsOfShown names (aprs.c:808, 826-839).
THEOREM FieldsAreOfShown == PanelSpec => []FieldsOfShown
<1>1. PanelsInv => FieldsOfShown
    BY DEF PanelsInv, PanelInv
<1>2. QED BY <1>1, PanelInvariance, PTL

\* For any distances and any age the own weather stands behind that of others
\* (aprs.c:532-541).
THEOREM OthersWeatherFirst == PanelSpec => []OthersWxFirst
<1>1. PanelsInv => OthersWxFirst
    BY DEF PanelsInv, WxInv
<1>2. QED BY <1>1, PanelInvariance, PTL

-----------------------------------------------------------------------------
(* The types of the panels.                                                *)

\* What is displayed: a packet, or nothing.
DisplayTypes ==
    /\ panel \in [Fields -> Stations \cup {Blank}]
    /\ last_callsign \in Stations \cup {Blank}
    /\ last_wx \in Wx \cup {None} /\ othersWx \in Wx \cup {None}
    /\ first \in Reports \cup {None}

LEMMA DisplayKeepsTypes ==
    ASSUME clock \in Nat, DisplayTypes, NEW p \in Packet, DisplayPacket(p)
    PROVE  DisplayTypes'
<1>1. p.name \in Stations /\ p.kind \in Reports /\ p.raw \in 0..Far
    BY DEF Packet
<1>2. panel["COURSE"] \in Stations \cup {Blank} /\ panel["COMMENT"] \in Stations \cup {Blank}
    BY DEF DisplayTypes, Fields
<1> DEFINE isnew == p.name # last_callsign
<1>3. Course(p, isnew) \in Stations \cup {Blank} /\ Comment(p, isnew) \in Stations \cup {Blank}
    BY <1>1, <1>2 DEF Course, Comment
<1>4. /\ panel' = [f \in Fields |-> CASE f = "COURSE" -> Course(p, isnew)
                                      [] f = "COMMENT" -> Comment(p, isnew)
                                      [] OTHER -> p.name]
      /\ last_callsign' = p.name
      /\ first' = IF isnew THEN p.kind ELSE first
    BY DEF DisplayPacket
<1> HIDE DEF isnew
<1>5. panel' \in [Fields -> Stations \cup {Blank}]
    BY <1>1, <1>3, <1>4 DEF Fields
<1>6. last_callsign' \in Stations \cup {Blank} /\ first' \in Reports \cup {None}
    BY <1>1, <1>4 DEF DisplayTypes
<1>7. last_wx' \in Wx \cup {None} /\ othersWx' \in Wx \cup {None}
    <2> DEFINE copy == [name |-> p.name, dist |-> p.raw, timestamp |-> clock]
    <2>1. copy \in Wx
        BY <1>1 DEF Wx
    <2> HIDE DEF copy
    <2>2. last_wx' \in {last_wx, copy} /\ othersWx' \in {othersWx, copy}
        BY DEF DisplayPacket, DisplayWx, copy
    <2>3. QED BY <2>1, <2>2 DEF DisplayTypes
<1>8. QED BY <1>5, <1>6, <1>7 DEF DisplayTypes

LEMMA NoDisplayKeepsTypes == ASSUME DisplayTypes, NoDisplay PROVE DisplayTypes'
BY DEF DisplayTypes, NoDisplay

LEMMA PanelTypes == PanelSpec => []PanelTypeOK
<1> DEFINE Types == /\ clock \in 0..LastSecond /\ disp_idx \in BOOLEAN
                    /\ last_packet \in Stations \cup {None} /\ DisplayTypes
<1>1. PanelInit => Types
    <2>1. SUFFICES ASSUME PanelInit PROVE Types
        OBVIOUS
    <2>2. clock \in 0..LastSecond
        BY <2>1, InfoPanelAssumption DEF PanelInit
    <2>3. QED BY <2>1, <2>2 DEF PanelInit, DisplayTypes
<1>2. PanelsInv /\ Types /\ [PanelNext]_panelVars => Types'
    <2> SUFFICES ASSUME PanelsInv, Types, [PanelNext]_panelVars PROVE Types'
        OBVIOUS
    <2>1. clock \in Nat
        BY InfoPanelAssumption
    <2>2. \A s \in Stations : kept[s] # None => kept[s] \in Packet
        BY DEF PanelsInv, KeptInv, Of
    <2>3. ASSUME NEW h \in Heard, Hear(h) PROVE Types'
        <3> DEFINE raw == [name |-> h.name, kind |-> h.kind, comment |-> h.comment,
                           speed |-> h.speed, dist |-> h.dist, raw |-> h.dist]
                   p == Merge(raw, kept[h.name])
        <3>1. h.name \in Stations
            BY InfoPanelAssumption
        <3>2. p \in Packet
            <4>1. raw \in Of(h.name)
                BY <3>1, InfoPanelAssumption DEF Of, Packet
            <4>2. p \in Of(h.name)
                BY <3>1, <4>1, MergeOf DEF PanelsInv, KeptInv
            <4>3. QED BY <4>2 DEF Of
        <3>3. (IF disp_idx THEN NoDisplay ELSE DisplayPacket(p)) /\ last_packet' = h.name
              /\ UNCHANGED <<clock, disp_idx>>
            BY <2>3 DEF Hear
        <3> HIDE DEF p
        <3>4. DisplayTypes'
            BY <2>1, <3>2, <3>3, DisplayKeepsTypes, NoDisplayKeepsTypes
        <3>5. QED BY <3>1, <3>3, <3>4
    <2>4. ASSUME NEW s \in Stations \cup {None}, PickLine(s) PROVE Types'
        <3>1. \/ s \in Stations /\ kept[s] # None /\ DisplayPacket(kept[s])
              \/ NoDisplay
            BY <2>4 DEF PickLine
        <3>2. DisplayTypes'
            BY <2>1, <2>2, <3>1, DisplayKeepsTypes, NoDisplayKeepsTypes
        <3>3. disp_idx' = TRUE /\ UNCHANGED <<clock, last_packet>>
            BY <2>4 DEF PickLine
        <3>4. QED BY <3>2, <3>3
    <2>5. ASSUME PickLast PROVE Types'
        <3>1. disp_idx' = FALSE /\ UNCHANGED <<clock, last_packet>>
            BY <2>5 DEF PickLast
        <3>2. CASE last_packet # None
            <4>1. DisplayPacket(kept[last_packet]) /\ kept[last_packet] \in Packet
                BY <2>5, <3>2 DEF PickLast, PanelsInv, KeptInv, Of
            <4>2. DisplayTypes'
                BY <2>1, <4>1, DisplayKeepsTypes
            <4>3. QED BY <3>1, <4>2
        <3>3. CASE last_packet = None
            <4>1. NoDisplay
                BY <2>5, <3>3 DEF PickLast
            <4>2. QED BY <3>1, <4>1, NoDisplayKeepsTypes
        <3>4. QED BY <3>2, <3>3
    <2>6. CASE UpdatePacketsUi
        BY <2>6 DEF UpdatePacketsUi, UpdateDistance, DisplayTypes
    <2>7. CASE Tick
        <3>1. clock' \in 0..LastSecond
            BY <2>7, InfoPanelAssumption DEF Tick
        <3>2. QED BY <2>7, <3>1 DEF Tick, DisplayTypes
    <2>8. CASE UNCHANGED panelVars
        BY <2>8 DEF panelVars, DisplayTypes
    <2>9. QED BY <2>3, <2>4, <2>5, <2>6, <2>7, <2>8 DEF PanelNext
<1>3. PanelsInv /\ Types => PanelTypeOK
    <2>1. SUFFICES ASSUME PanelsInv, Types PROVE PanelTypeOK
        OBVIOUS
    <2>2. kept \in [Stations -> Packet \cup {None}]
        <3>1. \A s \in Stations : kept[s] \in Packet \cup {None}
            BY <2>1 DEF PanelsInv, KeptInv, Of
        <3>2. kept = [s \in Stations |-> kept[s]]
            BY <2>1 DEF PanelsInv, KeptInv
        <3>3. QED BY <3>1, <3>2
    <2>3. QED BY <2>1, <2>2 DEF PanelTypeOK, DisplayTypes
<1>4. QED BY <1>1, <1>2, <1>3, PanelInvariance, PTL DEF PanelSpec

-----------------------------------------------------------------------------
(* The plugin server.                                                      *)

\* Nothing is listed for a page that has not come.
NoneListedYet == \A b \in Browsers : connected[b] = "no" => chillens[b] = <<>>

\* The children listed for a page are running and its own, each listed once.
ListInv == PluTypeOK /\ ListedAlive /\ NoneListedYet

PluInv == ListInv /\ LostByKills

\* Entry i of a shorter list is an entry of the longer one, another for each i.
Drawn(short, long) ==
    \E from \in [DOMAIN short -> DOMAIN long] :
        /\ IsInjective(from)
        /\ \A i \in DOMAIN short : short[i] = long[from[i]]

\* Such a list has no new entries, and still each of them once.
LEMMA DrawnIsPart ==
    ASSUME NEW S, NEW long \in Seq(S), NEW short \in Seq(S),
           IsInjective(long), Drawn(short, long)
    PROVE  IsInjective(short) /\ Range(short) \subseteq Range(long)
<1>1. PICK from \in [DOMAIN short -> DOMAIN long] :
            /\ IsInjective(from)
            /\ \A i \in DOMAIN short : short[i] = long[from[i]]
    BY DEF Drawn
<1>2. ASSUME NEW i \in DOMAIN short, NEW j \in DOMAIN short, short[i] = short[j]
      PROVE  i = j
    BY <1>1, <1>2 DEF IsInjective
<1>3. IsInjective(short)
    BY <1>2 DEF IsInjective
<1>4. Range(short) \subseteq Range(long)
    BY <1>1 DEF Range
<1>5. QED BY <1>3, <1>4

LEMMA RemovedIsDrawn ==
    ASSUME NEW S, NEW s \in Seq(S), NEW n \in 1..Len(s)
    PROVE  RemoveAt(s, n) \in Seq(S) /\ Drawn(RemoveAt(s, n), s)
<1> DEFINE t == RemoveAt(s, n)
           from == [i \in 1..(Len(s) - 1) |-> IF i < n THEN i ELSE i + 1]
<1>1. Len(s) \in Nat /\ DOMAIN s = 1..Len(s)
    BY LenProperties
<1>2. /\ t \in Seq(S) /\ Len(t) = Len(s) - 1
      /\ \A i \in 1..(Len(s) - 1) : t[i] = IF i < n THEN s[i] ELSE s[i + 1]
    BY RemovedAt
<1>3. DOMAIN t = 1..(Len(s) - 1)
    BY <1>2, LenProperties
<1> HIDE DEF t
<1>4. from \in [DOMAIN t -> DOMAIN s] /\ \A i \in DOMAIN t : t[i] = s[from[i]]
    BY <1>1, <1>2, <1>3
<1>5. IsInjective(from)
    BY <1>1 DEF IsInjective
<1>6. QED BY <1>2, <1>4, <1>5 DEF t, Drawn

LEMMA KeptIsDrawn ==
    ASSUME NEW S, NEW s \in Seq(S)
    PROVE  Kept(s) \in Seq(S) /\ Drawn(Kept(s), s)
<1> DEFINE m == Len(s) \div 2
           from == [i \in 1..m |-> 2 * i]
<1>1. Len(s) \in Nat /\ DOMAIN s = 1..Len(s) /\ \A i \in 1..Len(s) : s[i] \in S
    BY LenProperties, ElementOfSeq
<1>2. m \in Nat /\ \A i \in 1..m : 2 * i \in 1..Len(s)
    BY <1>1
<1>3. Kept(s) = [i \in 1..m |-> s[2 * i]]
    BY DEF Kept
<1> HIDE DEF m
<1>4. Kept(s) \in Seq(S) /\ DOMAIN Kept(s) = 1..m
    BY <1>1, <1>2, <1>3, IsASeq
<1>5. from \in [DOMAIN Kept(s) -> DOMAIN s] /\ \A i \in DOMAIN Kept(s) : Kept(s)[i] = s[from[i]]
    BY <1>1, <1>2, <1>3, <1>4
<1>6. IsInjective(from)
    BY <1>2 DEF IsInjective
<1>7. QED BY <1>4, <1>5, <1>6 DEF Drawn

\* None of those kept was signalled in the walk.
LEMMA KeptAreOthers ==
    ASSUME NEW S, NEW s \in Seq(S), IsInjective(s)
    PROVE  Range(Kept(s)) \cap Signalled(s) = {}
<1>1. Len(s) \in Nat /\ DOMAIN s = 1..Len(s)
    BY LenProperties
<1>2. SUFFICES ASSUME NEW c \in Range(Kept(s)), c \in Signalled(s) PROVE FALSE
    OBVIOUS
<1>3. PICK i \in 1..(Len(s) \div 2) : c = s[2 * i]
    BY <1>1 DEF Kept, Range
<1>4. PICK j \in 1..Len(s) : j % 2 = 1 /\ c = s[j]
    BY <1>1, <1>2 DEF Signalled
<1>5. 2 * i \in 1..Len(s) /\ (2 * i) % 2 = 0
    BY <1>1
<1>6. 2 * i = j
    BY <1>1, <1>3, <1>4, <1>5 DEF IsInjective
<1>7. QED BY <1>4, <1>5, <1>6

\* What indexOf and splice leave of a list, and that a child listed is gone.
LEMMA UnlistDraws ==
    ASSUME NEW n \in Nat, NEW list \in Seq(1..n), NEW c, IsInjective(list)
    PROVE  /\ Unlist(list, c) \in Seq(1..n) /\ IsInjective(Unlist(list, c))
           /\ Range(Unlist(list, c)) \subseteq Range(list) \ {c}
<1>1. Len(list) \in Nat /\ DOMAIN list = 1..Len(list) /\ \A i \in 1..Len(list) : list[i] \in 1..n
    BY LenProperties, ElementOfSeq
<1>2. CASE c \in Range(list)
    <2> DEFINE D == {i \in DOMAIN list : list[i] = c}
    <2>1. PICK k \in 1..Len(list) : list[k] = c
        BY <1>1, <1>2 DEF Range
    <2>2. D = {k}
        BY <1>1, <2>1 DEF IsInjective
    <2>3. Unlist(list, c) = RemoveAt(list, k)
        <3>1. Min(D) = k
            BY <2>2 DEF Min
        <3>2. QED BY <1>2, <3>1 DEF Unlist
    <2>4. RemoveAt(list, k) \in Seq(1..n) /\ Drawn(RemoveAt(list, k), list)
        BY RemovedIsDrawn
    <2>5. /\ IsInjective(RemoveAt(list, k))
          /\ Range(RemoveAt(list, k)) \subseteq Range(list)
        BY <2>4, DrawnIsPart
    <2>6. c \notin Range(RemoveAt(list, k))
        <3>1. ASSUME NEW i \in DOMAIN RemoveAt(list, k) PROVE RemoveAt(list, k)[i] # c
            <4>1. /\ i \in 1..(Len(list) - 1)
                  /\ RemoveAt(list, k)[i] = IF i < k THEN list[i] ELSE list[i + 1]
                <5>1. /\ RemoveAt(list, k) \in Seq(1..n) /\ Len(RemoveAt(list, k)) = Len(list) - 1
                      /\ \A d \in 1..(Len(list) - 1) :
                           RemoveAt(list, k)[d] = IF d < k THEN list[d] ELSE list[d + 1]
                    BY RemovedAt
                <5>2. DOMAIN RemoveAt(list, k) = 1..(Len(list) - 1)
                    BY <5>1, LenProperties
                <5>3. QED BY <5>1, <5>2
            <4>0. \A j \in 1..Len(list) : list[j] = c => j = k
                BY <1>1, <2>1 DEF IsInjective
            <4>2. CASE i < k
                <5>1. i \in 1..Len(list) /\ i # k
                    BY <1>1, <4>1, <4>2
                <5>2. QED BY <4>0, <4>1, <4>2, <5>1
            <4>3. CASE ~(i < k)
                <5>1. i + 1 \in 1..Len(list) /\ i + 1 # k
                    BY <1>1, <4>1, <4>3
                <5>2. QED BY <4>0, <4>1, <4>3, <5>1
            <4>4. QED BY <4>2, <4>3
        <3>2. QED BY <3>1 DEF Range
    <2>7. QED BY <2>3, <2>4, <2>5, <2>6
<1>3. CASE c \notin Range(list) /\ list # <<>>
    <2>1. Unlist(list, c) = Front(list)
        BY <1>3 DEF Unlist
    <2>2. Len(list) > 0
        BY <1>3, EmptySeq
    <2>3. Front(list) = SubSeq(list, 1, Len(list) - 1)
        BY DEF Front
    <2>4. 0 \in Nat /\ Len(list) - 1 \in 0..Len(list) /\ 0 + 1 = 1
        BY <1>1, <2>2
    <2> DEFINE f == SubSeq(list, 0 + 1, Len(list) - 1)
    <2>5. f \in Seq(1..n) /\ Len(f) = (Len(list) - 1) - 0
          /\ \A i \in 1..((Len(list) - 1) - 0) : f[i] = list[0 + i]
        BY <2>4, SubSeqOf
    <2>6. Front(list) = f
        BY <2>3, <2>4
    <2> HIDE DEF f
    <2>7. DOMAIN f = 1..(Len(list) - 1)
        BY <1>1, <2>5, LenProperties
    <2> DEFINE from == [i \in 1..(Len(list) - 1) |-> i]
    <2>8. from \in [DOMAIN f -> DOMAIN list] /\ \A i \in DOMAIN f : f[i] = list[from[i]]
        BY <1>1, <2>5, <2>7
    <2>9. IsInjective(from)
        BY DEF IsInjective
    <2>10. Drawn(f, list)
        BY <2>8, <2>9 DEF Drawn
    <2>11. IsInjective(f) /\ Range(f) \subseteq Range(list)
        BY <2>5, <2>10, DrawnIsPart
    <2>12. QED BY <1>3, <2>1, <2>5, <2>6, <2>11
<1>4. CASE c \notin Range(list) /\ list = <<>>
    BY <1>4 DEF Unlist
<1>5. QED BY <1>2, <1>3, <1>4

LEMMA ButtonKeeps == ASSUME ListInv, NEW b \in Browsers, Button(b) PROVE ListInv'
<1> DEFINE n == Len(children)
           child == [by |-> b, running |-> TRUE, signalled |-> FALSE]
           R == [by : Browsers, running : BOOLEAN, signalled : BOOLEAN]
<1> USE PluAssumption
<1>1. /\ children \in Seq(R) /\ n \in Nat /\ n < MaxChildren
      /\ chillens \in [Browsers -> Seq(1..MaxChildren)]
    BY LenProperties DEF ListInv, PluTypeOK, Button
<1>2. child \in R
    OBVIOUS
<1>3. children' = Append(children, child)
    BY DEF Button
<1>4. /\ children' \in Seq(R) /\ Len(children') = n + 1 /\ DOMAIN children = 1..n
      /\ DOMAIN children' = 1..(n + 1) /\ children'[n + 1] = child
      /\ \A c \in 1..n : children'[c] = children[c]
    BY <1>1, <1>2, <1>3, AppendProperties, LenProperties
<1> DEFINE list == chillens[b]
<1>5. /\ list \in Seq(1..MaxChildren) /\ n + 1 \in 1..MaxChildren
      /\ chillens' = [chillens EXCEPT ![b] = Append(list, n + 1)]
    BY <1>1 DEF Button
<1>6. Len(list) \in Nat /\ DOMAIN list = 1..Len(list)
    BY <1>5, LenProperties
<1>7. /\ Append(list, n + 1) \in Seq(1..MaxChildren)
      /\ DOMAIN Append(list, n + 1) = 1..(Len(list) + 1)
      /\ Append(list, n + 1)[Len(list) + 1] = n + 1
      /\ \A i \in 1..Len(list) : Append(list, n + 1)[i] = list[i]
    BY <1>5, AppendProperties, LenProperties
<1>8. /\ IsInjective(list)
      /\ \A c \in Range(list) : c \in 1..n /\ children[c].by = b /\ children[c].running
                                  /\ ~children[c].signalled
    BY <1>4 DEF ListInv, ListedAlive, Own
<1> DEFINE longer == Append(list, n + 1)
<1> HIDE DEF n, child, R
<1>9. IsInjective(longer)
    <2>1. \A i \in 1..Len(list) : longer[i] = list[i] /\ list[i] \in 1..n
        BY <1>6, <1>7, <1>8 DEF Range
    <2>2. n + 1 \notin 1..n
        BY <1>1 DEF n
    <2> HIDE DEF longer
    <2>3. ASSUME NEW i \in 1..(Len(list) + 1), NEW j \in 1..(Len(list) + 1),
                 longer[i] = longer[j]
          PROVE  i = j
        <3>1. \A k \in 1..(Len(list) + 1) : k \in 1..Len(list) \/ k = Len(list) + 1
            BY <1>6
        <3>2. longer[Len(list) + 1] = n + 1
            BY <1>7 DEF longer
        <3>3. QED BY <1>6, <1>8, <2>1, <2>2, <2>3, <3>1, <3>2 DEF IsInjective
    <2>4. DOMAIN longer = 1..(Len(list) + 1)
        BY <1>7 DEF longer
    <2>5. QED BY <2>3, <2>4 DEF IsInjective
<1>10. \A c \in Range(longer) : c \in Range(list) \/ c = n + 1
    <2>1. \A k \in 1..(Len(list) + 1) : k \in 1..Len(list) \/ k = Len(list) + 1
        BY <1>6
    <2>2. QED BY <1>6, <1>7, <2>1 DEF Range
<1> HIDE DEF longer, list
<1>11. ListedAlive'
    <2>1. ASSUME NEW a \in Browsers
          PROVE  /\ IsInjective(chillens'[a])
                 /\ \A c \in Range(chillens'[a]) :
                      c \in Own(a)' /\ children'[c].running /\ ~children'[c].signalled
        <3>1. CASE a = b
            <4>1. chillens'[a] = longer
                BY <1>1, <1>5, <3>1 DEF longer, list
            <4>2. ASSUME NEW c \in Range(longer)
                  PROVE  c \in Own(a)' /\ children'[c].running /\ ~children'[c].signalled
                <5>1. CASE c = n + 1
                    BY <1>1, <1>4, <3>1, <5>1 DEF Own, child, n
                <5>2. CASE c \in Range(list)
                    <6>1. c \in 1..n /\ children'[c] = children[c] /\ c \in 1..(n + 1)
                        BY <1>1, <1>4, <1>8, <5>2
                    <6>2. QED BY <1>4, <1>8, <3>1, <5>2, <6>1 DEF Own
                <5>3. QED BY <1>10, <5>1, <5>2
            <4>3. QED BY <1>9, <4>1, <4>2
        <3>2. CASE a # b
            <4>1. chillens'[a] = chillens[a]
                BY <1>1, <1>5, <3>2
            <4>2. ASSUME NEW c \in Range(chillens[a])
                  PROVE  c \in Own(a)' /\ children'[c].running /\ ~children'[c].signalled
                <5>1. c \in 1..n /\ children[c].by = a /\ children[c].running /\ ~children[c].signalled
                    BY <1>4 DEF ListInv, ListedAlive, Own, n
                <5>2. c \in 1..(n + 1) /\ children'[c] = children[c]
                    BY <1>1, <1>4, <5>1
                <5>3. QED BY <1>4, <5>1, <5>2 DEF Own
            <4>3. QED BY <4>1, <4>2 DEF ListInv, ListedAlive
        <3>3. QED BY <3>1, <3>2
    <2>2. QED BY <2>1 DEF ListedAlive
<1>12. PluTypeOK'
    <2>1. chillens' \in [Browsers -> Seq(1..MaxChildren)]
        BY <1>1, <1>5, <1>7 DEF longer, list
    <2>2. Len(children') <= MaxChildren
        BY <1>1, <1>4
    <2>3. /\ connected' = connected /\ mail' = mail /\ color' = color /\ due' = due
        BY DEF Button, outboxVars
    <2>4. QED BY <1>4, <2>1, <2>2, <2>3 DEF ListInv, PluTypeOK, R
<1>13. NoneListedYet'
    BY <1>1, <1>5 DEF ListInv, NoneListedYet, Button
<1>14. QED BY <1>11, <1>12, <1>13 DEF ListInv

LEMMA ExitKeeps == ASSUME ListInv, NEW c \in DOMAIN children, Exit(c) PROVE ListInv'
<1> DEFINE n == Len(children)
           b == children[c].by
           R == [by : Browsers, running : BOOLEAN, signalled : BOOLEAN]
<1> USE PluAssumption
<1>1. /\ children \in Seq(R) /\ n \in Nat /\ n <= MaxChildren
      /\ chillens \in [Browsers -> Seq(1..MaxChildren)]
      /\ DOMAIN children = 1..n
    BY LenProperties DEF ListInv, PluTypeOK
<1>2. children[c] \in R /\ b \in Browsers
    <2>1. children[c] \in R
        BY <1>1, ElementOfSeq
    <2>2. QED BY <2>1
<1>3. /\ children' = [children EXCEPT ![c].running = FALSE]
      /\ chillens' = [chillens EXCEPT ![b] = Unlist(chillens[b], c)]
    BY DEF Exit
<1>4. /\ children' \in Seq(R) /\ DOMAIN children' = 1..n
      /\ \A d \in 1..n : /\ children'[d].by = children[d].by
                         /\ children'[d].signalled = children[d].signalled
                         /\ d # c => children'[d] = children[d]
    <2>1. \A d \in 1..n : children[d] \in R
        BY <1>1, ElementOfSeq
    <2>2. /\ DOMAIN children' = 1..n
          /\ \A d \in 1..n : children'[d] = IF d = c THEN [children[c] EXCEPT !.running = FALSE]
                                                     ELSE children[d]
        BY <1>1, <1>3
    <2>3. [children[c] EXCEPT !.running = FALSE] \in R
        BY <1>2
    <2>4. children' = [d \in 1..n |-> children'[d]]
        BY <1>1, <1>3
    <2> HIDE DEF R, n
    <2>5. \A d \in 1..n : children'[d] \in R
        BY <2>1, <2>2, <2>3
    <2>6. children' \in Seq(R)
        BY <1>1, <2>4, <2>5, IsASeq
    <2>7. QED BY <1>2, <2>1, <2>2, <2>6 DEF R
<1>5. Len(children') = n
    BY <1>1, <1>4, LenProperties
<1> HIDE DEF n, R, b
<1>6. /\ chillens[b] \in Seq(1..MaxChildren)
      /\ IsInjective(chillens[b])
    BY <1>1, <1>2 DEF ListInv, ListedAlive
<1>7. /\ Unlist(chillens[b], c) \in Seq(1..MaxChildren)
      /\ IsInjective(Unlist(chillens[b], c))
      /\ Range(Unlist(chillens[b], c)) \subseteq Range(chillens[b]) \ {c}
    BY <1>6, UnlistDraws
<1>8. ASSUME NEW a \in Browsers
      PROVE  /\ chillens'[a] \in Seq(1..MaxChildren) /\ IsInjective(chillens'[a])
             /\ Range(chillens'[a]) \subseteq Range(chillens[a]) \ {c}
    <2>1. CASE a = b
        BY <1>1, <1>3, <1>7, <2>1
    <2>2. CASE a # b
        <3>1. chillens'[a] = chillens[a]
            BY <1>1, <1>3, <2>2
        <3>2. c \notin Range(chillens[a])
            BY <2>2 DEF ListInv, ListedAlive, Own, b
        <3>3. QED BY <1>1, <3>1, <3>2 DEF ListInv, ListedAlive
    <2>3. QED BY <2>1, <2>2
<1>9. ListedAlive'
    <2>1. ASSUME NEW a \in Browsers, NEW d \in Range(chillens'[a])
          PROVE  d \in Own(a)' /\ children'[d].running /\ ~children'[d].signalled
        <3>1. d \in Range(chillens[a]) /\ d # c
            BY <1>8
        <3>2. d \in 1..n /\ children[d].by = a /\ children[d].running /\ ~children[d].signalled
            BY <1>1, <3>1 DEF ListInv, ListedAlive, Own
        <3>3. QED BY <1>4, <3>1, <3>2 DEF Own
    <2>2. QED BY <1>8, <2>1 DEF ListedAlive
<1>10. PluTypeOK'
    <2>1. chillens' \in [Browsers -> Seq(1..MaxChildren)]
        BY <1>1, <1>2, <1>3, <1>7
    <2>2. /\ connected' = connected /\ mail' = mail /\ color' = color /\ due' = due
        BY DEF Exit, outboxVars
    <2>3. QED BY <1>1, <1>4, <1>5, <2>1, <2>2 DEF ListInv, PluTypeOK, R
<1>11. NoneListedYet'
    <2>1. \A d : Unlist(<<>>, d) = <<>>
        BY DEF Unlist, Range
    <2>2. QED BY <1>1, <1>3, <2>1 DEF ListInv, NoneListedYet, Exit
<1>12. QED BY <1>9, <1>10, <1>11 DEF ListInv

LEMMA KillKeeps == ASSUME ListInv, NEW b \in Browsers, KillWorkers(b) PROVE ListInv'
<1> DEFINE n == Len(children)
           list == chillens[b]
           R == [by : Browsers, running : BOOLEAN, signalled : BOOLEAN]
<1> USE PluAssumption
<1>1. /\ children \in Seq(R) /\ n \in Nat /\ n <= MaxChildren
      /\ chillens \in [Browsers -> Seq(1..MaxChildren)]
      /\ DOMAIN children = 1..n
    BY LenProperties DEF ListInv, PluTypeOK
<1>2. /\ children' = [c \in 1..n |-> IF c \in Signalled(list)
                                       THEN [children[c] EXCEPT !.signalled = TRUE]
                                       ELSE children[c]]
      /\ chillens' = [chillens EXCEPT ![b] = Kept(list)]
    BY <1>1 DEF KillWorkers
<1>3. list \in Seq(1..MaxChildren) /\ IsInjective(list)
    BY <1>1 DEF ListInv, ListedAlive
<1>4. /\ children' \in Seq(R) /\ DOMAIN children' = 1..n
      /\ \A c \in 1..n : /\ children'[c].by = children[c].by
                         /\ children'[c].running = children[c].running
                         /\ c \notin Signalled(list) => children'[c] = children[c]
    <2>1. \A c \in 1..n : children[c] \in R
        BY <1>1, ElementOfSeq
    <2>2. \A c \in 1..n : [children[c] EXCEPT !.signalled = TRUE] \in R
        BY <2>1
    <2> HIDE DEF R, n, list
    <2>3. \A c \in 1..n : children'[c] \in R
        BY <1>2, <2>1, <2>2
    <2>4. children' \in Seq(R)
        <3>1. children' = [c \in 1..n |-> children'[c]]
            BY <1>2
        <3>2. n \in Nat
            BY <1>1
        <3>3. [c \in 1..n |-> children'[c]] \in Seq(R)
            BY <2>3, <3>2, IsASeq
        <3>4. QED BY <3>1, <3>3
    <2>5. ASSUME NEW c \in 1..n
          PROVE  children'[c].by = children[c].by /\ children'[c].running = children[c].running
        BY <1>2, <2>1 DEF R
    <2>6. QED BY <1>2, <2>4, <2>5
<1>5. Len(children') = n
    BY <1>1, <1>4, LenProperties
<1>6. /\ Kept(list) \in Seq(1..MaxChildren) /\ Drawn(Kept(list), list)
      /\ Range(Kept(list)) \cap Signalled(list) = {}
    BY <1>3, KeptIsDrawn, KeptAreOthers
<1>7. IsInjective(Kept(list)) /\ Range(Kept(list)) \subseteq Range(list)
    BY <1>3, <1>6, DrawnIsPart
<1>8. Signalled(list) \subseteq Range(list)
    BY DEF Signalled, Range
<1> HIDE DEF n, R, list
<1>9. ASSUME NEW a \in Browsers
      PROVE  /\ chillens'[a] \in Seq(1..MaxChildren) /\ IsInjective(chillens'[a])
             /\ Range(chillens'[a]) \subseteq Range(chillens[a]) \ Signalled(list)
    <2>1. CASE a = b
        <3>1. chillens'[a] = Kept(list)
            BY <1>1, <1>2, <2>1
        <3>2. QED BY <1>6, <1>7, <2>1, <3>1 DEF list
    <2>2. CASE a # b
        <3>1. chillens'[a] = chillens[a]
            BY <1>1, <1>2, <2>2
        <3>2. \A c \in Signalled(list) : children[c].by = b
            BY <1>8 DEF ListInv, ListedAlive, Own, list
        <3>3. \A c \in Range(chillens[a]) : children[c].by = a
            BY DEF ListInv, ListedAlive, Own
        <3>4. QED BY <1>1, <2>2, <3>1, <3>2, <3>3 DEF ListInv, ListedAlive
    <2>3. QED BY <2>1, <2>2
<1>10. ListedAlive'
    <2>1. ASSUME NEW a \in Browsers, NEW c \in Range(chillens'[a])
          PROVE  c \in Own(a)' /\ children'[c].running /\ ~children'[c].signalled
        <3>1. c \in Range(chillens[a]) /\ c \notin Signalled(list)
            BY <1>9
        <3>2. c \in 1..n /\ children[c].by = a /\ children[c].running /\ ~children[c].signalled
            BY <1>1, <3>1 DEF ListInv, ListedAlive, Own
        <3>3. QED BY <1>4, <3>1, <3>2 DEF Own
    <2>2. QED BY <1>9, <2>1 DEF ListedAlive
<1>11. PluTypeOK'
    <2>1. chillens' \in [Browsers -> Seq(1..MaxChildren)]
        BY <1>1, <1>2, <1>6
    <2>2. /\ connected' = connected /\ mail' = mail /\ color' = color /\ due' = due
        BY DEF KillWorkers, outboxVars
    <2>3. QED BY <1>1, <1>4, <1>5, <2>1, <2>2 DEF ListInv, PluTypeOK, R
<1>12. NoneListedYet'
    BY <1>1, <1>2 DEF ListInv, NoneListedYet, KillWorkers
<1>13. QED BY <1>10, <1>11, <1>12 DEF ListInv

\* What the outbox and the connections do leaves the children alone.
LEMMA OutboxKeeps ==
    ASSUME ListInv, UNCHANGED childVars,
           \/ UNCHANGED <<connected, outboxVars>>
           \/ \E b \in Browsers : PageRequest(b) \/ Watch(b) \/ PageClose(b) \/ WatchReports(b)
           \/ \E m \in 0..MaxMail : OutboxChanges(m)
    PROVE  ListInv'
<1>1. ListedAlive'
    BY DEF ListInv, ListedAlive, Own, childVars
<1>2. /\ connected' \in [Browsers -> {"no", "greeted", "watching", "closed", "gone"}]
      /\ mail' \in 0..MaxMail /\ due' \in SUBSET Browsers
    BY DEF ListInv, PluTypeOK, outboxVars, PageRequest, Watch, PageClose, WatchReports,
           OutboxChanges
<1>3. \A k : BtnColor(k) \in BOOLEAN
    BY DEF BtnColor
<1>4. color' \in [Browsers -> BOOLEAN]
    BY <1>3 DEF ListInv, PluTypeOK, outboxVars, PageRequest, Watch, PageClose, WatchReports,
           OutboxChanges
<1>5. NoneListedYet'
    BY DEF ListInv, PluTypeOK, NoneListedYet, childVars, PageRequest, Watch, PageClose,
           WatchReports, OutboxChanges
<1>6. QED BY <1>1, <1>2, <1>4, <1>5 DEF ListInv, PluTypeOK, childVars

\* The lists end with the server.
LEMMA SpawnFailsKeeps == ASSUME ListInv, NEW b \in Browsers, SpawnFails(b) PROVE ListInv'
<1>1. <<>> \in Seq(1..MaxChildren) /\ IsInjective(<<>>) /\ Range(<<>>) = {}
    BY DEF IsInjective, Range
<1>2. \A a \in Browsers : chillens'[a] = <<>>
    BY DEF SpawnFails
<1>3. ListedAlive' /\ NoneListedYet'
    BY <1>1, <1>2 DEF ListedAlive, NoneListedYet
<1>4. PluTypeOK'
    BY <1>1 DEF ListInv, PluTypeOK, SpawnFails
<1>5. QED BY <1>3, <1>4 DEF ListInv

LEMMA ListInvStep == ASSUME ListInv, [PluNext]_pluVars PROVE ListInv'
<1>1. CASE UNCHANGED pluVars
    BY <1>1, OutboxKeeps DEF pluVars, childVars, outboxVars
<1>2. ASSUME NEW b \in Browsers,
             PageRequest(b) \/ Watch(b) \/ PageClose(b) \/ WatchReports(b)
      PROVE  ListInv'
    BY <1>2, OutboxKeeps DEF PageRequest, Watch, PageClose, WatchReports
<1>3. ASSUME NEW m \in 0..MaxMail, OutboxChanges(m) PROVE ListInv'
    BY <1>3, OutboxKeeps DEF OutboxChanges
<1>4. QED BY <1>1, <1>2, <1>3, ButtonKeeps, KillKeeps, ExitKeeps, SpawnFailsKeeps DEF PluNext

-----------------------------------------------------------------------------
(* Children that run and are not listed.                                   *)

\* At most one other child than c leaves the list, and none if c was listed.
LEMMA UnlistDropsOne ==
    ASSUME NEW n \in Nat, NEW list \in Seq(1..n), NEW c, IsInjective(list)
    PROVE  \E x : /\ Range(list) \subseteq Range(Unlist(list, c)) \cup {c, x}
                  /\ c \in Range(list) => x = c
<1>1. Len(list) \in Nat /\ DOMAIN list = 1..Len(list)
    BY LenProperties
<1>2. CASE c \in Range(list)
    <2> DEFINE D == {i \in DOMAIN list : list[i] = c}
    <2>1. PICK k \in 1..Len(list) : list[k] = c
        BY <1>1, <1>2 DEF Range
    <2>2. D = {k}
        BY <1>1, <1>2, <2>1 DEF IsInjective
    <2>3. Unlist(list, c) = RemoveAt(list, k)
        <3>1. Min(D) = k
            BY <2>2 DEF Min
        <3>2. QED BY <1>2, <3>1 DEF Unlist
    <2> DEFINE t == RemoveAt(list, k)
    <2>4. /\ t \in Seq(1..n) /\ Len(t) = Len(list) - 1
          /\ \A i \in 1..(Len(list) - 1) : t[i] = IF i < k THEN list[i] ELSE list[i + 1]
        BY RemovedAt
    <2> HIDE DEF t
    <2>5. DOMAIN t = 1..(Len(list) - 1)
        BY <2>4, LenProperties
    <2>6. ASSUME NEW i \in 1..Len(list), i # k PROVE list[i] \in Range(t)
        <3>1. CASE i < k
            <4>1. i \in 1..(Len(list) - 1) /\ t[i] = list[i]
                BY <1>1, <2>4, <3>1
            <4>2. QED BY <2>5, <4>1 DEF Range
        <3>2. CASE i > k
            <4>1. /\ i - 1 \in 1..(Len(list) - 1) /\ ~(i - 1 < k) /\ (i - 1) + 1 = i
                BY <1>1, <3>2
            <4>2. t[i - 1] = list[i]
                BY <2>4, <4>1
            <4>3. QED BY <2>5, <4>1, <4>2 DEF Range
        <3>3. QED BY <1>1, <2>6, <3>1, <3>2
    <2>7. Range(list) \subseteq Range(t) \cup {c, c}
        BY <1>1, <2>1, <2>6 DEF Range
    <2>8. QED BY <2>3, <2>7 DEF t
<1>3. CASE c \notin Range(list) /\ list # <<>>
    <2>1. Unlist(list, c) = Front(list) /\ Front(list) = SubSeq(list, 1, Len(list) - 1)
        BY <1>3 DEF Unlist, Front
    <2>2. Len(list) > 0
        BY <1>3, EmptySeq
    <2>3. 0 \in Nat /\ Len(list) - 1 \in 0..Len(list) /\ 0 + 1 = 1
        BY <1>1, <2>2
    <2> DEFINE f == SubSeq(list, 0 + 1, Len(list) - 1)
    <2>4. f \in Seq(1..n) /\ Len(f) = (Len(list) - 1) - 0
          /\ \A i \in 1..((Len(list) - 1) - 0) : f[i] = list[0 + i]
        BY <2>3, SubSeqOf
    <2>5. Unlist(list, c) = f
        BY <2>1, <2>3
    <2> HIDE DEF f
    <2>6. DOMAIN f = 1..(Len(list) - 1) /\ \A i \in 1..(Len(list) - 1) : f[i] = list[i]
        BY <1>1, <2>4, LenProperties
    <2>7. \A i \in 1..Len(list) : i \in 1..(Len(list) - 1) \/ i = Len(list)
        <3> DEFINE m == Len(list)
        <3>1. m \in Nat
            BY <1>1
        <3> HIDE DEF m
        <3>2. \A i \in 1..m : i \in 1..(m - 1) \/ i = m
            BY <3>1
        <3>3. QED BY <3>2 DEF m
    <2>8. Range(list) \subseteq Range(f) \cup {c, list[Len(list)]}
        BY <1>1, <2>6, <2>7 DEF Range
    <2>9. QED BY <1>3, <2>5, <2>8
<1>4. CASE c \notin Range(list) /\ list = <<>>
    BY <1>4 DEF Range
<1>5. QED BY <1>2, <1>3, <1>4


\* The walk of the kill button signals a child or keeps it.
LEMMA KeptOrSignalled ==
    ASSUME NEW S, NEW s \in Seq(S)
    PROVE  Range(s) \subseteq Signalled(s) \cup Range(Kept(s))
<1>1. Len(s) \in Nat /\ DOMAIN s = 1..Len(s) /\ DOMAIN Kept(s) = 1..(Len(s) \div 2)
    BY LenProperties DEF Kept
<1>2. ASSUME NEW i \in 1..Len(s), i % 2 # 1 PROVE s[i] \in Range(Kept(s))
    <2>1. i = 2 * (i \div 2) /\ i \div 2 \in 1..(Len(s) \div 2)
        BY <1>1, <1>2
    <2>2. Kept(s)[i \div 2] = s[2 * (i \div 2)]
        BY <2>1 DEF Kept
    <2>3. QED BY <1>1, <2>1, <2>2 DEF Range
<1>3. QED BY <1>1, <1>2 DEF Range, Signalled

LEMMA SomeOfSeq ==
    ASSUME NEW S, NEW s \in Seq(S), NEW T, T \subseteq DOMAIN s
    PROVE  IsFiniteSet(T) /\ Cardinality(T) \in Nat
<1>1. Len(s) \in Nat /\ DOMAIN s = 1..Len(s)
    BY LenProperties
<1>2. IsFiniteSet(1..Len(s))
    BY <1>1, FS_Interval
<1>3. IsFiniteSet(T)
    BY <1>1, <1>2, FS_Subset
<1>4. QED BY <1>3, FS_CardinalityType

LEMMA OneMore ==
    ASSUME NEW S, NEW x, IsFiniteSet(S)
    PROVE  /\ IsFiniteSet(S \cup {x}) /\ Cardinality(S \cup {x}) \in Nat
           /\ Cardinality(S \cup {x}) <= Cardinality(S) + 1
<1>1. /\ IsFiniteSet(S \cup {x})
      /\ Cardinality(S \cup {x}) = IF x \in S THEN Cardinality(S) ELSE Cardinality(S) + 1
    BY FS_AddElement
<1>2. Cardinality(S \cup {x}) \in Nat /\ Cardinality(S) \in Nat
    BY <1>1, FS_CardinalityType
<1>3. QED BY <1>1, <1>2

\* One set does not outgrow another when it only changes a member for one, or
\* gets one more together with the other.
LEMMA Outweighed ==
    ASSUME NEW U, NEW E, NEW V, NEW F, NEW c, NEW x,
           IsFiniteSet(U), IsFiniteSet(E), IsFiniteSet(F),
           Cardinality(U) <= Cardinality(E), E \subseteq F,
           \/ V \subseteq U
           \/ c \in U /\ V \subseteq (U \ {c}) \cup {x}
           \/ c \in F \ E /\ V \subseteq U \cup {x}
    PROVE  Cardinality(V) <= Cardinality(F)
<1>1. /\ Cardinality(U) \in Nat /\ Cardinality(E) \in Nat /\ Cardinality(F) \in Nat
      /\ Cardinality(E) <= Cardinality(F)
    BY FS_CardinalityType, FS_Subset
<1>2. CASE V \subseteq U
    <2>1. Cardinality(V) <= Cardinality(U) /\ Cardinality(V) \in Nat
        BY <1>2, FS_Subset, FS_CardinalityType
    <2>2. QED BY <1>1, <2>1
<1>3. CASE c \in U /\ V \subseteq (U \ {c}) \cup {x}
    <2> DEFINE W == U \ {c}
    <2>1. IsFiniteSet(W) /\ Cardinality(W) = Cardinality(U) - 1
        BY <1>3, FS_RemoveElement
    <2> HIDE DEF W
    <2>2. /\ IsFiniteSet(W \cup {x}) /\ Cardinality(W \cup {x}) \in Nat
          /\ Cardinality(W \cup {x}) <= Cardinality(U)
        <3>1. /\ IsFiniteSet(W \cup {x}) /\ Cardinality(W \cup {x}) \in Nat
              /\ Cardinality(W \cup {x}) <= Cardinality(W) + 1
            BY <2>1, OneMore
        <3>2. QED BY <1>1, <2>1, <3>1
    <2>3. Cardinality(V) <= Cardinality(W \cup {x}) /\ Cardinality(V) \in Nat
        BY <1>3, <2>2, FS_Subset, FS_CardinalityType DEF W
    <2>4. QED BY <1>1, <2>2, <2>3
<1>4. CASE c \in F \ E /\ V \subseteq U \cup {x}
    <2>1. /\ IsFiniteSet(U \cup {x}) /\ Cardinality(U \cup {x}) \in Nat
          /\ Cardinality(U \cup {x}) <= Cardinality(U) + 1
        BY OneMore
    <2>2. Cardinality(V) <= Cardinality(U \cup {x}) /\ Cardinality(V) \in Nat
        BY <1>4, <2>1, FS_Subset, FS_CardinalityType
    <2>3. IsFiniteSet(E \cup {c}) /\ Cardinality(E \cup {c}) = Cardinality(E) + 1
        BY <1>4, FS_AddElement
    <2>4. Cardinality(E \cup {c}) <= Cardinality(F)
        BY <1>4, FS_Subset
    <2>5. QED BY <1>1, <2>1, <2>2, <2>3, <2>4
<1>5. QED BY <1>2, <1>3, <1>4

\* What an action does to the children of page b, for LostByKills.
Outweighs(b, c, x) ==
    /\ Ended(b) \subseteq Ended(b)'
    /\ \/ Unreached(b)' \subseteq Unreached(b)
       \/ c \in Unreached(b) /\ Unreached(b)' \subseteq (Unreached(b) \ {c}) \cup {x}
       \/ c \in Ended(b)' \ Ended(b) /\ Unreached(b)' \subseteq Unreached(b) \cup {x}

LEMMA LossStep ==
    ASSUME PluInv, ListInv', NEW b \in Browsers, connected[b] # "gone",
           NEW c, NEW x, Outweighs(b, c, x)
    PROVE  Cardinality(Unreached(b)') <= Cardinality(Ended(b)')
<1> DEFINE R == [by : Browsers, running : BOOLEAN, signalled : BOOLEAN]
<1>1. children \in Seq(R) /\ children' \in Seq(R)
    BY DEF PluInv, ListInv, PluTypeOK
<1>2. /\ Unreached(b) \subseteq DOMAIN children /\ Ended(b) \subseteq DOMAIN children
      /\ Ended(b)' \subseteq DOMAIN children'
    BY DEF Unreached, Ended, Own
<1> HIDE DEF R
<1>3. IsFiniteSet(Unreached(b)) /\ IsFiniteSet(Ended(b)) /\ IsFiniteSet(Ended(b)')
    BY <1>1, <1>2, SomeOfSeq
<1>4. Cardinality(Unreached(b)) <= Cardinality(Ended(b))
    BY DEF PluInv, LostByKills
<1>5. QED BY <1>3, <1>4, Outweighed DEF Outweighs

\* A new child is listed.
LEMMA ButtonLoses ==
    ASSUME PluInv, NEW b \in Browsers, Button(b), NEW a \in Browsers
    PROVE  Outweighs(a, b, b)
<1> DEFINE n == Len(children)
           child == [by |-> b, running |-> TRUE, signalled |-> FALSE]
           R == [by : Browsers, running : BOOLEAN, signalled : BOOLEAN]
<1>1. /\ children \in Seq(R) /\ child \in R /\ children' = Append(children, child)
      /\ chillens \in [Browsers -> Seq(1..MaxChildren)]
      /\ chillens' = [chillens EXCEPT ![b] = Append(chillens[b], n + 1)]
      /\ n + 1 \in 1..MaxChildren
    BY PluAssumption, LenProperties DEF PluInv, ListInv, PluTypeOK, Button
<1>2. /\ n \in Nat /\ DOMAIN children = 1..n /\ DOMAIN children' = 1..(n + 1)
      /\ children'[n + 1] = child /\ \A c \in 1..n : children'[c] = children[c]
    BY <1>1, AppendProperties, LenProperties
<1>3. Range(chillens[a]) \subseteq Range(chillens'[a])
      /\ (a = b => n + 1 \in Range(chillens'[a]))
    <2> DEFINE list == chillens[b]
    <2>1. list \in Seq(1..MaxChildren) /\ Len(list) \in Nat /\ DOMAIN list = 1..Len(list)
        BY <1>1, LenProperties
    <2> DEFINE longer == Append(list, n + 1)
    <2>2. /\ DOMAIN longer = 1..(Len(list) + 1) /\ longer[Len(list) + 1] = n + 1
          /\ \A i \in 1..Len(list) : longer[i] = list[i]
        BY <1>1, <2>1, AppendProperties, LenProperties
    <2> HIDE DEF longer, n
    <2>3. Range(list) \subseteq Range(longer) /\ n + 1 \in Range(longer)
        BY <2>1, <2>2 DEF Range
    <2>4. QED BY <1>1, <2>3 DEF longer, n
<1> HIDE DEF R, n
<1>4. \A c \in 1..(n + 1) : c \in 1..n \/ c = n + 1
    BY <1>2
<1>5. 1..n \subseteq 1..(n + 1)
    BY <1>2
<1>6. Ended(a) \subseteq Ended(a)'
    BY <1>2, <1>5 DEF Ended, Own
<1>7. ASSUME NEW d \in Unreached(a)' PROVE d \in Unreached(a)
    <2>1. /\ d \in 1..(n + 1) /\ children'[d].by = a /\ children'[d].running
          /\ ~children'[d].signalled /\ d \notin Range(chillens'[a])
        BY <1>2 DEF Unreached, Own
    <2>2. d \in 1..n
        <3>1. SUFFICES ASSUME d = n + 1 PROVE FALSE
            BY <1>4, <2>1
        <3>2. a = b
            BY <1>2, <2>1, <3>1
        <3>3. QED BY <1>3, <2>1, <3>1, <3>2
    <2>3. QED BY <1>2, <1>3, <2>1, <2>2 DEF Unreached, Own
<1>8. QED BY <1>6, <1>7 DEF Outweighs

\* A child that ends takes at most one off the list that it is not on itself.
LEMMA ExitLoses ==
    ASSUME PluInv, NEW c \in DOMAIN children, Exit(c), NEW a \in Browsers
    PROVE  \E x : Outweighs(a, c, x)
<1> DEFINE n == Len(children)
           b == children[c].by
           R == [by : Browsers, running : BOOLEAN, signalled : BOOLEAN]
<1>1. /\ children \in Seq(R) /\ DOMAIN children = 1..n /\ n \in Nat
      /\ chillens \in [Browsers -> Seq(1..MaxChildren)] /\ MaxChildren \in Nat
      /\ children' = [children EXCEPT ![c].running = FALSE] /\ children[c].running
      /\ chillens' = [chillens EXCEPT ![b] = Unlist(chillens[b], c)]
    BY PluAssumption, LenProperties DEF PluInv, ListInv, PluTypeOK, Exit
<1>2. \A d \in 1..n : children[d] \in R
    BY <1>1, ElementOfSeq
<1>3. /\ DOMAIN children' = 1..n
      /\ \A d \in 1..n : /\ children'[d].by = children[d].by
                         /\ children'[d].signalled = children[d].signalled
                         /\ children'[d].running <=> children[d].running /\ d # c
    BY <1>1, <1>2
<1>4. b \in Browsers
    BY <1>1, <1>2
<1>5. PICK x : /\ Range(chillens[b]) \subseteq Range(Unlist(chillens[b], c)) \cup {c, x}
               /\ c \in Range(chillens[b]) => x = c
    <2>1. chillens[b] \in Seq(1..MaxChildren) /\ IsInjective(chillens[b])
        BY <1>1, <1>4 DEF PluInv, ListInv, ListedAlive
    <2> HIDE DEF b
    <2>2. QED BY <1>1, <2>1, UnlistDropsOne
<1>6. Range(chillens[a]) \subseteq Range(chillens'[a]) \cup (IF a = b THEN {c, x} ELSE {})
    BY <1>1, <1>4, <1>5
<1> HIDE DEF n, R, b
<1>7. Ended(a) \subseteq Ended(a)'
    BY <1>1, <1>3 DEF Ended, Own
<1>8. ASSUME NEW d \in Unreached(a)'
      PROVE  d # c /\ (d \in Unreached(a) \/ (a = b /\ d = x))
    <2>1. /\ d \in 1..n /\ children'[d].by = a /\ children'[d].running
          /\ ~children'[d].signalled /\ d \notin Range(chillens'[a])
        BY <1>3 DEF Unreached, Own
    <2>2. d # c /\ children[d].by = a /\ children[d].running /\ ~children[d].signalled
        BY <1>3, <2>1
    <2>3. QED BY <1>1, <1>6, <2>1, <2>2 DEF Unreached, Own
<1>9. CASE a # b \/ c \in Range(chillens[b])
    <2>1. Unreached(a)' \subseteq Unreached(a)
        BY <1>5, <1>8, <1>9
    <2>2. QED BY <1>7, <2>1 DEF Outweighs
<1>10. CASE a = b /\ c \notin Range(chillens[b]) /\ ~children[c].signalled
    <2>1. c \in Unreached(a)
        BY <1>1, <1>10 DEF Unreached, Own, b
    <2>2. Unreached(a)' \subseteq (Unreached(a) \ {c}) \cup {x}
        BY <1>8
    <2>3. QED BY <1>7, <2>1, <2>2 DEF Outweighs
<1>11. CASE a = b /\ children[c].signalled
    <2>1. c \in Ended(a)' \ Ended(a)
        BY <1>1, <1>3, <1>11 DEF Ended, Own, b
    <2>2. Unreached(a)' \subseteq Unreached(a) \cup {x}
        BY <1>8
    <2>3. QED BY <1>7, <2>1, <2>2 DEF Outweighs
<1>12. QED BY <1>9, <1>10, <1>11

\* The kill button itself loses none.
LEMMA KillLoses ==
    ASSUME PluInv, NEW b \in Browsers, KillWorkers(b), NEW a \in Browsers
    PROVE  Outweighs(a, b, b)
<1> DEFINE list == chillens[b]
<1>1. /\ chillens \in [Browsers -> Seq(1..MaxChildren)]
      /\ children' = [c \in DOMAIN children |->
                        IF c \in Signalled(list) THEN [children[c] EXCEPT !.signalled = TRUE]
                        ELSE children[c]]
      /\ chillens' = [chillens EXCEPT ![b] = Kept(list)]
    BY DEF PluInv, ListInv, PluTypeOK, KillWorkers
<1>2. Range(list) \subseteq Signalled(list) \cup Range(Kept(list))
    BY <1>1, KeptOrSignalled
<1>3. \A c \in DOMAIN children : children[c] \in
             [by : Browsers, running : BOOLEAN, signalled : BOOLEAN]
    <2> DEFINE R == [by : Browsers, running : BOOLEAN, signalled : BOOLEAN]
    <2>1. children \in Seq(R)
        BY DEF PluInv, ListInv, PluTypeOK
    <2> HIDE DEF R
    <2>2. DOMAIN children = 1..Len(children) /\ \A c \in 1..Len(children) : children[c] \in R
        BY <2>1, LenProperties, ElementOfSeq
    <2>3. QED BY <2>2 DEF R
<1>4. /\ DOMAIN children' = DOMAIN children
      /\ \A c \in DOMAIN children :
            /\ children'[c].by = children[c].by /\ children'[c].running = children[c].running
            /\ children'[c].signalled <=> children[c].signalled \/ c \in Signalled(list)
    BY <1>1, <1>3
<1>5. Range(chillens[a]) \subseteq Signalled(list) \cup Range(chillens'[a])
    BY <1>1, <1>2
<1> HIDE DEF list
<1>6. Ended(a) \subseteq Ended(a)'
    BY <1>4 DEF Ended, Own
<1>7. ASSUME NEW d \in Unreached(a)' PROVE d \in Unreached(a)
    BY <1>4, <1>5 DEF Unreached, Own
<1>8. QED BY <1>6, <1>7 DEF Outweighs

LEMMA LostByKillsStep ==
    ASSUME PluInv, ListInv', [PluNext]_pluVars
    PROVE  LostByKills'
<1>1. SUFFICES ASSUME NEW a \in Browsers, connected'[a] # "gone"
               PROVE  Cardinality(Unreached(a)') <= Cardinality(Ended(a)')
    BY DEF LostByKills
<1>2. CASE \E b \in Browsers : SpawnFails(b)
    <2>1. connected[a] = "no" /\ connected'[a] = "no" /\ UNCHANGED children
        BY <1>1, <1>2 DEF SpawnFails
    <2>2. chillens[a] = <<>> /\ chillens'[a] = <<>>
        BY <2>1 DEF PluInv, ListInv, NoneListedYet
    <2>3. Unreached(a)' = Unreached(a) /\ Ended(a)' = Ended(a)
        BY <2>1, <2>2 DEF Unreached, Ended, Own
    <2>4. QED BY <2>1, <2>3 DEF PluInv, LostByKills
<1>3. CASE \E b \in Browsers : Button(b)
    BY <1>1, <1>3, ButtonLoses, LossStep DEF Button
<1>4. CASE \E c \in DOMAIN children : Exit(c)
    <2>1. PICK c \in DOMAIN children : Exit(c)
        BY <1>4
    <2>2. PICK x : Outweighs(a, c, x)
        BY <2>1, ExitLoses
    <2>3. connected[a] # "gone"
        BY <1>1, <2>1 DEF Exit
    <2>4. QED BY <2>2, <2>3, LossStep
<1>5. CASE \E b \in Browsers : KillWorkers(b)
    BY <1>1, <1>5, KillLoses, LossStep DEF KillWorkers
<1>6. CASE UNCHANGED childVars /\ (connected[a] = "gone" => connected'[a] = "gone")
    <2>1. Unreached(a)' = Unreached(a) /\ Ended(a)' = Ended(a)
        BY <1>6 DEF Unreached, Ended, Own, childVars
    <2>2. QED BY <1>1, <1>6, <2>1 DEF PluInv, LostByKills
<1>7. ASSUME \/ UNCHANGED pluVars
             \/ \E b \in Browsers :
                  PageRequest(b) \/ Watch(b) \/ PageClose(b) \/ WatchReports(b)
             \/ \E m \in 0..MaxMail : OutboxChanges(m)
      PROVE  UNCHANGED childVars /\ (connected[a] = "gone" => connected'[a] = "gone")
    BY <1>7 DEF pluVars, childVars, outboxVars, PageRequest, Watch, PageClose,
                WatchReports, OutboxChanges, PluInv, ListInv, PluTypeOK
<1>8. QED BY <1>2, <1>3, <1>4, <1>5, <1>6, <1>7 DEF PluNext

LEMMA PluInvariance == PluSpec => []PluInv
<1> USE PluAssumption
<1>1. PluInit => PluInv
    <2>1. ASSUME PluInit PROVE PluInv
        <3>1. <<>> \in Seq(1..MaxChildren) /\ IsInjective(<<>>) /\ Range(<<>>) = {}
            BY DEF IsInjective, Range
        <3>2. \A b \in Browsers : chillens[b] = <<>>
            BY <2>1 DEF PluInit
        <3>3. ListedAlive /\ NoneListedYet
            BY <3>1, <3>2 DEF ListedAlive, NoneListedYet
        <3>4. PluTypeOK
            BY <2>1, <3>1 DEF PluInit, PluTypeOK
        <3>5. \A b \in Browsers : Unreached(b) = {} /\ Ended(b) = {}
            BY <2>1 DEF PluInit, Unreached, Ended, Own
        <3>6. LostByKills
            BY <3>5, FS_EmptySet DEF LostByKills
        <3>7. QED BY <3>3, <3>4, <3>6 DEF PluInv, ListInv
    <2>2. QED BY <2>1
<1>2. ASSUME PluInv, [PluNext]_pluVars PROVE PluInv'
    <2>1. ListInv'
        BY <1>2, ListInvStep DEF PluInv
    <2>2. QED BY <1>2, <2>1, LostByKillsStep DEF PluInv
<1>3. QED BY <1>1, <1>2, PTL DEF PluSpec

\* process.kill never meets a process that is gone, no child is listed twice or
\* for two pages, and no more children run unlisted than were killed and have
\* ended, for any number of pages and processes (plu-server.js:86-87, 119,
\* 358-361).
THEOREM ListedAreRunning == PluSpec => []ListedRun
<1>1. PluInv => ListedRun
    BY DEF PluInv, ListInv, ListedRun
<1>2. QED BY <1>1, PluInvariance, PTL


-----------------------------------------------------------------------------
(* Division.                                                               *)

LEMMA Division ==
    ASSUME NEW k \in Nat \ {0}, NEW x \in Int
    PROVE  x % k \in 0..(k - 1) /\ x \div k \in Int /\ x = k * (x \div k) + (x % k)
OBVIOUS

LEMMA Remainder ==
    ASSUME NEW k \in Nat \ {0}, NEW q \in Int, NEW r \in 0..(k - 1)
    PROVE  (k * q + r) % k = r
OBVIOUS

LEMMA NextRemainder ==
    ASSUME NEW k \in Nat \ {0}, NEW x \in Nat
    PROVE  (x + 1) % k = ((x % k) + 1) % k
<1> DEFINE q == x \div k
           r == x % k
<1>1. q \in Int /\ r \in 0..(k - 1) /\ x = k * q + r
    BY Division
<1> HIDE DEF q, r
<1>2. CASE r = k - 1
    <2>1. x + 1 = k * (q + 1) + 0 /\ q + 1 \in Int /\ 0 \in 0..(k - 1)
        BY <1>1, <1>2
    <2>2. (k * (q + 1) + 0) % k = 0
        BY <2>1, Remainder
    <2>3. r + 1 = k * 1 + 0 /\ (k * 1 + 0) % k = 0
        BY <1>2, <2>1, Remainder
    <2>4. QED BY <2>1, <2>2, <2>3 DEF r
<1>3. CASE r # k - 1
    <2>1. x + 1 = k * q + (r + 1) /\ r + 1 \in 0..(k - 1)
        BY <1>1, <1>3
    <2>2. (k * q + (r + 1)) % k = r + 1
        BY <1>1, <2>1, Remainder
    <2>3. r + 1 = k * 0 + (r + 1) /\ (k * 0 + (r + 1)) % k = r + 1
        BY <1>1, <2>1, Remainder
    <2>4. QED BY <2>1, <2>2, <2>3 DEF r
<1>4. QED BY <1>2, <1>3

LEMMA SameRemainder ==
    ASSUME NEW k \in Nat \ {0}, NEW x \in Nat, NEW y \in Nat
    PROVE  (x - y) % k = 0 <=> x % k = y % k
<1> DEFINE q == x \div k
           r == x % k
           p == y \div k
           s == y % k
<1>1. q \in Int /\ r \in 0..(k - 1) /\ x = k * q + r
    BY Division
<1>2. p \in Int /\ s \in 0..(k - 1) /\ y = k * p + s
    BY Division
<1> HIDE DEF q, r, p, s
<1>3. CASE r >= s
    <2>1. x - y = k * (q - p) + (r - s) /\ r - s \in 0..(k - 1) /\ q - p \in Int
        BY <1>1, <1>2, <1>3
    <2>2. (k * (q - p) + (r - s)) % k = r - s
        BY <2>1, Remainder
    <2>3. QED BY <1>1, <1>2, <2>1, <2>2 DEF r, s
<1>4. CASE r < s
    <2>1. x - y = k * (q - p - 1) + (k + r - s) /\ k + r - s \in 0..(k - 1) /\ q - p - 1 \in Int
        BY <1>1, <1>2, <1>4
    <2>2. (k * (q - p - 1) + (k + r - s)) % k = k + r - s
        BY <2>1, Remainder
    <2>3. QED BY <1>1, <1>2, <1>4, <2>1, <2>2 DEF r, s
<1>5. QED BY <1>1, <1>2, <1>3, <1>4

-----------------------------------------------------------------------------
(* Counting and the greatest of a set.                                     *)

\* How many there are up to n, and up to the next.
LEMMA CountTo ==
    ASSUME NEW n \in Nat, NEW T
    PROVE  /\ Cardinality({j \in 1..n : j \in T}) \in Nat
           /\ Cardinality({j \in 1..(n + 1) : j \in T}) =
                Cardinality({j \in 1..n : j \in T}) + (IF n + 1 \in T THEN 1 ELSE 0)
<1> DEFINE A == {j \in 1..n : j \in T}
           B == {j \in 1..(n + 1) : j \in T}
<1>1. IsFiniteSet(A) /\ Cardinality(A) \in Nat
    <2>1. IsFiniteSet(1..n)
        BY FS_Interval
    <2>2. IsFiniteSet(A)
        BY <2>1, FS_Subset
    <2>3. QED BY <2>2, FS_CardinalityType
<1>2. CASE n + 1 \in T
    <2>1. B = A \cup {n + 1} /\ n + 1 \notin A
        BY <1>2
    <2> HIDE DEF A, B
    <2>2. Cardinality(B) = Cardinality(A) + 1
        BY <1>1, <2>1, FS_AddElement
    <2>3. QED BY <1>1, <1>2, <2>2 DEF A, B
<1>3. CASE n + 1 \notin T
    <2>1. B = A
        BY <1>3
    <2> HIDE DEF A, B
    <2>2. Cardinality(B) = Cardinality(A) + 0
        BY <1>1, <2>1
    <2>3. QED BY <1>1, <1>3, <2>2 DEF A, B
<1>4. QED BY <1>2, <1>3

\* The greatest element, as Max chooses it.
LEMMA MaxOf ==
    ASSUME NEW m \in Nat, NEW T \in SUBSET Nat, T # {}, \A x \in T : x <= m
    PROVE  Max(T) \in T /\ \A x \in T : x <= Max(T)
<1> DEFINE U == {u \in Nat : \A x \in T : x <= u}
<1>1. PICK u \in U : \A v \in U : u <= v
    <2>1. U \in SUBSET Nat /\ m \in U
        OBVIOUS
    <2> HIDE DEF U
    <2>2. QED BY <2>1, LeastNat
<1>2. u \in T
    <2>1. SUFFICES ASSUME u \notin T PROVE FALSE
        OBVIOUS
    <2>2. \A x \in T : x <= u - 1
        BY <1>1, <2>1
    <2>3. u - 1 \in Nat
        <3>1. PICK t \in T : TRUE
            OBVIOUS
        <3>2. t \in Nat /\ t <= u - 1 /\ u \in Nat
            BY <1>1, <2>2, <3>1
        <3>3. QED BY <3>2
    <2>4. u - 1 \in U
        BY <2>2, <2>3
    <2>5. QED BY <1>1, <2>3, <2>4
<1>3. \E t \in T : \A x \in T : t >= x
    BY <1>1, <1>2
<1>4. QED BY <1>3 DEF Max

-----------------------------------------------------------------------------
(* The positions.                                                          *)

\* The last sentence of a kind in the turns that had position q.
LatestIn(q, kind) ==
    LET same == {i \in DOMAIN log : sent[log[i]].kind = kind /\ TurnAt(i) % KeepPosits = q}
    IN  IF same = {} THEN 0 ELSE log[Max(same)]

\* Every position is what its turns brought, the current one and the others.
TurnsInv ==
    /\ mypos_idx = TurnAt(Len(log)) % KeepPosits
    /\ \A q \in 0..(KeepPosits - 1) :
         mypos[q] = [fix |-> LatestIn(q, "GGA"), motion |-> LatestIn(q, "RMC")]

\* What is on the wire or was understood has been sent.
SentInv ==
    /\ GpsTypeOK
    /\ \A i \in DOMAIN wire : wire[i].n \in DOMAIN sent
    /\ \A i \in DOMAIN log : log[i] \in DOMAIN sent

GpsInv == SentInv /\ TurnsInv

LEMMA LogFacts ==
    ASSUME SentInv
    PROVE  /\ Len(log) \in Nat /\ DOMAIN log = 1..Len(log)
           /\ Len(sent) \in Nat /\ DOMAIN sent = 1..Len(sent)
           /\ Len(wire) \in Nat /\ DOMAIN wire = 1..Len(wire)
           /\ \A i \in 1..Len(log) : log[i] \in 1..Len(sent)
           /\ \A i \in 1..Len(wire) : wire[i].n \in 1..Len(sent)
BY LenProperties DEF SentInv, GpsTypeOK

LEMMA TurnIsNat == ASSUME NEW i \in Nat PROVE TurnAt(i) \in Nat
<1> DEFINE T == {j \in 1..i : sent[log[j]].kind \in {"RMC", "void RMC"}}
<1>1. T = {j \in 1..i : j \in T}
    OBVIOUS
<1>2. Cardinality({j \in 1..i : j \in T}) \in Nat
    <2> HIDE DEF T
    <2>1. QED BY CountTo
<1>3. QED BY <1>1, <1>2 DEF TurnAt

\* A sentence more on the wire changes no turn.
LEMMA SendTurns ==
    ASSUME SentInv, UNCHANGED log, NEW s, sent' = Append(sent, s)
    PROVE  /\ \A i \in 0..Len(log) : TurnAt(i)' = TurnAt(i)
           /\ \A q, kind : LatestIn(q, kind)' = LatestIn(q, kind)
<1>1. \A i \in 1..Len(log) : sent'[log'[i]] = sent[log[i]]
    <2>1. \A n \in 1..Len(sent) : sent'[n] = sent[n]
        BY AppendProperties DEF SentInv, GpsTypeOK
    <2>2. QED BY <2>1, LogFacts
<1>2. \A i \in 0..Len(log) : TurnAt(i)' = TurnAt(i)
    <2>1. ASSUME NEW i \in 0..Len(log) PROVE TurnAt(i)' = TurnAt(i)
        <3>1. 1..i \subseteq 1..Len(log)
            BY LogFacts
        <3>2. {j \in 1..i : sent'[log'[j]].kind \in {"RMC", "void RMC"}}
                = {j \in 1..i : sent[log[j]].kind \in {"RMC", "void RMC"}}
            BY <1>1, <3>1
        <3>3. QED BY <3>2 DEF TurnAt
    <2>2. QED BY <2>1
<1>3. ASSUME NEW q, NEW kind PROVE LatestIn(q, kind)' = LatestIn(q, kind)
    <2> DEFINE same == {i \in DOMAIN log : sent[log[i]].kind = kind /\ TurnAt(i) % KeepPosits = q}
               same1 == {i \in DOMAIN log' : sent'[log'[i]].kind = kind
                                               /\ TurnAt(i)' % KeepPosits = q}
    <2>1. same1 = same
        <3>1. DOMAIN log' = 1..Len(log) /\ DOMAIN log = 1..Len(log)
            BY LogFacts
        <3>2. ASSUME NEW i \in 1..Len(log) PROVE i \in same1 <=> i \in same
            <4>1. TurnAt(i)' = TurnAt(i)
                BY <1>2, LogFacts
            <4>2. sent'[log'[i]].kind = sent[log[i]].kind
                BY <1>1
            <4>3. QED BY <3>1, <4>1, <4>2
        <3>3. same1 \subseteq 1..Len(log) /\ same \subseteq 1..Len(log)
            BY <3>1
        <3> HIDE DEF same, same1
        <3>4. QED BY <3>2, <3>3
    <2>2. LatestIn(q, kind) = IF same = {} THEN 0 ELSE log[Max(same)]
        BY DEF LatestIn
    <2>3. LatestIn(q, kind)' = IF same1 = {} THEN 0 ELSE log'[Max(same1)]
        BY DEF LatestIn
    <2> HIDE DEF same, same1
    <2>4. QED BY <2>1, <2>2, <2>3
<1>4. QED BY <1>2, <1>3

\* A sentence that is understood: an RMC begins a turn.
LEMMA ParseTurns ==
    ASSUME SentInv, UNCHANGED sent, NEW n \in DOMAIN sent, log' = Append(log, n),
           NEW m \in Nat, m = Len(log)
    PROVE  /\ \A i \in 0..m : TurnAt(i)' = TurnAt(i)
           /\ TurnAt(m + 1)' = TurnAt(m) + (IF Advances(sent[n].kind) THEN 1 ELSE 0)
           /\ DOMAIN log' = 1..(m + 1) /\ Len(log') = m + 1
           /\ \A i \in 1..m : log'[i] = log[i]
           /\ log'[m + 1] = n
<1>1. /\ Len(log') = m + 1 /\ DOMAIN log' = 1..(m + 1)
      /\ \A i \in 1..m : log'[i] = log[i]
      /\ log'[m + 1] = n
    BY AppendProperties, LenProperties DEF SentInv, GpsTypeOK
<1>2. m \in Nat
    OBVIOUS
<1>3. ASSUME NEW i \in 0..m PROVE TurnAt(i)' = TurnAt(i)
    <2>1. \A j \in 1..i : j \in 1..m
        BY <1>2
    <2>2. {j \in 1..i : sent'[log'[j]].kind \in {"RMC", "void RMC"}}
            = {j \in 1..i : sent[log[j]].kind \in {"RMC", "void RMC"}}
        BY <1>1, <2>1
    <2>3. QED BY <2>2 DEF TurnAt
<1> DEFINE T == {j \in 1..(m + 1) : sent[log'[j]].kind \in {"RMC", "void RMC"}}
<1>4. TurnAt(m + 1)' = Cardinality({j \in 1..(m + 1) : j \in T})
    <2>1. {j \in 1..(m + 1) : sent'[log'[j]].kind \in {"RMC", "void RMC"}}
            = {j \in 1..(m + 1) : j \in T}
        OBVIOUS
    <2>2. QED BY <2>1 DEF TurnAt
<1>5. TurnAt(m) = Cardinality({j \in 1..m : j \in T})
    <2>1. {j \in 1..m : sent[log[j]].kind \in {"RMC", "void RMC"}} = {j \in 1..m : j \in T}
        <3>1. \A j \in 1..m : j \in 1..(m + 1) /\ log'[j] = log[j]
            BY <1>1, <1>2
        <3>2. QED BY <3>1
    <2>2. QED BY <2>1 DEF TurnAt
<1>6. m + 1 \in T <=> Advances(sent[n].kind)
    <2>1. m + 1 \in 1..(m + 1)
        BY <1>2
    <2>2. QED BY <1>1, <2>1 DEF Advances
<1> HIDE DEF T
<1>7. TurnAt(m + 1)' = TurnAt(m) + (IF m + 1 \in T THEN 1 ELSE 0)
    BY <1>2, <1>4, <1>5, CountTo
<1>8. QED BY <1>1, <1>3, <1>6, <1>7

\* ... and it is the last of its kind in the turn it belongs to.
LEMMA ParseLatest ==
    ASSUME GpsInv, UNCHANGED sent, NEW n \in DOMAIN sent, log' = Append(log, n),
           NEW m \in Nat, m = Len(log), NEW q \in 0..(KeepPosits - 1), NEW kind
    PROVE  LatestIn(q, kind)' =
             IF sent[n].kind = kind /\ TurnAt(m + 1)' % KeepPosits = q
               THEN n ELSE LatestIn(q, kind)
<1> DEFINE same == {i \in DOMAIN log : sent[log[i]].kind = kind /\ TurnAt(i) % KeepPosits = q}
           same1 == {i \in DOMAIN log' : sent'[log'[i]].kind = kind
                                           /\ TurnAt(i)' % KeepPosits = q}
           now == sent[n].kind = kind /\ TurnAt(m + 1)' % KeepPosits = q
<1>1. /\ m \in Nat /\ DOMAIN log = 1..m /\ DOMAIN log' = 1..(m + 1) /\ Len(log') = m + 1
      /\ \A i \in 1..m : log'[i] = log[i] /\ TurnAt(i)' = TurnAt(i)
      /\ log'[m + 1] = n
    <2>1. \A i \in 1..m : i \in 0..m
        BY LogFacts DEF GpsInv
    <2>2. QED BY <2>1, LogFacts, ParseTurns DEF GpsInv
<1>2. LatestIn(q, kind) = IF same = {} THEN 0 ELSE log[Max(same)]
    BY DEF LatestIn
<1>3. LatestIn(q, kind)' = IF same1 = {} THEN 0 ELSE log'[Max(same1)]
    BY DEF LatestIn
<1>4. \A i \in 1..m : i \in same1 <=> i \in same
    <2>1. \A i \in 1..m : i \in 1..(m + 1)
        BY <1>1
    <2>2. QED BY <1>1, <2>1
<1>5. m + 1 \in same1 <=> now
    <2>1. m + 1 \in 1..(m + 1)
        BY <1>1
    <2>2. QED BY <1>1, <2>1
<1>6. same \subseteq 1..m /\ same1 \subseteq 1..(m + 1)
    BY <1>1
<1> HIDE DEF same, same1, now
<1>7. CASE now
    <2>1. same1 \in SUBSET Nat /\ same1 # {} /\ \A x \in same1 : x <= m + 1
        <3>1. m \in Nat
            BY <1>1
        <3>2. \A x \in 1..(m + 1) : x \in Nat /\ x <= m + 1
            BY <3>1
        <3>3. m + 1 \in same1
            BY <1>5, <1>7
        <3>4. QED BY <1>6, <3>2, <3>3, Zenon
    <2>2. Max(same1) \in same1 /\ m + 1 <= Max(same1)
        BY <1>1, <1>5, <1>7, <2>1, MaxOf
    <2>3. Max(same1) = m + 1
        <3>1. Max(same1) \in 1..(m + 1)
            BY <1>6, <2>2
        <3>2. QED BY <2>2, <3>1
    <2>4. QED BY <1>1, <1>3, <1>7, <2>1, <2>3 DEF now
<1>8. CASE ~now
    <2>1. same1 = same
        <3>1. \A i \in 1..(m + 1) : i \in 1..m \/ i = m + 1
            BY <1>1
        <3>2. QED BY <1>4, <1>5, <1>6, <1>8, <3>1
    <2>2. CASE same = {}
        BY <1>1, <1>2, <1>3, <1>8, <2>1, <2>2 DEF now
    <2>3. CASE same # {}
        <3>1. same \in SUBSET Nat /\ \A x \in same : x <= m
            BY <1>1, <1>6
        <3>2. Max(same) \in 1..m
            BY <1>1, <1>6, <2>3, <3>1, MaxOf
        <3>3. QED BY <1>1, <1>2, <1>3, <1>8, <2>1, <2>3, <3>2 DEF now
    <2>4. QED BY <2>2, <2>3
<1>9. QED BY <1>1, <1>7, <1>8 DEF now

LEMMA TypeFacts ==
    ASSUME SentInv
    PROVE  /\ mypos \in [0..(KeepPosits - 1) -> Posit] /\ mypos_idx \in 0..(KeepPosits - 1)
           /\ gps_idx \in 0..BufMax
           /\ wire \in Seq(Unit) /\ log \in Seq(1..MaxSentences)
           /\ Len(sent) \in Nat
           /\ \A n \in DOMAIN sent : sent[n].kind \in Kinds
<1>1. sent \in Seq([kind : Kinds, len : Nat, good : BOOLEAN])
    BY DEF SentInv, GpsTypeOK
<1>2. \A n \in DOMAIN sent : sent[n] \in [kind : Kinds, len : Nat, good : BOOLEAN]
    BY <1>1, LenProperties, ElementOfSeq
<1>3. QED BY <1>1, <1>2, LenProperties DEF SentInv, GpsTypeOK

LEMMA SendKeepsTurns ==
    ASSUME GpsInv, NEW s \in Sentences, Send(s)
    PROVE  GpsInv'
<1> USE GpsAssumption
<1> DEFINE R == [kind : Kinds, len : Nat, good : BOOLEAN]
           u == Units(Len(sent) + 1, s)
<1>1. /\ sent \in Seq(R) /\ s \in R /\ Len(sent) \in Nat /\ Len(sent) < MaxSentences
      /\ wire \in Seq(Unit) /\ Len(wire) \in Nat
    BY LogFacts DEF GpsInv, SentInv, GpsTypeOK, Send
<1>2. /\ sent' = Append(sent, s) /\ wire' = wire \o u
      /\ UNCHANGED <<gps_type, gps_idx, mypos, mypos_idx, log>>
    BY DEF Send
<1>3. /\ sent' \in Seq(R) /\ Len(sent') = Len(sent) + 1
      /\ DOMAIN sent' = 1..(Len(sent) + 1)
      /\ DOMAIN sent \subseteq DOMAIN sent'
    BY <1>1, <1>2, AppendProperties, LenProperties
<1>4. /\ u \in Seq(Unit) /\ Len(u) \in Nat /\ \A i \in 1..Len(u) : u[i].n = Len(sent) + 1
    <2>1. s.len + 1 \in Nat
        BY <1>1
    <2>2. \A k \in 1..(s.len + 1) :
              [n |-> Len(sent) + 1, k |-> IF k > s.len THEN End ELSE k] \in Unit
        BY <1>1, <2>1 DEF Unit, End
    <2>3. u = [k \in 1..(s.len + 1) |-> [n |-> Len(sent) + 1, k |-> IF k > s.len THEN End ELSE k]]
        BY DEF Units
    <2> HIDE DEF u
    <2>4. u \in Seq(Unit)
        BY <2>1, <2>2, <2>3, IsASeq
    <2>5. DOMAIN u = 1..(s.len + 1) /\ \A i \in 1..(s.len + 1) : u[i].n = Len(sent) + 1
        BY <2>3
    <2>6. QED BY <2>4, <2>5, LenProperties
<1> HIDE DEF u, R
<1>5. /\ wire' \in Seq(Unit) /\ Len(wire') = Len(wire) + Len(u)
      /\ \A i \in 1..(Len(wire) + Len(u)) :
           wire'[i] = IF i <= Len(wire) THEN wire[i] ELSE u[i - Len(wire)]
    BY <1>1, <1>2, <1>4, ConcatProperties
<1>6. \A i \in DOMAIN wire' : wire'[i].n \in DOMAIN sent'
    <2>1. DOMAIN wire' = 1..(Len(wire) + Len(u))
        BY <1>5, LenProperties
    <2>2. ASSUME NEW i \in 1..(Len(wire) + Len(u)) PROVE wire'[i].n \in DOMAIN sent'
        <3>1. CASE i <= Len(wire)
            <4>1. i \in 1..Len(wire) /\ wire[i].n \in DOMAIN sent
                BY <1>1, <3>1, LogFacts DEF GpsInv
            <4>2. QED BY <1>3, <1>5, <3>1, <4>1
        <3>2. CASE ~(i <= Len(wire))
            <4>1. i - Len(wire) \in 1..Len(u)
                BY <1>1, <1>4, <3>2
            <4>2. wire'[i].n = Len(sent) + 1
                BY <1>4, <1>5, <3>2, <4>1
            <4>3. QED BY <1>1, <1>3, <4>2
        <3>3. QED BY <3>1, <3>2
    <2>3. QED BY <2>1, <2>2
<1>7. \A i \in DOMAIN log' : log'[i] \in DOMAIN sent'
    BY <1>2, <1>3 DEF GpsInv, SentInv
<1>8. SentInv'
    BY <1>2, <1>3, <1>5, <1>6, <1>7 DEF GpsInv, SentInv, GpsTypeOK, R
<1>9. TurnsInv'
    <2>1. /\ \A i \in 0..Len(log) : TurnAt(i)' = TurnAt(i)
          /\ \A q, kind : LatestIn(q, kind)' = LatestIn(q, kind)
        BY <1>2, SendTurns DEF GpsInv
    <2>2. TurnAt(Len(log))' = TurnAt(Len(log))
        <3>1. PICK m \in Nat : m = Len(log)
            BY LogFacts DEF GpsInv
        <3>2. m \in 0..Len(log) /\ TurnAt(m)' = TurnAt(m)
            BY <2>1, <3>1
        <3>3. Len(log)' = m
            BY <1>2, <3>1
        <3>4. TurnAt(Len(log))' = TurnAt(m)'
            BY <3>3 DEF TurnAt
        <3>5. QED BY <3>1, <3>2, <3>4
    <2>3. QED BY <1>2, <2>1, <2>2 DEF GpsInv, TurnsInv
<1>10. QED BY <1>8, <1>9 DEF GpsInv

\* What is parsed is what was sent, and fills the position of its turn.
LEMMA ParseKeeps ==
    ASSUME GpsInv, UNCHANGED sent, NEW k \in Nat, k <= Len(wire),
           Parse(SubSeq(wire, 1, k))
    PROVE  /\ TurnsInv'
           /\ mypos' \in [0..(KeepPosits - 1) -> Posit] /\ mypos_idx' \in 0..(KeepPosits - 1)
           /\ log' \in Seq(1..MaxSentences) /\ \A i \in DOMAIN log' : log'[i] \in DOMAIN sent
<1> USE GpsAssumption
<1> DEFINE line == SubSeq(wire, 1, k)
<1>1. CASE ~Understood(line)
    <2>1. UNCHANGED <<mypos, mypos_idx, log>>
        BY <1>1 DEF Parse
    <2>2. TurnsInv'
        <3>1. \A q, kind : LatestIn(q, kind)' = LatestIn(q, kind)
            BY <2>1 DEF LatestIn, TurnAt
        <3>2. TurnAt(Len(log))' = TurnAt(Len(log))
            BY <2>1 DEF TurnAt
        <3>3. QED BY <2>1, <3>1, <3>2 DEF GpsInv, TurnsInv
    <2>3. QED BY <2>1, <2>2, TypeFacts DEF GpsInv, SentInv
<1>2. CASE Understood(line)
    <2> DEFINE n == line[1].n
               i == IF Advances(sent[n].kind) THEN (mypos_idx + 1) % KeepPosits ELSE mypos_idx
    <2>1. n \in DOMAIN sent /\ n \in 1..MaxSentences
        <3>1. wire \in Seq(Unit) /\ 0 \in Nat /\ k \in 0..Len(wire) /\ 0 + 1 = 1
            BY TypeFacts, LogFacts DEF GpsInv
        <3> DEFINE l == SubSeq(wire, 0 + 1, k)
        <3>2. l \in Seq(Unit) /\ Len(l) = k - 0 /\ \A j \in 1..(k - 0) : l[j] = wire[0 + j]
            BY <3>1, SubSeqOf
        <3>3. l = line
            BY <3>1
        <3>4. l # <<>>
            BY <1>2, <3>3 DEF Understood
        <3> HIDE DEF l
        <3>5. k > 0
            BY <3>2, <3>4, EmptySeq
        <3>6. 1 \in 1..(k - 0) /\ 0 + 1 = 1 /\ 1 \in 1..Len(wire)
            BY <3>1, <3>5, LogFacts DEF GpsInv
        <3>7. line[1] = wire[1]
            BY <3>2, <3>3, <3>6
        <3>8. wire[1] \in Unit /\ wire[1].n \in DOMAIN sent
            BY <3>1, <3>6, ElementOfSeq, LogFacts DEF GpsInv
        <3>9. QED BY <3>7, <3>8 DEF Unit
    <2>2. /\ mypos_idx' = i /\ mypos' = [mypos EXCEPT ![i] = Filled(mypos[i], n)]
          /\ log' = Append(log, n)
        BY <1>2 DEF Parse
    <2> HIDE DEF n, line
    <2>3. /\ mypos \in [0..(KeepPosits - 1) -> Posit] /\ mypos_idx \in 0..(KeepPosits - 1)
          /\ log \in Seq(1..MaxSentences) /\ sent[n].kind \in Kinds
        BY <2>1, TypeFacts DEF GpsInv
    <2>4. i \in 0..(KeepPosits - 1)
        BY <2>3, Division
    <2>5. PICK m \in Nat : m = Len(log)
        BY LogFacts DEF GpsInv
    <2>6. /\ TurnAt(m + 1)' = TurnAt(m) + (IF Advances(sent[n].kind) THEN 1 ELSE 0)
          /\ DOMAIN log' = 1..(m + 1) /\ Len(log') = m + 1
          /\ \A j \in 1..m : log'[j] = log[j]
          /\ log'[m + 1] = n
        BY <2>1, <2>2, <2>5, ParseTurns DEF GpsInv
    <2>7. TurnAt(m) \in Nat /\ mypos_idx = TurnAt(m) % KeepPosits
        BY <2>5, TurnIsNat DEF GpsInv, TurnsInv
    <2>8. TurnAt(m + 1)' % KeepPosits = i
        <3>1. CASE Advances(sent[n].kind)
            BY <2>6, <2>7, <3>1, NextRemainder
        <3>2. CASE ~Advances(sent[n].kind)
            BY <2>6, <2>7, <3>2
        <3>3. QED BY <3>1, <3>2
    <2>9. \A q \in 0..(KeepPosits - 1) : \A kind :
            LatestIn(q, kind)' = IF sent[n].kind = kind /\ q = i THEN n ELSE LatestIn(q, kind)
        <3>1. ASSUME NEW q \in 0..(KeepPosits - 1), NEW kind
              PROVE  LatestIn(q, kind)' = IF sent[n].kind = kind /\ TurnAt(m + 1)' % KeepPosits = q
                                            THEN n ELSE LatestIn(q, kind)
            BY <2>1, <2>2, <2>5, ParseLatest
        <3>2. QED BY <2>8, <3>1
    <2> HIDE DEF i
    <2>10. \A q \in 0..(KeepPosits - 1) :
             mypos[q] = [fix |-> LatestIn(q, "GGA"), motion |-> LatestIn(q, "RMC")]
        BY DEF GpsInv, TurnsInv
    <2>11. ASSUME NEW q \in 0..(KeepPosits - 1)
           PROVE  mypos'[q] = [fix |-> LatestIn(q, "GGA")', motion |-> LatestIn(q, "RMC")']
        <3>1. mypos'[q] = IF q = i THEN Filled(mypos[q], n) ELSE mypos[q]
            BY <2>2, <2>3, <2>4
        <3>2. CASE q # i
            BY <2>9, <2>10, <3>1, <3>2
        <3>3. CASE q = i
            <4> DEFINE a == LatestIn(q, "GGA")
                       b == LatestIn(q, "RMC")
            <4>0. mypos[q] = [fix |-> a, motion |-> b] /\ mypos'[q] = Filled(mypos[q], n)
                BY <2>10, <3>1, <3>3
            <4>1. CASE sent[n].kind = "GGA"
                <5>1. LatestIn(q, "GGA")' = n /\ LatestIn(q, "RMC")' = b
                    BY <2>9, <3>3, <4>1
                <5>2. Filled(mypos[q], n) = [mypos[q] EXCEPT !.fix = n]
                    BY <4>1 DEF Filled
                <5> HIDE DEF a, b
                <5>3. mypos'[q] = [fix |-> n, motion |-> b]
                    BY <4>0, <5>2
                <5>4. QED BY <5>1, <5>3
            <4>2. CASE sent[n].kind = "RMC"
                <5>1. LatestIn(q, "GGA")' = a /\ LatestIn(q, "RMC")' = n
                    BY <2>9, <3>3, <4>2
                <5>2. Filled(mypos[q], n) = [mypos[q] EXCEPT !.motion = n]
                    BY <4>2 DEF Filled
                <5> HIDE DEF a, b
                <5>3. mypos'[q] = [fix |-> a, motion |-> n]
                    BY <4>0, <5>2
                <5>4. QED BY <5>1, <5>3
            <4>3. CASE sent[n].kind \notin {"GGA", "RMC"}
                <5>1. LatestIn(q, "GGA")' = a /\ LatestIn(q, "RMC")' = b
                    BY <2>9, <4>3
                <5>2. Filled(mypos[q], n) = mypos[q]
                    BY <4>3 DEF Filled
                <5>3. QED BY <4>0, <5>1, <5>2
            <4>4. QED BY <4>1, <4>2, <4>3
        <3>4. QED BY <3>2, <3>3
    <2>12. TurnsInv'
        <3>1. TurnAt(Len(log))' = TurnAt(m + 1)'
            BY <2>6 DEF TurnAt
        <3>2. mypos_idx' = TurnAt(Len(log))' % KeepPosits
            BY <2>2, <2>8, <3>1
        <3>3. QED BY <2>11, <3>2 DEF TurnsInv
    <2>13. mypos' \in [0..(KeepPosits - 1) -> Posit]
        <3>1. Filled(mypos[i], n) \in Posit
            BY <2>1, <2>3, <2>4 DEF Filled, Posit
        <3>2. QED BY <2>2, <2>3, <3>1
    <2>14. log' \in Seq(1..MaxSentences)
        BY <2>1, <2>2, <2>3, AppendProperties DEF n
    <2>15. \A j \in DOMAIN log' : log'[j] \in DOMAIN sent
        <3>1. \A j \in 1..(m + 1) : j \in 1..m \/ j = m + 1
            BY <2>5
        <3>2. \A j \in 1..m : log[j] \in DOMAIN sent
            BY <2>5, LogFacts DEF GpsInv
        <3>3. QED BY <2>1, <2>6, <3>1, <3>2
    <2>16. QED BY <2>2, <2>4, <2>12, <2>13, <2>14, <2>15
<1>3. QED BY <1>1, <1>2

\* Reading takes from the front of the wire.
LEMMA ReadTakes ==
    ASSUME SentInv, UNCHANGED sent, NEW n \in 1..Len(wire),
           wire' = SubSeq(wire, n + 1, Len(wire))
    PROVE  wire' \in Seq(Unit) /\ \A i \in DOMAIN wire' : wire'[i].n \in DOMAIN sent
<1>1. /\ wire \in Seq(Unit) /\ n \in Nat /\ Len(wire) \in n..Len(wire) /\ Len(wire) \in Nat
      /\ \A i \in 1..Len(wire) : wire[i].n \in DOMAIN sent
    BY LogFacts, TypeFacts
<1>2. /\ wire' \in Seq(Unit) /\ Len(wire') = Len(wire) - n
      /\ \A i \in 1..(Len(wire) - n) : wire'[i] = wire[n + i]
    BY <1>1, SubSeqOf
<1>3. DOMAIN wire' = 1..(Len(wire) - n)
    BY <1>2, LenProperties
<1>4. \A i \in 1..(Len(wire) - n) : n + i \in 1..Len(wire)
    BY <1>1
<1>5. QED BY <1>1, <1>2, <1>3, <1>4

LEMMA ReadSerialKeeps == ASSUME GpsInv, ReadSerial PROVE GpsInv'
<1> USE GpsAssumption
<1>1. UNCHANGED <<gps_type, sent>>
    BY DEF ReadSerial
<1>2. PICK n \in 1..Min({ReadMax, Len(wire)}) :
        LET ends == {i \in 1..n : wire[i].k = End}
        IN  /\ wire' = SubSeq(wire, n + 1, Len(wire))
            /\ IF ends # {}
                 THEN /\ Parse(SubSeq(wire, 1, Min(ends) - 1))
                      /\ gps_idx' = n - Min(ends)
                 ELSE /\ gps_idx' = Room(n) + n
                      /\ UNCHANGED <<mypos, mypos_idx, log>>
    BY DEF ReadSerial
<1> DEFINE ends == {i \in 1..n : wire[i].k = End}
<1>3. n \in 1..Len(wire) /\ n <= ReadMax
    <2>1. {ReadMax, Len(wire)} \in SUBSET Nat /\ Len(wire) \in Nat /\ ReadMax \in Nat
        BY LogFacts DEF GpsInv
    <2>2. \A m \in {ReadMax, Len(wire)} : Min({ReadMax, Len(wire)}) <= m
        BY <2>1, MinOf
    <2>3. Min({ReadMax, Len(wire)}) \in Nat
        BY <2>1, MinOf
    <2>4. QED BY <2>1, <2>2, <2>3
<1>4. wire' \in Seq(Unit) /\ \A i \in DOMAIN wire' : wire'[i].n \in DOMAIN sent
    BY <1>1, <1>2, <1>3, ReadTakes DEF GpsInv
<1>5. CASE ends # {}
    <2>1. Min(ends) \in 1..n
        BY <1>5, MinOf
    <2>2. Min(ends) - 1 \in Nat /\ Min(ends) - 1 <= Len(wire)
        <3>1. Len(wire) \in Nat
            BY LogFacts DEF GpsInv
        <3> HIDE DEF ends
        <3>2. QED BY <1>3, <2>1, <3>1
    <2>3. Parse(SubSeq(wire, 1, Min(ends) - 1)) /\ gps_idx' = n - Min(ends)
        BY <1>2, <1>5
    <2>4. gps_idx' \in 0..BufMax
        BY <1>3, <2>1, <2>3
    <2> HIDE DEF ends
    <2>5. /\ TurnsInv'
          /\ mypos' \in [0..(KeepPosits - 1) -> Posit] /\ mypos_idx' \in 0..(KeepPosits - 1)
          /\ log' \in Seq(1..MaxSentences) /\ \A i \in DOMAIN log' : log'[i] \in DOMAIN sent
        BY <1>1, <2>2, <2>3, ParseKeeps
    <2>6. QED BY <1>1, <1>4, <2>4, <2>5 DEF GpsInv, SentInv, GpsTypeOK
<1>6. CASE ends = {}
    <2>1. gps_idx' = Room(n) + n /\ UNCHANGED <<mypos, mypos_idx, log>>
        BY <1>2, <1>6
    <2>2. gps_idx' \in 0..BufMax
        <3>1. gps_idx \in 0..BufMax
            BY TypeFacts DEF GpsInv
        <3>2. QED BY <1>3, <2>1, <3>1 DEF Room
    <2>3. TurnsInv'
        <3>1. \A q, kind : LatestIn(q, kind)' = LatestIn(q, kind)
            BY <1>1, <2>1 DEF LatestIn, TurnAt
        <3>2. TurnAt(Len(log))' = TurnAt(Len(log))
            BY <1>1, <2>1 DEF TurnAt
        <3>3. QED BY <2>1, <3>1, <3>2 DEF GpsInv, TurnsInv
    <2>4. QED BY <1>1, <1>4, <2>1, <2>2, <2>3 DEF GpsInv, SentInv, GpsTypeOK
<1>7. QED BY <1>5, <1>6

LEMMA ReadGpsdKeeps == ASSUME GpsInv, ReadGpsd PROVE GpsInv'
<1> USE GpsAssumption
<1>1. UNCHANGED <<gps_type, sent>>
    BY DEF ReadGpsd
<1>2. PICK n \in {i \in DOMAIN wire : wire[i].k = End} :
        LET end == Min({i \in 1..n : wire[i].k = End})
        IN  /\ wire' = SubSeq(wire, n + 1, Len(wire))
            /\ Parse(SubSeq(wire, 1, end - 1))
            /\ gps_idx' \in (n - end)..BufMax
    BY DEF ReadGpsd
<1> DEFINE ends == {i \in 1..n : wire[i].k = End}
<1>3. n \in 1..Len(wire) /\ Len(wire) \in Nat
    BY LogFacts DEF GpsInv
<1>4. wire' \in Seq(Unit) /\ \A i \in DOMAIN wire' : wire'[i].n \in DOMAIN sent
    BY <1>1, <1>2, <1>3, ReadTakes DEF GpsInv
<1>5. Min(ends) \in 1..n
    <2>1. n \in ends /\ ends \in SUBSET Nat
        BY <1>2, <1>3
    <2>2. Min(ends) \in ends
        BY <2>1, MinOf
    <2>3. QED BY <2>2
<1>6. Parse(SubSeq(wire, 1, Min(ends) - 1)) /\ gps_idx' \in (n - Min(ends))..BufMax
    BY <1>2
<1>7. gps_idx' \in 0..BufMax /\ Min(ends) - 1 \in Nat /\ Min(ends) - 1 <= Len(wire)
    BY <1>3, <1>5, <1>6
<1> HIDE DEF ends
<1>8. /\ TurnsInv'
      /\ mypos' \in [0..(KeepPosits - 1) -> Posit] /\ mypos_idx' \in 0..(KeepPosits - 1)
      /\ log' \in Seq(1..MaxSentences) /\ \A i \in DOMAIN log' : log'[i] \in DOMAIN sent
    BY <1>1, <1>6, <1>7, ParseKeeps
<1>9. QED BY <1>1, <1>4, <1>7, <1>8 DEF GpsInv, SentInv, GpsTypeOK

LEMMA GpsStutters == ASSUME GpsInv, UNCHANGED gpsVars PROVE GpsInv'
<1>1. SentInv'
    BY DEF gpsVars, GpsInv, SentInv, GpsTypeOK
<1>2. \A q, kind : LatestIn(q, kind)' = LatestIn(q, kind)
    BY DEF gpsVars, LatestIn, TurnAt
<1>3. TurnAt(Len(log))' = TurnAt(Len(log))
    BY DEF gpsVars, TurnAt
<1>4. TurnsInv'
    BY <1>2, <1>3 DEF gpsVars, GpsInv, TurnsInv
<1>5. QED BY <1>1, <1>4 DEF GpsInv

LEMMA GpsInitInv == GpsInit => GpsInv
<1> USE GpsAssumption
<1>1. SUFFICES ASSUME GpsInit PROVE GpsInv
    OBVIOUS
<1>2. log = <<>> /\ wire = <<>> /\ sent = <<>> /\ Len(log) = 0
    BY <1>1 DEF GpsInit
<1>3. \A q, kind : LatestIn(q, kind) = 0
    BY <1>2 DEF LatestIn
<1>4. TurnAt(0) = 0
    <2>1. {j \in 1..0 : sent[log[j]].kind \in {"RMC", "void RMC"}} = {}
        OBVIOUS
    <2>2. QED BY <2>1, FS_EmptySet DEF TurnAt
<1>5. 0 % KeepPosits = 0
    <2>1. 0 = KeepPosits * 0 + 0 /\ 0 \in 0..(KeepPosits - 1)
        OBVIOUS
    <2>2. (KeepPosits * 0 + 0) % KeepPosits = 0
        BY <2>1, Remainder
    <2>3. QED BY <2>1, <2>2
<1>6. TurnsInv
    BY <1>1, <1>2, <1>3, <1>4, <1>5 DEF GpsInit, TurnsInv
<1>7. GpsTypeOK
    BY <1>1 DEF GpsInit, GpsTypeOK, Posit
<1>8. SentInv
    BY <1>2, <1>7 DEF SentInv
<1>9. QED BY <1>6, <1>8 DEF GpsInv

LEMMA GpsInvariance == GpsSpec => []GpsInv
<1>1. ASSUME GpsInv, [GpsNext]_gpsVars PROVE GpsInv'
    BY <1>1, SendKeepsTurns, ReadSerialKeeps, ReadGpsdKeeps, GpsStutters DEF GpsNext
<1>2. QED BY <1>1, GpsInitInv, PTL DEF GpsSpec

\* After each RMC place and speed belong to different turns: the current
\* position has what its own turn brought and otherwise what a turn brought that
\* is a multiple of KEEP_POSITS turns older, however long the ring, the reads and
\* the sentences are (aprs.c:1243).
THEOREM PositionsOfTheirTurn == GpsSpec => []PositionOfItsTurn
<1>1. ASSUME GpsInv PROVE PositionOfItsTurn
    <2>1. \A kind : LatestOf(kind) = LatestIn(mypos_idx, kind)
        <3>1. ASSUME NEW kind PROVE LatestOf(kind) = LatestIn(mypos_idx, kind)
            <4> DEFINE now == {i \in DOMAIN log : sent[log[i]].kind = kind
                                 /\ (TurnAt(Len(log)) - TurnAt(i)) % KeepPosits = 0}
                       same == {i \in DOMAIN log : sent[log[i]].kind = kind
                                 /\ TurnAt(i) % KeepPosits = mypos_idx}
            <4>1. ASSUME NEW i \in DOMAIN log
                  PROVE  (TurnAt(Len(log)) - TurnAt(i)) % KeepPosits = 0
                           <=> TurnAt(i) % KeepPosits = mypos_idx
                <5>1. i \in Nat /\ Len(log) \in Nat
                    BY <1>1, LogFacts DEF GpsInv
                <5>2. TurnAt(i) \in Nat /\ TurnAt(Len(log)) \in Nat
                    BY <5>1, TurnIsNat
                <5>3. QED BY <1>1, <5>2, SameRemainder, GpsAssumption DEF GpsInv, TurnsInv
            <4>2. now = same
                BY <4>1
            <4>3. LatestOf(kind) = IF now = {} THEN 0 ELSE log[Max(now)]
                BY DEF LatestOf
            <4>4. LatestIn(mypos_idx, kind) = IF same = {} THEN 0 ELSE log[Max(same)]
                BY DEF LatestIn
            <4> HIDE DEF now, same
            <4>5. QED BY <4>2, <4>3, <4>4
        <3>2. QED BY <3>1
    <2>2. mypos_idx \in 0..(KeepPosits - 1)
        BY <1>1, TypeFacts DEF GpsInv
    <2>3. QED BY <1>1, <2>1, <2>2 DEF GpsInv, TurnsInv, PositionOfItsTurn
<1>2. QED BY <1>1, GpsInvariance, PTL

-----------------------------------------------------------------------------
(* The history of the packet spy.                                          *)

\* How many of n messages there is room for.
Held(n) == IF n < MaxMsgStore THEN n ELSE MaxMsgStore

LEMMA HeldIs ==
    ASSUME NEW n \in Nat
    PROVE  /\ Held(n) \in 0..n /\ Held(n) <= MaxMsgStore /\ MaxMsgStore \in Nat \ {0}
           /\ Min({n, MaxMsgStore}) = Held(n)
           /\ Max({1, n - MaxMsgStore + 1}) = (n - Held(n)) + 1
<1>1. MaxMsgStore \in Nat \ {0}
    BY SpyAssumption
<1>2. Min({n, MaxMsgStore}) \in {n, MaxMsgStore} /\ \A j \in {n, MaxMsgStore} : Min({n, MaxMsgStore}) <= j
    <2>1. {n, MaxMsgStore} \in SUBSET Nat /\ {n, MaxMsgStore} # {}
        BY <1>1
    <2> DEFINE T == {n, MaxMsgStore}
    <2> HIDE DEF T
    <2>2. Min(T) \in T /\ \A j \in T : Min(T) <= j
        BY <2>1, MinOf DEF T
    <2>3. QED BY <2>2 DEF T
<1>3. Min({n, MaxMsgStore}) = Held(n)
    BY <1>1, <1>2 DEF Held
<1>4. Max({1, n - MaxMsgStore + 1}) = (n - Held(n)) + 1
    <2> DEFINE b == n - MaxMsgStore + 1
    <2>1. b \in Int
        BY <1>1
    <2> HIDE DEF b
    <2>2. Max({1, b}) \in {1, b} /\ Max({1, b}) >= 1 /\ Max({1, b}) >= b
        BY <2>1, MaxOfTwo
    <2> DEFINE e == Max({1, b})
    <2>3. e \in {1, b} /\ e >= 1 /\ e >= b
        BY <2>2
    <2> HIDE DEF e
    <2>4. e = (n - Held(n)) + 1
        BY <1>1, <2>3 DEF b, Held
    <2>5. QED BY <2>4 DEF e, b
<1>5. QED BY <1>1, <1>3, <1>4 DEF Held

LEMMA LastOfIs ==
    ASSUME NEW S, NEW w \in Seq(S)
    PROVE  /\ LastOf(w) \in Seq(S) /\ Len(LastOf(w)) = Held(Len(w))
           /\ \A i \in 1..Held(Len(w)) : LastOf(w)[i] = w[(Len(w) - Held(Len(w))) + i]
<1> DEFINE n == Len(w)
           a == n - Held(n)
<1>1. n \in Nat /\ a \in Nat /\ n \in a..n /\ n - a = Held(n)
    <2>1. n \in Nat
        BY LenProperties
    <2>2. Held(n) \in 0..n
        BY <2>1, HeldIs
    <2> HIDE DEF n
    <2>3. QED BY <2>1, <2>2
<1>2. LastOf(w) = SubSeq(w, a + 1, n)
    BY <1>1, HeldIs DEF LastOf
<1> HIDE DEF a
<1>3. /\ SubSeq(w, a + 1, n) \in Seq(S) /\ Len(SubSeq(w, a + 1, n)) = n - a
      /\ \A i \in 1..(n - a) : SubSeq(w, a + 1, n)[i] = w[a + i]
    BY <1>1, SubSeqOf
<1>4. QED BY <1>1, <1>2, <1>3 DEF a

\* What the server has stored: as many messages as the count says there are.
Histories(S) ==
    {h \in [tot : Nat, msgs : Seq(S)] : Len(h.msgs) = Held(h.tot)}

\* One message more, of the last messages of a text.
LEMMA NextLast ==
    ASSUME NEW S, NEW x \in Seq(S), NEW m \in S, NEW h \in Histories(S), h.msgs = LastOf(x)
    PROVE  /\ Store(h, m) \in Histories(S)
           /\ Store(h, m).tot = h.tot + 1
           /\ Store(h, m).msgs = LastOf(Append(x, m))
<1> DEFINE n == h.tot
           v == h.msgs
           y == Append(x, m)
           K == MaxMsgStore
<1>1. n \in Nat /\ v \in Seq(S) /\ Len(v) = Held(n) /\ K \in Nat \ {0} /\ Len(x) \in Nat
    BY SpyAssumption, LenProperties DEF Histories
<1>2. /\ Len(v) = Held(Len(x))
      /\ \A i \in 1..Held(Len(x)) : v[i] = x[(Len(x) - Held(Len(x))) + i]
    BY LastOfIs
<1>3. /\ y \in Seq(S) /\ Len(y) = Len(x) + 1
      /\ \A i \in 1..Len(x) : y[i] = x[i]
      /\ y[Len(x) + 1] = m
    BY AppendProperties
<1>4. /\ LastOf(y) \in Seq(S) /\ Len(LastOf(y)) = Held(Len(x) + 1)
      /\ \A i \in 1..Held(Len(x) + 1) :
           LastOf(y)[i] = y[((Len(x) + 1) - Held(Len(x) + 1)) + i]
    <2>1. Len(y) = Len(x) + 1
        BY <1>3
    <2> HIDE DEF y
    <2>2. /\ LastOf(y) \in Seq(S) /\ Len(LastOf(y)) = Held(Len(y))
          /\ \A i \in 1..Held(Len(y)) : LastOf(y)[i] = y[(Len(y) - Held(Len(y))) + i]
        BY <1>3, LastOfIs
    <2>3. QED BY <2>1, <2>2
<1> DEFINE b == IF n + 1 > K THEN Tail(v) ELSE v
           r == Append(b, m)
<1>5. Store(h, m) = [tot |-> n + 1, msgs |-> r]
    BY DEF Store
<1> HIDE DEF n, v, y, K
<1> DEFINE z == Held(Len(x) + 1)
           l == LastOf(y)
<1>6. z \in Nat \ {0} /\ z = Held(n + 1)
    BY <1>1, <1>2 DEF Held, K
<1>7. b \in Seq(S) /\ Len(b) = z - 1 /\ \A i \in 1..(z - 1) : b[i] = l[i]
    <2>1. CASE n + 1 > K
        <3>1. Len(v) = K /\ Len(x) >= K /\ z = K /\ Held(Len(x)) = K
            BY <1>1, <1>2, <2>1 DEF Held, K
        <3>2. b = Tail(v) /\ v # <<>>
            BY <1>1, <2>1, <3>1, EmptySeq
        <3>3. b \in Seq(S) /\ Len(b) = K - 1 /\ \A i \in 1..(K - 1) : b[i] = v[i + 1]
            <4>1. /\ Tail(v) \in Seq(S) /\ Len(Tail(v)) = Len(v) - 1
                  /\ \A i \in 1..Len(Tail(v)) : Tail(v)[i] = v[i + 1]
                BY <1>1, <3>2, HeadTailProperties
            <4>2. QED BY <3>1, <3>2, <4>1
        <3>4. ASSUME NEW i \in 1..(K - 1) PROVE b[i] = l[i]
            <4>1. /\ i + 1 \in 1..K /\ i \in 1..K
                  /\ (Len(x) - K) + (i + 1) \in 1..Len(x)
                  /\ ((Len(x) + 1) - K) + i = (Len(x) - K) + (i + 1)
                BY <1>1, <3>1
            <4>2. l[i] = y[(Len(x) - K) + (i + 1)]
                BY <1>4, <3>1, <4>1
            <4>3. v[i + 1] = x[(Len(x) - K) + (i + 1)]
                BY <1>2, <3>1, <4>1
            <4>4. QED BY <1>3, <3>3, <4>1, <4>2, <4>3
        <3> HIDE DEF b, l
        <3>5. QED BY <3>1, <3>3, <3>4
    <2>2. CASE ~(n + 1 > K)
        <3>1. Len(v) = n /\ Len(x) = n /\ z = n + 1 /\ Held(Len(x)) = n /\ b = v
            BY <1>1, <1>2, <2>2 DEF Held, K
        <3>2. ASSUME NEW i \in 1..n PROVE v[i] = l[i]
            <4>1. (n - n) + i = i /\ ((n + 1) - (n + 1)) + i = i /\ i \in 1..(n + 1)
                BY <1>1
            <4>2. v[i] = x[i] /\ l[i] = y[i]
                BY <1>2, <1>4, <3>1, <4>1
            <4>3. QED BY <1>3, <3>1, <4>2
        <3> HIDE DEF b, l
        <3>3. QED BY <1>1, <3>1, <3>2
    <2>3. QED BY <2>1, <2>2
<1>8. l[z] = m
    <2>1. z \in 1..Held(Len(x) + 1) /\ ((Len(x) + 1) - z) + z = Len(x) + 1
        BY <1>1, <1>6
    <2>2. QED BY <1>3, <1>4, <2>1
<1>9. l \in Seq(S) /\ Len(l) = z
    BY <1>4
<1> HIDE DEF b, l, z
<1>10. r \in Seq(S) /\ Len(r) = z /\ \A i \in 1..z : r[i] = l[i]
    <2>1. /\ r \in Seq(S) /\ Len(r) = Len(b) + 1
          /\ \A i \in 1..Len(b) : r[i] = b[i]
          /\ r[Len(b) + 1] = m
        BY <1>7, AppendProperties
    <2> HIDE DEF r
    <2>2. QED BY <1>6, <1>7, <1>8, <2>1
<1>11. r = l
    BY <1>9, <1>10, SeqEqual
<1> HIDE DEF r
<1>12. Store(h, m) \in Histories(S)
    BY <1>1, <1>5, <1>6, <1>10 DEF Histories
<1>13. QED BY <1>5, <1>11, <1>12 DEF n, l, y

LEMMA LastOfShort ==
    ASSUME NEW S, NEW w \in Seq(S), Len(w) <= MaxMsgStore
    PROVE  LastOf(w) = w
<1>1. Len(w) \in Nat /\ Held(Len(w)) = Len(w) /\ (Len(w) - Len(w)) = 0
    BY LenProperties, SpyAssumption DEF Held
<1>2. \A i \in 1..Len(w) : LastOf(w)[i] = w[i]
    <2>1. \A i \in 1..Len(w) : LastOf(w)[i] = w[(Len(w) - Len(w)) + i]
        BY <1>1, LastOfIs
    <2>2. \A i \in 1..Len(w) : (Len(w) - Len(w)) + i = i
        BY <1>1
    <2>3. QED BY <2>1, <2>2
<1>3. LastOf(w) \in Seq(S) /\ Len(LastOf(w)) = Len(w)
    BY <1>1, LastOfIs
<1>4. QED BY <1>2, <1>3, SeqEqual

\* All the messages of a read, of the last messages of a text.
LEMMA StoredIs ==
    ASSUME NEW S, NEW x \in Seq(S), NEW out \in Seq(S),
           NEW h \in Histories(S), h.msgs = LastOf(x)
    PROVE  /\ Stored(h, out) \in Histories(S)
           /\ Stored(h, out).msgs = LastOf(x \o out)
<1> DEFINE M == Histories(S)
           m == Len(out)
           step == [i \in 1..m |-> [g \in M |-> Store(g, out[i])]]
<1>1. m \in Nat /\ \A i \in 1..m : out[i] \in S
    BY LenProperties, ElementOfSeq
<1>2. \A i \in 1..m : \A g \in M : Store(g, out[i]) \in M
    <2>1. ASSUME NEW i \in 1..m, NEW g \in M PROVE Store(g, out[i]) \in M
        <3>1. g.msgs \in Seq(S) /\ Len(g.msgs) <= MaxMsgStore
            <4>1. g.tot \in Nat /\ g.msgs \in Seq(S) /\ Len(g.msgs) = Held(g.tot)
                BY DEF Histories
            <4>2. QED BY <4>1, HeldIs
        <3>2. g.msgs = LastOf(g.msgs)
            BY <3>1, LastOfShort
        <3>3. QED BY <1>1, <3>1, <3>2, NextLast
    <2>2. QED BY <2>1
<1>3. PICK f : Walks(f, m, M, h, step)
    <2> HIDE DEF M
    <2>1. Moves(step, m, M)
        <3>1. \A i \in 1..m : step[i] = [g \in M |-> Store(g, out[i])]
            OBVIOUS
        <3> HIDE DEF step
        <3>2. QED BY <1>2, <3>1 DEF Moves
    <2> HIDE DEF step, m
    <2>2. h \in M
        BY DEF M
    <2>3. QED BY <1>1, <2>1, <2>2, Iterates
<1>4. f \in [0..m -> M] /\ f[0] = h /\ \A i \in 1..m : f[i] = step[i][f[i - 1]]
    BY <1>3 DEF Walks
<1>5. \A i \in 1..m : f[i] = Store(f[i - 1], out[i]) /\ f[i - 1] \in M
    <2>1. ASSUME NEW i \in 1..m PROVE f[i] = Store(f[i - 1], out[i]) /\ f[i - 1] \in M
        <3> HIDE DEF M
        <3>1. f[i - 1] \in M
            <4>1. i - 1 \in 0..m
                BY <1>1
            <4>2. QED BY <1>4, <4>1
        <3>2. step[i] = [g \in M |-> Store(g, out[i])]
            OBVIOUS
        <3> HIDE DEF step
        <3>3. f[i] = step[i][f[i - 1]]
            BY <1>4
        <3>4. QED BY <3>1, <3>2, <3>3
    <2>2. QED BY <2>1
<1> HIDE DEF M, step
<1>6. f = [i \in 0..m |-> IF i = 0 THEN h ELSE Store(f[i - 1], out[i])]
    <2>1. \A i \in 0..m : i = 0 \/ i \in 1..m
        BY <1>1
    <2>2. \A i \in 0..m : f[i] = IF i = 0 THEN h ELSE Store(f[i - 1], out[i])
        BY <1>4, <1>5, <2>1
    <2>3. f = [i \in 0..m |-> f[i]]
        BY <1>4
    <2>4. QED BY <2>2, <2>3
<1> DEFINE c == CHOOSE g : g = [i \in 0..m |-> IF i = 0 THEN h ELSE Store(g[i - 1], out[i])]
<1>7. Stored(h, out) = c[m]
    BY DEF Stored
<1>8. c = [i \in 0..m |-> IF i = 0 THEN h ELSE Store(c[i - 1], out[i])]
    BY <1>6
<1> HIDE DEF c
<1>9. c[0] = h /\ \A i \in 1..m : c[i] = Store(c[i - 1], out[i])
    <2>1. 0 \in 0..m /\ \A i \in 1..m : i \in 0..m /\ i # 0
        BY <1>1
    <2>2. QED BY <1>8, <2>1
<1> DEFINE Good(i) == c[i] \in M /\ c[i].msgs = LastOf(x \o SubSeq(out, 1, i))
           T == {i \in Nat : i <= m => Good(i)}
<1>10. 0 \in T
    <2>1. SubSeq(out, 1, 0) = <<>> /\ x \o <<>> = x
        BY SubSeqEmpty, ConcatEmptySeq
    <2>2. QED BY <1>9, <2>1 DEF M
<1>11. ASSUME NEW i \in Nat, i \in T PROVE i + 1 \in T
    <2>1. CASE i + 1 <= m
        <3>1. i + 1 \in 1..m /\ (i + 1) - 1 = i /\ i <= m /\ i \in 0..m
            BY <1>1, <2>1
        <3> DEFINE z == x \o SubSeq(out, 1, i)
        <3>2. c[i] \in M /\ c[i].msgs = LastOf(z) /\ c[i + 1] = Store(c[i], out[i + 1])
            BY <1>9, <1>11, <3>1
        <3>3. SubSeq(out, 1, i) \in Seq(S)
            <4>1. i \in 0..Len(out) /\ 0 + 1 = 1
                BY <3>1
            <4>2. SubSeq(out, 0 + 1, i) \in Seq(S)
                BY <4>1, SubSeqOf
            <4>3. QED BY <4>1, <4>2
        <3>4. z \in Seq(S)
            BY <3>3, ConcatProperties
        <3>5. x \o SubSeq(out, 1, i + 1) = Append(z, out[i + 1])
            <4>1. SubSeq(out, 1, i + 1) = SubSeq(out, 1, (i + 1) - 1) \o <<out[i + 1]>>
                BY <3>1, SubSeqRecursiveSecond
            <4>2. SubSeq(out, 1, i + 1) = SubSeq(out, 1, i) \o <<out[i + 1]>>
                BY <3>1, <4>1
            <4>3. <<out[i + 1]>> \in Seq(S)
                BY <1>1, <3>1
            <4>4. x \o (SubSeq(out, 1, i) \o <<out[i + 1]>>) = z \o <<out[i + 1]>>
                BY <3>3, <4>3, ConcatAssociative
            <4> HIDE DEF z
            <4>5. Append(z, out[i + 1]) = z \o <<out[i + 1]>>
                BY <1>1, <3>1, <3>4, AppendIsConcat
            <4>6. QED BY <4>2, <4>4, <4>5
        <3> HIDE DEF z
        <3>6. c[i + 1] \in M /\ c[i + 1].msgs = LastOf(Append(z, out[i + 1]))
            BY <1>1, <3>1, <3>2, <3>4, NextLast DEF M
        <3>7. Good(i + 1)
            BY <3>5, <3>6
        <3> HIDE DEF Good
        <3>8. QED BY <3>7
    <2>2. CASE ~(i + 1 <= m)
        BY <2>2
    <2>3. QED BY <2>1, <2>2
<1>12. Nat \subseteq T
    <2> HIDE DEF T
    <2>1. QED BY <1>10, <1>11, NatSteps
<1>13. c[m] \in M /\ c[m].msgs = LastOf(x \o SubSeq(out, 1, m))
    BY <1>1, <1>12
<1>14. SubSeq(out, 1, m) = out
    BY SubSeqFull
<1>15. QED BY <1>7, <1>13, <1>14 DEF M

\* What is passed on of a read.
LEMMA EmissionsAre ==
    ASSUME NEW data \in Seq(Piece), Len(data) > 0
    PROVE  Emissions(data) \in Seq(Seq(Piece))
<1>1. CASE IsObject(data)
    <2>1. Emissions(data) = <<data>>
        BY <1>1 DEF Emissions
    <2>2. QED BY <2>1
<1>2. CASE ~IsObject(data)
    <2>1. Emissions(data) = Segments(data) /\ Len(data) \in Nat /\ Len(data) # 0
        BY <1>2, LenProperties DEF Emissions
    <2>2. PICK n \in Nat \ {0} : \E cut : IsCutting(data, Segments(data), n, cut)
        BY <2>1, SegmentsOf
    <2>3. PICK cut : IsCutting(data, Segments(data), n, cut)
        BY <2>2
    <2> DEFINE s == Segments(data)
               e(i) == SubSeq(data, cut[i - 1] + 1, cut[i])
    <2>4. s = [i \in 1..n |-> e(i)]
        BY <2>3 DEF IsCutting
    <2>5. ASSUME NEW i \in 1..n PROVE e(i) \in Seq(Piece)
        <3>1. i \in 0..n /\ i - 1 \in 0..n
            OBVIOUS
        <3>2. cut[i - 1] \in 0..Len(data) /\ cut[i] \in 0..Len(data) /\ cut[i - 1] < cut[i]
            BY <2>3, <3>1 DEF IsCutting
        <3> DEFINE a == cut[i - 1]
                   b == cut[i]
        <3> HIDE DEF a, b
        <3>3. a \in Nat /\ b \in a..Len(data)
            BY <2>1, <3>2 DEF a, b
        <3>4. SubSeq(data, a + 1, b) \in Seq(Piece)
            BY <3>3, SubSeqOf
        <3>5. QED BY <3>4 DEF a, b
    <2> HIDE DEF s, e
    <2>6. [i \in 1..n |-> e(i)] \in Seq(Seq(Piece))
        BY <2>5, IsASeq
    <2>7. QED BY <2>1, <2>4, <2>6 DEF s
<1>3. QED BY <1>1, <1>2

\* The pieces on the way, the history as it is stored.
HistoryInv ==
    /\ pktcount \in Nat /\ toUi \in Seq(Piece)
    /\ spy_totMsg \in Nat /\ spy_Message \in Seq(Seq(Piece))
    /\ Len(spy_Message) = Held(spy_totMsg)
    /\ spy_Message = latest

LEMMA PutKeepsPieces ==
    ASSUME toUi \in Seq(Piece), NEW o \in Nat, Put(o)
    PROVE  toUi' \in Seq(Piece)
<1>1. Pieces(o) \in Seq(Piece)
    BY DEF Pieces, Piece
<1>2. QED BY <1>1, ConcatProperties DEF Put

\* A read stores what it passes on.
LEMMA DataKeepsHistory ==
    ASSUME HistoryInv, SpyData
    PROVE  HistoryInv'
<1> DEFINE h == [tot |-> spy_totMsg, msgs |-> spy_Message]
<1>1. PICK n \in 1..Len(toUi) :
          LET data == SubSeq(toUi, 1, n)
              out == Emissions(data)
              st == Stored(h, out)
          IN  /\ toUi' = SubSeq(toUi, n + 1, Len(toUi))
              /\ IF spyClients # <<>>
                   THEN /\ spy_totMsg' = st.tot /\ spy_Message' = st.msgs
                        /\ latest' = LastOf(latest \o out)
                   ELSE UNCHANGED <<spy_totMsg, spy_Message, latest>>
    BY DEF SpyData
<1> DEFINE data == SubSeq(toUi, 1, n)
           out == Emissions(data)
           st == Stored(h, out)
<1>2. Len(toUi) \in Nat /\ n \in Nat /\ n \in 0..Len(toUi) /\ Len(toUi) \in n..Len(toUi)
    BY LenProperties DEF HistoryInv
<1>3. data \in Seq(Piece) /\ Len(data) > 0
    <2>1. SubSeq(toUi, 0 + 1, n) \in Seq(Piece) /\ Len(SubSeq(toUi, 0 + 1, n)) = n - 0
        BY <1>2, SubSeqOf DEF HistoryInv
    <2>2. 0 + 1 = 1 /\ n - 0 = n
        BY <1>2
    <2>3. QED BY <2>1, <2>2
<1>4. toUi' \in Seq(Piece)
    BY <1>1, <1>2, SubSeqOf DEF HistoryInv
<1>5. pktcount' = pktcount
    BY DEF SpyData, captureVars
<1> HIDE DEF data
<1>6. out \in Seq(Seq(Piece))
    BY <1>3, EmissionsAre
<1> HIDE DEF out
<1>7. h \in Histories(Seq(Piece)) /\ h.msgs = LastOf(latest) /\ latest \in Seq(Seq(Piece))
    <2>1. h \in Histories(Seq(Piece)) /\ h.msgs = latest /\ latest \in Seq(Seq(Piece))
        BY DEF HistoryInv, Histories
    <2>2. Len(latest) <= MaxMsgStore
        BY HeldIs DEF HistoryInv
    <2>3. LastOf(latest) = latest
        BY <2>1, <2>2, LastOfShort
    <2>4. QED BY <2>1, <2>3
<1> HIDE DEF h
<1>8. st \in Histories(Seq(Piece)) /\ st.msgs = LastOf(latest \o out)
    BY <1>6, <1>7, StoredIs
<1> HIDE DEF st
<1>9. st.tot \in Nat /\ st.msgs \in Seq(Seq(Piece)) /\ Len(st.msgs) = Held(st.tot)
    BY <1>8 DEF Histories
<1>10. CASE spyClients # <<>>
    <2>1. spy_totMsg' = st.tot /\ spy_Message' = st.msgs /\ latest' = LastOf(latest \o out)
        BY <1>1, <1>10 DEF st, out, data
    <2>2. QED BY <1>4, <1>5, <1>8, <1>9, <2>1 DEF HistoryInv, Held
<1>11. CASE spyClients = <<>>
    <2>1. UNCHANGED <<spy_totMsg, spy_Message, latest>>
        BY <1>1, <1>11
    <2>2. QED BY <1>4, <1>5, <2>1 DEF HistoryInv, Held
<1>12. QED BY <1>10, <1>11

\* Of the other steps, which may write, and which may forget.
LEMMA HistoryInvariance == SpySpec => []HistoryInv
<1>1. SpyInit => HistoryInv
    <2>1. SUFFICES ASSUME SpyInit PROVE HistoryInv
        OBVIOUS
    <2> DEFINE e == <<>>
    <2>2. e \in Seq(Piece) /\ e \in Seq(Seq(Piece)) /\ Len(e) = 0
        BY EmptySeq
    <2>3. Held(0) = 0
        BY SpyAssumption DEF Held
    <2>4. toUi = e /\ spy_Message = e /\ latest = e /\ spy_totMsg = 0 /\ pktcount = 0
        BY <2>1 DEF SpyInit, SocketInit, ServerBlank
    <2> HIDE DEF e
    <2>5. QED BY <2>2, <2>3, <2>4 DEF HistoryInv
<1>2. HistoryInv /\ [SpyNext]_feedVars => HistoryInv'
    <2>1. SUFFICES ASSUME HistoryInv, [SpyNext]_feedVars PROVE HistoryInv'
        OBVIOUS
    <2> DEFINE e == <<>>
    <2>2. e \in Seq(Piece) /\ e \in Seq(Seq(Piece)) /\ Len(e) = 0 /\ Held(0) = 0
        BY EmptySeq, SpyAssumption DEF Held
    <2>3. ASSUME UNCHANGED <<spy_Message, spy_totMsg, latest>>,
                 pktcount' \in Nat, toUi' \in Seq(Piece)
          PROVE  HistoryInv'
        BY <2>1, <2>3 DEF HistoryInv, Held
    <2>4. CASE SpyData
        BY <2>1, <2>4, DataKeepsHistory
    <2>5. CASE SpyLives
        <3>1. CASE ServerStart /\ UNCHANGED <<captureVars, spyVars>>
            <4>1. toUi' = e /\ UNCHANGED <<pktcount, spy_Message, spy_totMsg, latest>>
                BY <3>1 DEF ServerStart, captureVars, spyVars
            <4> HIDE DEF e
            <4>2. QED BY <2>1, <2>2, <2>3, <4>1 DEF HistoryInv
        <3>2. CASE (UnlinkDone \/ Listen) /\ UNCHANGED <<captureVars, spyVars>>
            <4>1. UNCHANGED <<toUi, pktcount, spy_Message, spy_totMsg, latest>>
                BY <3>2 DEF UnlinkDone, Listen, captureVars, spyVars
            <4>2. QED BY <2>1, <2>3, <4>1 DEF HistoryInv
        <3>3. CASE ServerDies /\ Forget /\ UNCHANGED captureVars
            <4>1. /\ toUi' = e /\ spy_Message' = e /\ latest' = e /\ spy_totMsg' = 0
                  /\ pktcount' = pktcount
                BY <3>3 DEF ServerDies, Forget, captureVars
            <4> HIDE DEF e
            <4>2. QED BY <2>1, <2>2, <4>1 DEF HistoryInv, Held
        <3>4. QED BY <2>5, <3>1, <3>2, <3>3 DEF SpyLives
    <2>6. CASE CaptureNext
        <3>1. UNCHANGED <<spy_Message, spy_totMsg, latest>>
            BY <2>6 DEF CaptureNext, StartCapture, CaptureWaits, CaptureSees, CaptureConnects,
                Receive, CaptureEnds, spyVars
        <3>2. CASE StartCapture \/ CaptureWaits \/ CaptureSees \/ CaptureEnds
            <4>1. toUi' = toUi /\ pktcount' \in {0, pktcount}
                BY <3>2 DEF StartCapture, CaptureWaits, CaptureSees, CaptureEnds, StartWaiting,
                    FileSeen, DaemonRestart, socketVars, captureVars
            <4>2. QED BY <2>1, <2>3, <3>1, <4>1 DEF HistoryInv
        <3>3. CASE CaptureConnects
            <4>1. pktcount' = pktcount /\ toUi' \in {toUi, e, Pieces(pktcount)}
                BY <3>3 DEF CaptureConnects, Connect
            <4>2. Pieces(pktcount) \in Seq(Piece)
                BY <2>1 DEF HistoryInv, Pieces, Piece
            <4> HIDE DEF e
            <4>3. QED BY <2>1, <2>2, <2>3, <3>1, <4>1, <4>2 DEF HistoryInv
        <3>4. ASSUME NEW f \in Frames, Receive(f) PROVE HistoryInv'
            <4>1. pktcount' = pktcount + 1 /\ (toUi' = toUi \/ Put(pktcount + 1))
                BY <3>4 DEF Receive, HandlePkt, StartWaiting
            <4>2. pktcount + 1 \in Nat /\ toUi \in Seq(Piece)
                BY <2>1 DEF HistoryInv
            <4>3. toUi' \in Seq(Piece)
                BY <4>1, <4>2, PutKeepsPieces
            <4>4. QED BY <2>3, <3>1, <4>1, <4>2, <4>3
        <3>5. QED BY <2>6, <3>2, <3>3, <3>4 DEF CaptureNext
    <2>7. CASE \E v \in Viewers : ViewerComes(v) \/ ViewerGoes(v)
        <3>1. UNCHANGED <<toUi, pktcount, spy_Message, spy_totMsg, latest>>
            BY <2>7 DEF ViewerComes, ViewerGoes, socketVars, captureVars
        <3>2. QED BY <2>1, <2>3, <3>1 DEF HistoryInv
    <2>8. CASE UNCHANGED feedVars
        <3>1. UNCHANGED <<toUi, pktcount, spy_Message, spy_totMsg, latest>>
            BY <2>8 DEF feedVars, socketVars, captureVars, spyVars
        <3>2. QED BY <2>1, <2>3, <3>1 DEF HistoryInv
    <2>9. QED BY <2>1, <2>4, <2>5, <2>6, <2>7, <2>8 DEF SpyNext
<1>3. QED BY <1>1, <1>2, PTL DEF SpySpec

\* What a new page is sent is the latest of what was passed on while a page was
\* listed, and the count kept beside the array says how much of it there is
\* (spy-server.js:43, 135-148).
THEOREM TheHistoryIsRecent == SpySpec => []HistoryIsRecent
<1>1. HistoryInv => HistoryIsRecent
    BY HeldIs DEF HistoryInv, HistoryIsRecent
<1>2. QED BY <1>1, HistoryInvariance, PTL

-----------------------------------------------------------------------------
(* The numbers of the objects in the history.                              *)

LEMMA SpyLinkInvariance == SpySpec => []LinkInv
<1>1. SpyInit => LinkInv
    BY DEF SpyInit, SocketInit, LinkInv, NoFile
<1>2. LinkInv /\ [SpyNext]_feedVars => LinkInv'
    <2>1. SUFFICES ASSUME LinkInv, [SpyNext]_feedVars PROVE LinkInv'
        OBVIOUS
    <2>2. ASSUME NEW f \in Frames, Receive(f) PROVE StartWaiting \/ Quiet
        BY <2>2 DEF Receive, HandlePkt, Quiet
    <2>3. CASE CaptureNext
        <3>1. \/ StartWaiting \/ FileSeen \/ (\E pieces : Connect(pieces)) \/ DaemonRestart \/ Quiet
            BY <2>2, <2>3 DEF CaptureNext, StartCapture, CaptureWaits, CaptureSees,
                CaptureConnects, CaptureEnds, Quiet, socketVars
        <3>2. QED BY <2>1, <3>1, SocketKeeps
    <2>4. CASE SpyLives
        BY <2>1, <2>4, SocketKeeps DEF SpyLives
    <2>5. CASE SpyData \/ (\E v \in Viewers : ViewerComes(v) \/ ViewerGoes(v)) \/ UNCHANGED feedVars
        <3>1. Quiet
            BY <2>5 DEF SpyData, ViewerComes, ViewerGoes, feedVars, socketVars, Quiet
        <3>2. QED BY <2>1, <3>1, SocketKeeps
    <2>6. QED BY <2>1, <2>3, <2>4, <2>5 DEF SpyNext
<1>3. QED BY <1>1, <1>2, PTL DEF SpySpec

\* One piece was written before the other.
Earlier(p, q) == p.obj < q.obj \/ (p.obj = q.obj /\ p.half < q.half)

Rising(s) == \A i, j \in 1..Len(s) : i < j => Earlier(s[i], s[j])

Number(m) == m[1].obj

\* The objects of w have increasing numbers, all of them less than those of r.
InOrder(w, r) ==
    \A i \in 1..Len(w) : IsObject(w[i]) =>
        /\ \A j \in 1..Len(r) : Number(w[i]) < r[j].obj
        /\ \A j \in 1..Len(w) : i < j /\ IsObject(w[j]) => Number(w[i]) < Number(w[j])

\* A valid descriptor leads to the life that has accepted a connection; a life
\* that has not, has nothing to read and nothing to show.
LineInv ==
    /\ dspfd \in Int /\ dspfd <= life
    /\ server = "starting" => dspfd # life
    /\ capture # "loop" => dspfd = NoFd
    /\ Linked => accepted > 0
    /\ server # "up" \/ accepted = 0 => toUi = <<>> /\ spy_Message = <<>>

NothingAhead ==
    /\ \A i \in 1..Len(toUi) : toUi[i].obj <= pktcount
    /\ \A i \in 1..Len(spy_Message) : IsObject(spy_Message[i]) => Number(spy_Message[i]) <= pktcount

OrderInv ==
    /\ Rising(toUi) /\ InOrder(spy_Message, toUi)
    /\ Linked => NothingAhead

CountInv == LinkInv /\ HistoryInv /\ LineInv /\ OrderInv

\* Where the parts of a read begin and end in it.
Placed(out, data, at) ==
    /\ at \in [0..Len(out) -> 0..Len(data)]
    /\ \A i \in 1..Len(out) : at[i - 1] < at[i] /\ out[i] = SubSeq(data, at[i - 1] + 1, at[i])

LEMMA EmissionsPlaced ==
    ASSUME NEW data \in Seq(Piece), Len(data) > 0
    PROVE  \E at : Placed(Emissions(data), data, at)
<1>0. Len(data) \in Nat
    BY LenProperties
<1>1. CASE IsObject(data)
    <2> DEFINE m == Len(data)
               at == [i \in 0..1 |-> IF i = 0 THEN 0 ELSE m]
    <2>1. Emissions(data) = <<data>> /\ Len(Emissions(data)) = 1
        BY <1>1 DEF Emissions
    <2>2. SubSeq(data, 0 + 1, m) = data
        BY SubSeqFull
    <2> HIDE DEF m
    <2>3. at \in [0..1 -> 0..m] /\ at[0] = 0 /\ at[1] = m
        BY <1>0 DEF m
    <2> HIDE DEF at
    <2>4. \A i \in 1..1 : at[i - 1] < at[i] /\ <<data>>[i] = SubSeq(data, at[i - 1] + 1, at[i])
        <3>1. \A i \in 1..1 : i = 1 /\ i - 1 = 0
            OBVIOUS
        <3>2. at[0] < at[1] /\ data = SubSeq(data, at[0] + 1, at[1])
            BY <2>2, <2>3, <1>0 DEF m
        <3>3. ASSUME NEW i \in 1..1
              PROVE  at[i - 1] < at[i] /\ <<data>>[i] = SubSeq(data, at[i - 1] + 1, at[i])
            <4>1. i = 1 /\ i - 1 = 0 /\ <<data>>[1] = data
                BY <3>1
            <4>2. QED BY <3>2, <4>1, Zenon
        <3>4. QED BY <3>3
    <2>5. QED BY <2>1, <2>3, <2>4 DEF Placed, m
<1>2. CASE ~IsObject(data)
    <2>1. Emissions(data) = Segments(data) /\ Len(data) # 0
        BY <1>0, <1>2 DEF Emissions
    <2>2. PICK n \in Nat \ {0} : \E cut : IsCutting(data, Segments(data), n, cut)
        BY <1>0, <2>1, SegmentsOf
    <2>3. PICK cut : IsCutting(data, Segments(data), n, cut)
        BY <2>2
    <2> DEFINE s == Segments(data)
               e(i) == SubSeq(data, cut[i - 1] + 1, cut[i])
    <2>4. s = [i \in 1..n |-> e(i)] /\ cut \in [0..n -> 0..Len(data)]
        BY <2>3 DEF IsCutting
    <2>5. \A i \in 1..n : cut[i - 1] < cut[i] /\ s[i] = e(i)
        BY <2>3, <2>4 DEF IsCutting
    <2>6. Len(s) = n
        <3> HIDE DEF e, s
        <3>1. QED BY <2>4
    <2> HIDE DEF s
    <2>7. Placed(s, data, cut)
        BY <2>4, <2>5, <2>6 DEF Placed
    <2>8. QED BY <2>1, <2>7 DEF s
<1>3. QED BY <1>1, <1>2

\* Later parts begin where an earlier one ends, or behind.
LEMMA PlacedLater ==
    ASSUME NEW out, NEW data, NEW at, Len(out) \in Nat, Len(data) \in Nat, Placed(out, data, at),
           NEW i \in 0..Len(out), NEW j \in 0..Len(out), i <= j
    PROVE  at[i] <= at[j]
<1> DEFINE T == {k \in Nat : i + k <= Len(out) => at[i] <= at[i + k]}
<1>1. \A k \in 0..Len(out) : at[k] \in Nat
    BY DEF Placed
<1>2. \A k \in 1..Len(out) : at[k - 1] < at[k]
    BY DEF Placed
<1>3. 0 \in T
    <2>1. i + 0 = i /\ at[i] \in Nat
        BY <1>1
    <2>2. QED BY <2>1
<1>4. ASSUME NEW k \in Nat, k \in T PROVE k + 1 \in T
    <2>1. CASE i + (k + 1) <= Len(out)
        <3>1. /\ i + (k + 1) \in 1..Len(out) /\ (i + (k + 1)) - 1 = i + k
              /\ i + k <= Len(out) /\ i + k \in 0..Len(out) /\ i + (k + 1) \in 0..Len(out)
            BY <2>1
        <3>2. at[i + k] < at[i + (k + 1)] /\ at[i] <= at[i + k]
            BY <1>2, <1>4, <3>1
        <3>3. at[i] \in Nat /\ at[i + k] \in Nat /\ at[i + (k + 1)] \in Nat
            BY <1>1, <3>1
        <3>4. at[i] <= at[i + (k + 1)]
            BY <3>2, <3>3
        <3>5. QED BY <3>4
    <2>2. CASE ~(i + (k + 1) <= Len(out))
        BY <2>2
    <2>3. QED BY <2>1, <2>2
<1>5. Nat \subseteq T
    <2> HIDE DEF T
    <2>1. QED BY <1>3, <1>4, NatSteps
<1>6. j - i \in Nat /\ i + (j - i) = j
    OBVIOUS
<1>7. j - i \in T
    BY <1>5, <1>6
<1>8. i + (j - i) <= Len(out) => at[i] <= at[i + (j - i)]
    BY <1>7
<1>9. QED BY <1>6, <1>8

\* The message is two pieces of what was read, the second of them a second half.
TwoPieces(message, data, a) ==
    /\ a + 1 \in 1..Len(data) /\ a + 2 \in 1..Len(data)
    /\ Number(message) = data[a + 1].obj
    /\ Number(message) = data[a + 2].obj /\ data[a + 2].half = 2

LEMMA ObjectPlaced ==
    ASSUME NEW data \in Seq(Piece), NEW out, Len(out) \in Nat, NEW at, Placed(out, data, at)
    PROVE  \A i \in 1..Len(out) :
               IsObject(out[i]) => TwoPieces(out[i], data, at[i - 1]) /\ at[i] = at[i - 1] + 2
<1> SUFFICES ASSUME NEW i \in 1..Len(out), IsObject(out[i])
             PROVE  TwoPieces(out[i], data, at[i - 1]) /\ at[i] = at[i - 1] + 2
    OBVIOUS
<1> DEFINE a == at[i - 1]
           b == at[i]
           m == out[i]
<1>1. i - 1 \in 0..Len(out) /\ i \in 0..Len(out) /\ Len(data) \in Nat
    BY LenProperties
<1>2. a \in 0..Len(data) /\ b \in 0..Len(data) /\ a < b /\ m = SubSeq(data, a + 1, b)
    BY <1>1 DEF Placed
<1> HIDE DEF a, b, m
<1>3. a \in Nat /\ b \in a..Len(data)
    BY <1>1, <1>2
<1>4. Len(m) = b - a /\ \A k \in 1..(b - a) : m[k] = data[a + k]
    BY <1>2, <1>3, SubSeqOf
<1>5. Len(m) = 2 /\ m = Pieces(m[1].obj)
    BY DEF IsObject, m
<1>6. b = a + 2 /\ 1 \in 1..(b - a) /\ 2 \in 1..(b - a)
    <2>1. b - a = 2
        BY <1>4, <1>5, Zenon
    <2>2. a \in Nat /\ b \in Nat
        BY <1>1, <1>2
    <2>3. QED BY <2>1, <2>2
<1>7. m[1] = data[a + 1] /\ m[2] = data[a + 2]
    BY <1>4, <1>6
<1> DEFINE o == m[1].obj
<1>8. m[2] = [obj |-> o, half |-> 2]
    <2> HIDE DEF o
    <2>1. m = << [obj |-> o, half |-> 1], [obj |-> o, half |-> 2] >>
        BY <1>5 DEF Pieces, o
    <2>2. QED BY <2>1
<1>9. m[2].obj = o /\ m[2].half = 2
    BY <1>8
<1>10. a + 1 \in 1..Len(data) /\ a + 2 \in 1..Len(data)
    BY <1>1, <1>2, <1>6
<1>11. QED BY <1>6, <1>7, <1>9, <1>10 DEF TwoPieces, Number, a, b, m

\* What a read passes on, behind what was shown before and ahead of the rest.
Begins(data, text, n) ==
    /\ data \in Seq(Piece) /\ Len(data) = n
    /\ \A i \in 1..n : data[i] = text[i]

GoesOn(rest, text, n) ==
    /\ rest \in Seq(Piece) /\ Len(rest) = Len(text) - n
    /\ \A i \in 1..(Len(text) - n) : rest[i] = text[n + i]

\* Every number in s is one of those in the text.
NumbersOf(s, text) ==
    \A i \in 1..Len(s) : IsObject(s[i]) => \E k \in 1..Len(text) : Number(s[i]) = text[k].obj

LEMMA Split ==
    ASSUME NEW text \in Seq(Piece), NEW n \in 1..Len(text)
    PROVE  /\ Begins(SubSeq(text, 1, n), text, n)
           /\ GoesOn(SubSeq(text, n + 1, Len(text)), text, n)
<1> DEFINE m == Len(text)
           data == SubSeq(text, 1, n)
           rest == SubSeq(text, n + 1, m)
<1>1. m \in Nat /\ n \in Nat /\ n <= m /\ n \in 0..m /\ m \in n..m
    BY LenProperties
<1>2. data \in Seq(Piece) /\ Len(data) = n /\ \A i \in 1..n : data[i] = text[i]
    <2>1. /\ SubSeq(text, 0 + 1, n) \in Seq(Piece) /\ Len(SubSeq(text, 0 + 1, n)) = n - 0
          /\ \A i \in 1..(n - 0) : SubSeq(text, 0 + 1, n)[i] = text[0 + i]
        BY <1>1, SubSeqOf
    <2>2. 0 + 1 = 1 /\ n - 0 = n /\ \A i \in 1..n : 0 + i = i
        BY <1>1
    <2>3. QED BY <2>1, <2>2
<1>3. rest \in Seq(Piece) /\ Len(rest) = m - n /\ \A i \in 1..(m - n) : rest[i] = text[n + i]
    BY <1>1, SubSeqOf
<1> HIDE DEF data, rest
<1>4. Begins(data, text, n) /\ GoesOn(rest, text, n)
    BY <1>2, <1>3 DEF Begins, GoesOn
<1>5. QED BY <1>4 DEF data, rest

LEMMA DataKeepsOrder ==
    ASSUME NEW text \in Seq(Piece), Rising(text),
           NEW w \in Seq(Seq(Piece)), InOrder(w, text),
           NEW n \in 1..Len(text), NEW data, Begins(data, text, n), NEW rest, GoesOn(rest, text, n),
           NEW out \in Seq(Seq(Piece)), NEW at, Placed(out, data, at)
    PROVE  /\ Rising(rest) /\ InOrder(w, rest) /\ InOrder(w \o out, rest)
           /\ \A i \in 1..Len(rest) : \E k \in 1..Len(text) : rest[i] = text[k]
           /\ NumbersOf(out, text)
<1> DEFINE m == Len(text)
<1>1. m \in Nat /\ n \in Nat /\ n <= m /\ n > 0
    BY LenProperties
<1>2. data \in Seq(Piece) /\ Len(data) = n /\ \A i \in 1..n : data[i] = text[i]
    BY DEF Begins
<1>3. rest \in Seq(Piece) /\ Len(rest) = m - n /\ \A i \in 1..(m - n) : rest[i] = text[n + i]
    BY DEF GoesOn
<1>4. \A k \in 1..m : text[k].obj \in Nat /\ text[k].half \in {1, 2}
    <2>1. \A k \in 1..m : text[k] \in Piece
        BY ElementOfSeq
    <2>2. QED BY <2>1 DEF Piece
<1>5. \A i \in 1..(m - n) : n + i \in 1..m /\ n + i > n
    BY <1>1
<1>6. Rising(rest)
    <2>1. ASSUME NEW i \in 1..Len(rest), NEW j \in 1..Len(rest), i < j
          PROVE  Earlier(rest[i], rest[j])
        <3>1. n + i \in 1..m /\ n + j \in 1..m /\ n + i < n + j
            BY <1>1, <1>3, <2>1
        <3>2. Earlier(text[n + i], text[n + j])
            BY <3>1 DEF Rising
        <3>3. rest[i] = text[n + i] /\ rest[j] = text[n + j]
            BY <1>3
        <3>4. QED BY <3>2, <3>3
    <2>2. QED BY <2>1 DEF Rising
<1>7. \A i \in 1..Len(rest) : \E k \in 1..m : rest[i] = text[k]
    BY <1>3, <1>5
<1>8. InOrder(w, rest)
    BY <1>7 DEF InOrder
<1>9. Placed(out, data, at)
    OBVIOUS
<1>10. Len(out) \in Nat /\ Len(w) \in Nat
    BY LenProperties
<1> HIDE DEF m
\* The objects of the read, by their pieces.
<1>11. ASSUME NEW i \in 1..Len(out), IsObject(out[i])
       PROVE  /\ at[i - 1] + 1 \in 1..n /\ at[i - 1] + 2 \in 1..n /\ at[i] = at[i - 1] + 2
              /\ at[i - 1] + 1 \in 1..m /\ at[i - 1] + 2 \in 1..m
              /\ Number(out[i]) = text[at[i - 1] + 1].obj
              /\ Number(out[i]) = text[at[i - 1] + 2].obj /\ text[at[i - 1] + 2].half = 2
    <2>1. /\ at[i - 1] + 1 \in 1..n /\ at[i - 1] + 2 \in 1..n
          /\ at[i] = at[i - 1] + 2
          /\ Number(out[i]) = data[at[i - 1] + 1].obj
          /\ Number(out[i]) = data[at[i - 1] + 2].obj /\ data[at[i - 1] + 2].half = 2
        <3>1. TwoPieces(out[i], data, at[i - 1]) /\ at[i] = at[i - 1] + 2
            <4>1. data \in Seq(Piece)
                BY <1>2
            <4>2. \A j \in 1..Len(out) : IsObject(out[j]) =>
                      TwoPieces(out[j], data, at[j - 1]) /\ at[j] = at[j - 1] + 2
                BY <1>9, <1>10, <4>1, ObjectPlaced
            <4>3. QED BY <1>11, <4>2
        <3>2. Len(data) = n
            BY <1>2
        <3>3. QED BY <3>1, <3>2 DEF TwoPieces
    <2>2. \A k \in 1..n : k \in 1..m
        BY <1>1
    <2>3. QED BY <1>2, <2>1, <2>2
<1>12. ASSUME NEW i \in 1..Len(out), IsObject(out[i]), NEW j \in 1..Len(rest)
       PROVE  Number(out[i]) < rest[j].obj
    <2> DEFINE k == at[i - 1] + 2
               l == n + j
    <2>1. /\ k \in 1..n /\ k \in 1..m /\ Number(out[i]) = text[k].obj /\ text[k].half = 2
        BY <1>11, <1>12
    <2>2. l \in 1..m /\ n < l /\ rest[j] = text[l]
        BY <1>3, <1>5, <1>12
    <2> HIDE DEF k, l
    <2>3. k < l
        BY <1>1, <2>1, <2>2
    <2>4. Earlier(text[k], text[l])
        BY <2>1, <2>2, <2>3 DEF Rising, m
    <2>5. /\ text[k].obj \in Nat /\ text[l].obj \in Nat /\ text[l].half \in {1, 2}
        BY <1>4, <2>1, <2>2
    <2>6. text[k].obj < text[l].obj
        BY <2>1, <2>4, <2>5 DEF Earlier
    <2>7. QED BY <2>1, <2>2, <2>6
<1>13. ASSUME NEW i \in 1..Len(out), NEW j \in 1..Len(out), i < j, IsObject(out[i]), IsObject(out[j])
       PROVE  Number(out[i]) < Number(out[j])
    <2> DEFINE k == at[i - 1] + 2
               l == at[j - 1] + 1
    <2>1. /\ k \in 1..m /\ Number(out[i]) = text[k].obj /\ text[k].half = 2 /\ at[i] = k
        BY <1>11, <1>13
    <2>2. l \in 1..m /\ Number(out[j]) = text[l].obj /\ l = at[j - 1] + 1
        BY <1>11, <1>13
    <2>3. at[i] <= at[j - 1]
        <3>1. i \in 0..Len(out) /\ j - 1 \in 0..Len(out) /\ i <= j - 1 /\ Len(data) \in Nat
            BY <1>1, <1>2, <1>10, <1>13
        <3>2. QED BY <1>9, <1>10, <3>1, PlacedLater
    <2>4. at[j - 1] \in Nat /\ at[i] \in Nat
        <3>1. i \in 0..Len(out) /\ j - 1 \in 0..Len(out)
            BY <1>10
        <3>2. at[i] \in 0..n /\ at[j - 1] \in 0..n
            BY <1>2, <1>9, <3>1 DEF Placed
        <3>3. QED BY <1>1, <3>2
    <2> HIDE DEF k, l
    <2>5. k < l
        BY <2>1, <2>2, <2>3, <2>4
    <2>6. Earlier(text[k], text[l])
        BY <2>1, <2>2, <2>5 DEF Rising, m
    <2>7. /\ text[k].obj \in Nat /\ text[l].obj \in Nat /\ text[l].half \in {1, 2}
        BY <1>4, <2>1, <2>2
    <2>8. text[k].obj < text[l].obj
        BY <2>1, <2>6, <2>7 DEF Earlier
    <2>9. QED BY <2>1, <2>2, <2>8
<1>14. ASSUME NEW i \in 1..Len(out), IsObject(out[i])
       PROVE  \E k \in 1..m : Number(out[i]) = text[k].obj
    BY <1>11, <1>14
<1> DEFINE v == w \o out
<1>15. /\ Len(v) = Len(w) + Len(out)
       /\ \A i \in 1..(Len(w) + Len(out)) : v[i] = IF i <= Len(w) THEN w[i] ELSE out[i - Len(w)]
    BY ConcatProperties
<1> HIDE DEF v
<1>16. \A i \in 1..Len(v) : \/ i \in 1..Len(w) /\ v[i] = w[i]
                            \/ i > Len(w) /\ i - Len(w) \in 1..Len(out) /\ v[i] = out[i - Len(w)]
    <2>1. ASSUME NEW i \in 1..Len(v), i <= Len(w) PROVE i \in 1..Len(w) /\ v[i] = w[i]
        BY <1>10, <1>15, <2>1
    <2>2. ASSUME NEW i \in 1..Len(v), ~(i <= Len(w))
          PROVE  i > Len(w) /\ i - Len(w) \in 1..Len(out) /\ v[i] = out[i - Len(w)]
        BY <1>10, <1>15, <2>2
    <2>3. QED BY <2>1, <2>2
<1>17. InOrder(v, rest)
    <2>1. ASSUME NEW i \in 1..Len(v), IsObject(v[i]), NEW j \in 1..Len(rest)
          PROVE  Number(v[i]) < rest[j].obj
        <3>1. CASE i \in 1..Len(w) /\ v[i] = w[i]
            BY <1>8, <2>1, <3>1 DEF InOrder
        <3>2. CASE i - Len(w) \in 1..Len(out) /\ v[i] = out[i - Len(w)]
            BY <1>12, <2>1, <3>2
        <3>3. QED BY <1>16, <3>1, <3>2
    <2>2. ASSUME NEW i \in 1..Len(v), NEW j \in 1..Len(v), i < j, IsObject(v[i]), IsObject(v[j])
          PROVE  Number(v[i]) < Number(v[j])
        <3>1. CASE i \in 1..Len(w) /\ v[i] = w[i] /\ j \in 1..Len(w) /\ v[j] = w[j]
            BY <2>2, <3>1 DEF InOrder
        <3>2. CASE i \in 1..Len(w) /\ v[i] = w[i]
                   /\ j - Len(w) \in 1..Len(out) /\ v[j] = out[j - Len(w)]
            <4>1. PICK k \in 1..m : Number(v[j]) = text[k].obj
                BY <1>14, <2>2, <3>2
            <4>2. Number(w[i]) < text[k].obj
                BY <2>2, <3>2 DEF InOrder, m
            <4>3. QED BY <3>2, <4>1, <4>2
        <3>3. CASE /\ i > Len(w) /\ i - Len(w) \in 1..Len(out) /\ v[i] = out[i - Len(w)]
                   /\ j - Len(w) \in 1..Len(out) /\ v[j] = out[j - Len(w)]
            <4>1. i - Len(w) < j - Len(w)
                BY <1>10, <2>2
            <4>2. QED BY <1>13, <2>2, <3>3, <4>1
        <3>4. ~(i > Len(w) /\ j \in 1..Len(w))
            BY <1>10, <2>2
        <3>5. QED BY <1>16, <3>1, <3>2, <3>3, <3>4
    <2>3. QED BY <2>1, <2>2 DEF InOrder
<1>18. QED BY <1>6, <1>7, <1>8, <1>14, <1>17 DEF v, m, NumbersOf

\* The latest of an ordered history are ordered.
LEMMA LastInOrder ==
    ASSUME NEW w \in Seq(Seq(Piece)), NEW r, InOrder(w, r)
    PROVE  /\ InOrder(LastOf(w), r)
           /\ \A i \in 1..Len(LastOf(w)) : \E k \in 1..Len(w) : LastOf(w)[i] = w[k]
<1> DEFINE v == LastOf(w)
           d == Len(w) - Held(Len(w))
<1>1. Len(w) \in Nat /\ Held(Len(w)) \in 0..Len(w)
    BY LenProperties, HeldIs
<1>2. Len(v) = Held(Len(w)) /\ \A i \in 1..Held(Len(w)) : v[i] = w[d + i]
    BY LastOfIs
<1>3. \A i \in 1..Len(v) : d + i \in 1..Len(w)
    BY <1>1, <1>2
<1>4. \A i, j \in 1..Len(v) : i < j => d + i < d + j
    BY <1>1, <1>2
<1> HIDE DEF v, d
<1>5. ASSUME NEW i \in 1..Len(v), IsObject(v[i])
      PROVE  /\ \A j \in 1..Len(r) : Number(v[i]) < r[j].obj
             /\ \A j \in 1..Len(v) : i < j /\ IsObject(v[j]) => Number(v[i]) < Number(v[j])
    BY <1>2, <1>3, <1>4, <1>5 DEF InOrder
<1>6. InOrder(v, r)
    BY <1>5 DEF InOrder
<1>7. \A i \in 1..Len(v) : \E k \in 1..Len(w) : v[i] = w[k]
    BY <1>2, <1>3
<1>8. QED BY <1>6, <1>7 DEF v

LEMMA SameOrder ==
    ASSUME OrderInv, toUi' = toUi, spy_Message' = spy_Message,
           Linked' => Linked /\ pktcount' = pktcount
    PROVE  OrderInv'
<1>1. Rising(toUi)' /\ InOrder(spy_Message, toUi)'
    BY DEF OrderInv
<1>2. Linked' => NothingAhead'
    BY DEF OrderInv, NothingAhead
<1>3. QED BY <1>1, <1>2 DEF OrderInv

LEMMA NoOrder ==
    ASSUME toUi' = <<>>, spy_Message' = <<>>
    PROVE  OrderInv'
<1> DEFINE e == <<>>
<1>1. Len(e) = 0 /\ toUi' = e /\ spy_Message' = e
    OBVIOUS
<1> HIDE DEF e
<1>2. Rising(e) /\ InOrder(e, e)
    BY <1>1 DEF Rising, InOrder
<1>3. NothingAhead'
    BY <1>1 DEF NothingAhead
<1>4. QED BY <1>1, <1>2, <1>3 DEF OrderInv

LEMMA PiecesAre ==
    ASSUME NEW o \in Nat
    PROVE  /\ Pieces(o) \in Seq(Piece) /\ Len(Pieces(o)) = 2
           /\ Pieces(o)[1] = [obj |-> o, half |-> 1] /\ Pieces(o)[2] = [obj |-> o, half |-> 2]
BY DEF Pieces, Piece

\* The server's first piece.
LEMMA FirstWriteOrder ==
    ASSUME pktcount \in Nat, pktcount' = pktcount, toUi' = Pieces(pktcount), spy_Message' = <<>>
    PROVE  OrderInv'
<1> DEFINE e == <<>>
           s == Pieces(pktcount)
<1>1. Len(e) = 0 /\ toUi' = s /\ spy_Message' = e
    OBVIOUS
<1>2. /\ Len(s) = 2 /\ s[1].obj = pktcount /\ s[1].half = 1 /\ s[2].obj = pktcount /\ s[2].half = 2
    <2>1. Len(s) = 2 /\ s[1] = [obj |-> pktcount, half |-> 1] /\ s[2] = [obj |-> pktcount, half |-> 2]
        BY PiecesAre
    <2> HIDE DEF s
    <2>2. QED BY <2>1
<1> HIDE DEF e, s
<1>3. \A i \in 1..Len(s) : i = 1 \/ i = 2
    BY <1>2
<1>4. Rising(s)
    <2>1. ASSUME NEW i \in 1..Len(s), NEW j \in 1..Len(s), i < j PROVE Earlier(s[i], s[j])
        <3>1. i = 1 /\ j = 2
            BY <1>3, <2>1
        <3>2. QED BY <1>2, <3>1 DEF Earlier
    <2>2. QED BY <2>1 DEF Rising
<1>5. \A i \in 1..Len(s) : s[i].obj <= pktcount
    BY <1>2, <1>3
<1>6. InOrder(e, s)
    BY <1>1 DEF InOrder
<1>7. NothingAhead'
    BY <1>1, <1>5 DEF NothingAhead
<1>8. QED BY <1>1, <1>4, <1>6, <1>7 DEF OrderInv

LEMMA NumberIsNat ==
    ASSUME NEW w \in Seq(Seq(Piece)), NEW i \in 1..Len(w), IsObject(w[i])
    PROVE  Number(w[i]) \in Nat
<1>1. w[i] \in Seq(Piece) /\ Len(w[i]) = 2
    BY ElementOfSeq DEF IsObject
<1>2. w[i][1] \in Piece
    BY <1>1, ElementOfSeq
<1>3. QED BY <1>2 DEF Piece, Number

\* A piece with the next number.
LEMMA NextWriteOrder ==
    ASSUME OrderInv, HistoryInv, Linked, pktcount' = pktcount + 1,
           toUi' = toUi \o Pieces(pktcount + 1), spy_Message' = spy_Message
    PROVE  OrderInv'
<1> DEFINE x == Pieces(pktcount + 1)
           s == toUi \o x
           n == pktcount
           l == Len(toUi)
<1>1. n \in Nat /\ n + 1 \in Nat /\ l \in Nat /\ toUi \in Seq(Piece)
    BY LenProperties DEF HistoryInv
<1>2. /\ x \in Seq(Piece) /\ Len(x) = 2
      /\ x[1].obj = n + 1 /\ x[1].half = 1 /\ x[2].obj = n + 1 /\ x[2].half = 2
    <2>1. /\ x \in Seq(Piece) /\ Len(x) = 2
          /\ x[1] = [obj |-> n + 1, half |-> 1] /\ x[2] = [obj |-> n + 1, half |-> 2]
        BY <1>1, PiecesAre
    <2> HIDE DEF x
    <2>2. QED BY <2>1
<1> HIDE DEF x
<1>3. /\ Len(s) = l + 2
      /\ \A i \in 1..(l + 2) : s[i] = IF i <= l THEN toUi[i] ELSE x[i - l]
    <2>1. /\ Len(s) = Len(toUi) + Len(x)
          /\ \A i \in 1..(Len(toUi) + Len(x)) : s[i] = IF i <= Len(toUi) THEN toUi[i] ELSE x[i - Len(toUi)]
        BY <1>1, <1>2, ConcatProperties
    <2>2. QED BY <1>2, <2>1
<1>4. toUi' = s
    BY DEF s, x
<1> HIDE DEF s
<1>5. NothingAhead
    BY DEF OrderInv
<1>6. \A i \in 1..l : toUi[i].obj \in Nat /\ toUi[i].obj <= n /\ s[i] = toUi[i]
    <2>1. \A i \in 1..l : toUi[i] \in Piece
        BY <1>1, ElementOfSeq
    <2>2. \A i \in 1..l : toUi[i].obj \in Nat
        BY <2>1 DEF Piece
    <2>3. \A i \in 1..l : i \in 1..(l + 2) /\ i <= l
        BY <1>1
    <2>4. QED BY <1>3, <1>5, <2>2, <2>3 DEF NothingAhead
<1>7. /\ s[l + 1].obj = n + 1 /\ s[l + 1].half = 1
      /\ s[l + 2].obj = n + 1 /\ s[l + 2].half = 2
    <2>1. /\ l + 1 \in 1..(l + 2) /\ ~(l + 1 <= l) /\ (l + 1) - l = 1
          /\ l + 2 \in 1..(l + 2) /\ ~(l + 2 <= l) /\ (l + 2) - l = 2
        BY <1>1
    <2>2. s[l + 1] = x[1] /\ s[l + 2] = x[2]
        BY <1>3, <2>1
    <2>3. QED BY <1>2, <2>2
<1>8. \A i \in 1..Len(s) : i \in 1..l \/ i = l + 1 \/ i = l + 2
    BY <1>1, <1>3
<1>9. Rising(s)
    <2>1. ASSUME NEW i \in 1..Len(s), NEW j \in 1..Len(s), i < j PROVE Earlier(s[i], s[j])
        <3>1. CASE i \in 1..l /\ j \in 1..l
            BY <1>6, <2>1, <3>1 DEF OrderInv, Rising
        <3>2. CASE i \in 1..l /\ j \in {l + 1, l + 2}
            <4>1. s[i].obj \in Nat /\ s[i].obj <= n /\ s[j].obj = n + 1
                BY <1>6, <1>7, <3>2
            <4>2. s[i].obj < s[j].obj
                BY <1>1, <4>1
            <4>3. QED BY <4>2 DEF Earlier
        <3>3. CASE i = l + 1 /\ j = l + 2
            BY <1>7, <3>3 DEF Earlier
        <3>4. \/ i \in 1..l /\ j \in 1..l
              \/ i \in 1..l /\ j \in {l + 1, l + 2}
              \/ i = l + 1 /\ j = l + 2
            BY <1>1, <1>8, <2>1
        <3>5. QED BY <3>1, <3>2, <3>3, <3>4
    <2>2. QED BY <2>1 DEF Rising
<1>10. InOrder(spy_Message, s)
    <2>1. ASSUME NEW i \in 1..Len(spy_Message), IsObject(spy_Message[i]), NEW j \in 1..Len(s)
          PROVE  Number(spy_Message[i]) < s[j].obj
        <3>1. CASE j \in 1..l
            BY <1>6, <2>1, <3>1 DEF OrderInv, InOrder
        <3>2. CASE j \in {l + 1, l + 2}
            <4>1. Number(spy_Message[i]) <= n
                BY <1>5, <2>1 DEF NothingAhead
            <4>2. Number(spy_Message[i]) \in Nat
                BY <2>1, NumberIsNat DEF HistoryInv
            <4>3. s[j].obj = n + 1
                BY <1>7, <3>2
            <4>4. QED BY <1>1, <4>1, <4>2, <4>3
        <3>3. QED BY <1>8, <3>1, <3>2
    <2>2. QED BY <2>1 DEF OrderInv, InOrder
<1>11. NothingAhead'
    <2>1. \A i \in 1..Len(s) : s[i].obj <= n + 1
        <3>1. ASSUME NEW i \in 1..Len(s) PROVE s[i].obj <= n + 1
            <4>1. CASE i \in 1..l
                BY <1>1, <1>6, <4>1
            <4>2. CASE i \in {l + 1, l + 2}
                BY <1>1, <1>7, <4>2
            <4>3. QED BY <1>8, <4>1, <4>2
        <3>2. QED BY <3>1
    <2>2. ASSUME NEW i \in 1..Len(spy_Message), IsObject(spy_Message[i])
          PROVE  Number(spy_Message[i]) <= n + 1
        <3>1. Number(spy_Message[i]) <= n
            BY <1>5, <2>2 DEF NothingAhead
        <3>2. Number(spy_Message[i]) \in Nat
            BY <2>2, NumberIsNat DEF HistoryInv
        <3>3. QED BY <1>1, <3>1, <3>2
    <2>3. QED BY <1>4, <2>1, <2>2 DEF NothingAhead
<1>12. QED BY <1>4, <1>9, <1>10, <1>11 DEF OrderInv

LEMMA ReadKeepsOrder ==
    ASSUME CountInv, SpyData
    PROVE  OrderInv'
<1>1. HistoryInv /\ HistoryInv'
    BY DataKeepsHistory DEF CountInv
<1>2. PICK n \in 1..Len(toUi) :
          LET data == SubSeq(toUi, 1, n)
              out == Emissions(data)
          IN  /\ toUi' = SubSeq(toUi, n + 1, Len(toUi))
              /\ IF spyClients # <<>> THEN latest' = LastOf(latest \o out)
                 ELSE UNCHANGED <<spy_totMsg, spy_Message, latest>>
    BY DEF SpyData
<1> DEFINE data == SubSeq(toUi, 1, n)
           rest == SubSeq(toUi, n + 1, Len(toUi))
           out == Emissions(data)
           w == spy_Message
<1>3. toUi \in Seq(Piece) /\ w \in Seq(Seq(Piece)) /\ Rising(toUi) /\ InOrder(w, toUi)
    BY DEF CountInv, HistoryInv, OrderInv
<1>4. Begins(data, toUi, n) /\ GoesOn(rest, toUi, n)
    BY <1>3, Split
<1>5. toUi' = rest
    BY <1>2
<1>6. (spyClients # <<>> /\ latest' = LastOf(latest \o out)) \/ spy_Message' = spy_Message
    BY <1>2
<1> HIDE DEF data, rest
<1>7. data \in Seq(Piece) /\ Len(data) > 0
    BY <1>4 DEF Begins
<1>8. out \in Seq(Seq(Piece))
    BY <1>7, EmissionsAre
<1>9. PICK at : Placed(out, data, at)
    BY <1>7, EmissionsPlaced
<1> HIDE DEF out, w
<1>10. /\ Rising(rest) /\ InOrder(w, rest) /\ InOrder(w \o out, rest)
       /\ \A i \in 1..Len(rest) : \E k \in 1..Len(toUi) : rest[i] = toUi[k]
       /\ NumbersOf(out, toUi)
    BY <1>3, <1>4, <1>8, <1>9, DataKeepsOrder
<1>11. ASSUME Linked'
       PROVE  NothingAhead /\ pktcount' = pktcount
    BY <1>11 DEF CountInv, OrderInv, SpyData, Linked, captureVars
<1>12. ASSUME Linked', NEW i \in 1..Len(rest) PROVE rest[i].obj <= pktcount
    BY <1>10, <1>11, <1>12 DEF NothingAhead
<1>13. ASSUME Linked', NEW i \in 1..Len(w), IsObject(w[i]) PROVE Number(w[i]) <= pktcount
    BY <1>11, <1>13 DEF NothingAhead, w
<1>14. CASE spy_Message' = spy_Message
    <2>1. InOrder(spy_Message, toUi)' /\ Rising(toUi)'
        BY <1>5, <1>10, <1>14 DEF w
    <2>2. Linked' => NothingAhead'
        BY <1>5, <1>11, <1>12, <1>13, <1>14 DEF NothingAhead, w
    <2>3. QED BY <2>1, <2>2 DEF OrderInv
<1>15. CASE latest' = LastOf(latest \o out)
    <2> DEFINE v == w \o out
    <2>1. spy_Message' = LastOf(v)
        BY <1>1, <1>15 DEF HistoryInv, w
    <2>2. v \in Seq(Seq(Piece)) /\ Len(v) = Len(w) + Len(out) /\ Len(w) \in Nat /\ Len(out) \in Nat
          /\ \A i \in 1..(Len(w) + Len(out)) : v[i] = IF i <= Len(w) THEN w[i] ELSE out[i - Len(w)]
        BY <1>3, <1>8, ConcatProperties, LenProperties
    <2>3. InOrder(v, rest)
        BY <1>10
    <2> HIDE DEF v
    <2>4. /\ InOrder(LastOf(v), rest)
          /\ \A i \in 1..Len(LastOf(v)) : \E k \in 1..Len(v) : LastOf(v)[i] = v[k]
        BY <2>2, <2>3, LastInOrder
    <2>5. ASSUME Linked', NEW k \in 1..Len(v), IsObject(v[k]) PROVE Number(v[k]) <= pktcount
        <3>1. CASE k <= Len(w)
            <4>1. k \in 1..Len(w) /\ v[k] = w[k]
                BY <2>2, <3>1
            <4>2. QED BY <1>13, <2>5, <4>1
        <3>2. CASE ~(k <= Len(w))
            <4>1. k - Len(w) \in 1..Len(out) /\ v[k] = out[k - Len(w)]
                BY <2>2, <3>2
            <4>2. PICK l \in 1..Len(toUi) : Number(v[k]) = toUi[l].obj
                BY <1>10, <2>5, <4>1 DEF NumbersOf
            <4>3. QED BY <1>11, <2>5, <4>2 DEF NothingAhead
        <3>3. QED BY <3>1, <3>2
    <2>6. InOrder(spy_Message, toUi)' /\ Rising(toUi)'
        BY <1>5, <1>10, <2>1, <2>4
    <2>7. ASSUME Linked' PROVE NothingAhead'
        <3>1. ASSUME NEW i \in 1..Len(LastOf(v)), IsObject(LastOf(v)[i])
              PROVE  Number(LastOf(v)[i]) <= pktcount
            BY <2>4, <2>5, <2>7, <3>1
        <3>2. ASSUME NEW i \in 1..Len(rest) PROVE rest[i].obj <= pktcount
            BY <1>12, <2>7
        <3>3. pktcount' = pktcount
            BY <1>11, <2>7
        <3>4. QED BY <1>5, <2>1, <3>1, <3>2, <3>3 DEF NothingAhead
    <2>8. QED BY <2>6, <2>7 DEF OrderInv
<1>16. QED BY <1>6, <1>14, <1>15

LEMMA CountInvariance == SpySpec => []CountInv
<1>1. SpyInit => LineInv /\ OrderInv
    <2>1. SUFFICES ASSUME SpyInit PROVE LineInv /\ OrderInv
        OBVIOUS
    <2> DEFINE e == <<>>
    <2>2. Len(e) = 0 /\ toUi = e /\ spy_Message = e
        BY <2>1 DEF SpyInit, SocketInit, ServerBlank
    <2> HIDE DEF e
    <2>3. OrderInv
        BY <2>2 DEF OrderInv, Rising, InOrder, NothingAhead
    <2>4. LineInv
        BY <2>1 DEF SpyInit, SocketInit, ServerBlank, LineInv, NoFd, Linked
    <2>5. QED BY <2>3, <2>4
<1>2. CountInv /\ [SpyNext]_feedVars => LineInv' /\ OrderInv'
    <2>1. SUFFICES ASSUME CountInv, [SpyNext]_feedVars PROVE LineInv' /\ OrderInv'
        OBVIOUS
    <2> USE DEF CountInv, NoFd
    <2>2. CASE StartCapture
        <3>1. ~Linked'
            BY <2>1, <2>2 DEF StartCapture, Linked, LineInv, LinkInv, socketVars
        <3>2. toUi' = toUi /\ spy_Message' = spy_Message
            BY <2>2 DEF StartCapture, socketVars, spyVars
        <3>3. LineInv'
            BY <2>1, <2>2, <3>1, <3>2 DEF StartCapture, LineInv, socketVars
        <3>4. QED BY <2>1, <3>1, <3>2, <3>3, SameOrder
    <2>3. CASE CaptureWaits \/ CaptureSees
        <3>1. UNCHANGED <<toUi, spy_Message, pktcount, capture, dspfd, server, life, accepted>>
            BY <2>3 DEF CaptureWaits, CaptureSees, StartWaiting, FileSeen, captureVars, spyVars
        <3>2. LineInv'
            BY <2>1, <3>1 DEF LineInv, Linked
        <3>3. Linked' => Linked
            BY <3>1 DEF Linked
        <3>4. QED BY <2>1, <3>1, <3>2, <3>3, SameOrder
    <2>4. CASE CaptureConnects
        <3> USE DEF CaptureConnects, Connect
        <3>1. CASE server = "up" /\ path = life
            <4>1. accepted = 0 /\ spy_Message = <<>> /\ accepted' = 1
                BY <2>1, <2>4, <3>1 DEF LinkInv, LineInv
            <4>2. LineInv'
                BY <2>1, <2>4, <3>1, <4>1 DEF LinkInv, LineInv, Linked
            <4>3. spy_Message' = <<>> /\ pktcount' = pktcount
                BY <2>4, <4>1 DEF spyVars
            <4>4. toUi' = <<>> \/ toUi' = Pieces(pktcount)
                BY <2>4, <3>1
            <4>5. OrderInv'
                BY <2>1, <4>3, <4>4, NoOrder, FirstWriteOrder DEF HistoryInv
            <4>6. QED BY <4>2, <4>5
        <3>2. CASE ~(server = "up" /\ path = life)
            <4>1. UNCHANGED <<toUi, spy_Message, pktcount, dspfd, server, life, accepted>>
                BY <2>4, <3>2 DEF spyVars
            <4>2. LineInv'
                BY <2>1, <2>4, <4>1 DEF LineInv, Linked
            <4>3. Linked' => Linked
                BY <4>1 DEF Linked
            <4>4. QED BY <2>1, <4>1, <4>2, <4>3, SameOrder
        <3>3. QED BY <3>1, <3>2
    <2>5. ASSUME NEW f \in Frames, Receive(f) PROVE LineInv' /\ OrderInv'
        <3> USE <2>5 DEF Receive, HandlePkt
        <3>1. /\ capture = "loop" /\ pktcount' = pktcount + 1
              /\ UNCHANGED <<capture, server, life, accepted, spy_Message>>
            BY DEF spyVars, StartWaiting
        <3>2. CASE dspfd = NoFd
            <4>1. UNCHANGED <<toUi, dspfd>>
                BY <3>2 DEF StartWaiting
            <4>2. ~Linked'
                BY <2>1, <3>1, <3>2, <4>1 DEF Linked, LinkInv
            <4>3. LineInv'
                BY <2>1, <3>1, <4>1, <4>2 DEF LineInv
            <4>4. QED BY <2>1, <3>1, <4>1, <4>2, <4>3, SameOrder
        <3>3. CASE dspfd # NoFd /\ Linked
            <4>1. toUi' = toUi \o Pieces(pktcount + 1) /\ dspfd' = dspfd
                BY <3>3 DEF Put
            <4>2. LineInv'
                BY <2>1, <3>1, <3>3, <4>1 DEF LineInv, Linked
            <4>3. OrderInv'
                BY <2>1, <3>1, <3>3, <4>1, NextWriteOrder
            <4>4. QED BY <4>2, <4>3
        <3>4. CASE dspfd # NoFd /\ ~Linked
            <4>1. toUi' = toUi /\ dspfd' = NoFd
                BY <3>4 DEF Put
            <4>2. ~Linked'
                BY <2>1, <3>1, <4>1 DEF Linked, LinkInv
            <4>3. LineInv'
                BY <2>1, <3>1, <4>1, <4>2 DEF LineInv, LinkInv
            <4>4. QED BY <2>1, <3>1, <4>1, <4>2, <4>3, SameOrder
        <3>5. QED BY <3>2, <3>3, <3>4
    <2>6. CASE CaptureEnds
        <3>1. dspfd' = NoFd /\ UNCHANGED <<toUi, spy_Message, server, life, accepted>>
            BY <2>6 DEF CaptureEnds, DaemonRestart, spyVars
        <3>2. ~Linked'
            BY <2>1, <3>1 DEF Linked, LinkInv
        <3>3. LineInv'
            BY <2>1, <3>1, <3>2 DEF LineInv, LinkInv
        <3>4. QED BY <2>1, <3>1, <3>2, <3>3, SameOrder
    <2>7. CASE ServerStart /\ UNCHANGED <<captureVars, spyVars>>
        <3>1. toUi' = <<>> /\ spy_Message' = <<>>
            BY <2>1, <2>7 DEF ServerStart, spyVars, LineInv
        <3>2. LineInv'
            BY <2>1, <2>7, <3>1 DEF ServerStart, captureVars, LineInv, LinkInv, Linked
        <3>3. QED BY <3>1, <3>2, NoOrder
    <2>8. CASE (UnlinkDone \/ Listen) /\ UNCHANGED <<captureVars, spyVars>>
        <3>1. UNCHANGED <<toUi, spy_Message, pktcount, capture, dspfd, life, accepted>>
            BY <2>8 DEF UnlinkDone, Listen, captureVars, spyVars
        <3>2. LineInv' /\ (Linked' => Linked)
            BY <2>1, <2>8, <3>1 DEF UnlinkDone, Listen, LineInv, LinkInv, Linked
        <3>3. QED BY <2>1, <3>1, <3>2, SameOrder
    <2>9. CASE ServerDies /\ Forget /\ UNCHANGED captureVars
        <3>1. toUi' = <<>> /\ spy_Message' = <<>>
            BY <2>9 DEF ServerDies, Forget
        <3>2. LineInv'
            BY <2>1, <2>9, <3>1 DEF ServerDies, captureVars, LineInv, Linked
        <3>3. QED BY <3>1, <3>2, NoOrder
    <2>10. CASE SpyData
        <3>1. OrderInv'
            BY <2>1, <2>10, ReadKeepsOrder
        <3>2. server = "up" /\ toUi # <<>>
            BY <2>10 DEF SpyData
        <3>3. LineInv'
            BY <2>1, <2>10, <3>2 DEF SpyData, captureVars, LineInv, Linked
        <3>4. QED BY <3>1, <3>3
    <2>11. CASE (\E v \in Viewers : ViewerComes(v) \/ ViewerGoes(v)) \/ UNCHANGED feedVars
        <3>1. UNCHANGED <<toUi, spy_Message, pktcount, capture, dspfd, server, life, accepted>>
            BY <2>11 DEF ViewerComes, ViewerGoes, feedVars, socketVars, captureVars, spyVars
        <3>2. LineInv' /\ (Linked' => Linked)
            BY <2>1, <3>1 DEF LineInv, Linked
        <3>3. QED BY <2>1, <3>1, <3>2, SameOrder
    <2>12. QED BY <2>1, <2>2, <2>3, <2>4, <2>5, <2>6, <2>7, <2>8, <2>9, <2>10, <2>11
        DEF SpyNext, CaptureNext, SpyLives
<1>3. QED BY <1>1, <1>2, SpyLinkInvariance, HistoryInvariance, PTL DEF SpySpec, CountInv

\* The objects in the history have increasing numbers, although the count starts
\* anew with the capture program: one that was restarted has no connection and
\* gets none with the server it fed before (aprs-ax25.c:576-583, 685).
THEOREM TheCountsIncrease == SpySpec => []CountsIncrease
<1>1. CountInv => CountsIncrease
    <2>1. SUFFICES ASSUME CountInv,
                          NEW i \in DOMAIN spy_Message, NEW j \in DOMAIN spy_Message, i < j,
                          IsObject(spy_Message[i]), IsObject(spy_Message[j])
                   PROVE  spy_Message[i][1].obj < spy_Message[j][1].obj
        BY DEF CountsIncrease
    <2>2. DOMAIN spy_Message = 1..Len(spy_Message)
        BY <2>1, LenProperties DEF CountInv, HistoryInv
    <2>3. QED BY <2>1, <2>2 DEF CountInv, OrderInv, InOrder, Number
<1>2. QED BY <1>1, CountInvariance, PTL

-----------------------------------------------------------------------------
(* The types of the packet spy.                                            *)

\* What the history's proof leaves open: the connection, the counts, the pages.
FeedTypes ==
    /\ daemon \in {"loop", "wait", "settle"}
    /\ dspfd \in {NoFd} \cup 1..MaxLives
    /\ life \in 0..MaxLives
    /\ unlinking \in BOOLEAN

CaptureTypes ==
    /\ capture \in {"off", "link", "loop"} /\ tncfd \in {"none", "stdout", "rx"}
    /\ pktcount \in 0..spied /\ spied \in 0..MaxSpied

PageTypes ==
    /\ spyClients \in Seq(Viewers) /\ viewing \subseteq Viewers
    /\ index \in [Viewers -> Nat]

LEMMA SpliceTypes ==
    ASSUME NEW list \in Seq(Viewers), NEW i \in Nat
    PROVE  Splice(list, i) \in Seq(Viewers)
<1>1. CASE i + 1 \in DOMAIN list
    <2> DEFINE a == SubSeq(list, 1, (i + 1) - 1)
               b == SubSeq(list, (i + 1) + 1, Len(list))
    <2>1. i + 1 \in 1..Len(list) /\ Len(list) \in Nat
        BY <1>1, LenProperties
    <2>2. a \in Seq(Viewers)
        <3>1. /\ SubSeq(list, 0 + 1, i) \in Seq(Viewers)
            BY <2>1, SubSeqOf
        <3>2. 0 + 1 = 1 /\ (i + 1) - 1 = i
            OBVIOUS
        <3>3. QED BY <3>1, <3>2
    <2>3. b \in Seq(Viewers)
        BY <2>1, SubSeqOf
    <2>4. Splice(list, i) = a \o b
        BY <1>1 DEF Splice, RemoveAt
    <2> HIDE DEF a, b
    <2>5. QED BY <2>2, <2>3, <2>4, ConcatProperties
<1>2. CASE i + 1 \notin DOMAIN list
    BY <1>2 DEF Splice
<1>3. QED BY <1>1, <1>2

\* The connection, whoever acts on it.
LEMMA SocketKeepsTypes ==
    ASSUME FeedTypes, LinkInv,
           \/ StartWaiting \/ FileSeen \/ (\E pieces : Connect(pieces)) \/ DaemonRestart
           \/ ServerStart \/ UnlinkDone \/ Listen \/ ServerDies
           \/ UNCHANGED <<daemon, dspfd, life, unlinking>>
    PROVE  FeedTypes'
<1> USE LivesAssumption DEF NoFd, FeedTypes
<1>1. CASE StartWaiting \/ FileSeen \/ DaemonRestart
    BY <1>1 DEF StartWaiting, FileSeen, DaemonRestart
<1>2. ASSUME NEW pieces, Connect(pieces) PROVE FeedTypes'
    <2>1. daemon' = "loop" /\ UNCHANGED <<life, unlinking>>
        BY <1>2 DEF Connect
    <2>2. dspfd' = dspfd \/ (dspfd' = life /\ server = "up")
        BY <1>2 DEF Connect
    <2>3. server = "up" => life \in 1..MaxLives
        BY DEF LinkInv
    <2>4. QED BY <2>1, <2>2, <2>3
<1>3. CASE ServerStart
    <2>1. life' = life + 1 /\ life < MaxLives /\ unlinking' = TRUE /\ UNCHANGED <<daemon, dspfd>>
        BY <1>3 DEF ServerStart
    <2>2. life' \in 0..MaxLives
        BY <2>1
    <2>3. QED BY <2>1, <2>2
<1>4. CASE UnlinkDone \/ Listen \/ ServerDies
    BY <1>4 DEF UnlinkDone, Listen, ServerDies
<1>5. CASE UNCHANGED <<daemon, dspfd, life, unlinking>>
    BY <1>5
<1>6. QED BY <1>1, <1>2, <1>3, <1>4, <1>5

LEMMA FeedInvariance == SpySpec => []FeedTypes
<1>1. SpyInit => FeedTypes
    <2>1. SUFFICES ASSUME SpyInit PROVE FeedTypes
        OBVIOUS
    <2>2. daemon = "loop" /\ dspfd = NoFd /\ life = 0
        BY <2>1 DEF SpyInit, SocketInit
    <2>3. unlinking \in BOOLEAN
        BY <2>1, Zenon DEF SpyInit, SocketInit
    <2>4. 0 \in 0..MaxLives
        BY LivesAssumption
    <2>5. QED BY <2>2, <2>3, <2>4 DEF FeedTypes
<1>2. LinkInv /\ FeedTypes /\ [SpyNext]_feedVars => FeedTypes'
    <2> SUFFICES ASSUME LinkInv, FeedTypes, [SpyNext]_feedVars PROVE FeedTypes'
        OBVIOUS
    <2>1. ASSUME NEW f \in Frames, Receive(f) PROVE FeedTypes'
        <3>1. CASE dspfd = NoFd
            BY <2>1, <3>1, SocketKeepsTypes DEF Receive, HandlePkt
        <3>2. CASE dspfd # NoFd
            <4>1. dspfd' \in {dspfd, NoFd} /\ UNCHANGED <<daemon, life, unlinking>>
                BY <2>1, <3>2 DEF Receive, HandlePkt, Put
            <4>2. QED BY <4>1 DEF FeedTypes
        <3>3. QED BY <3>1, <3>2
    <2>2. CASE StartCapture
        <3>1. UNCHANGED <<daemon, dspfd, life, unlinking>>
            BY <2>2 DEF StartCapture, socketVars
        <3>2. QED BY <3>1, SocketKeepsTypes
    <2>3. CASE CaptureWaits \/ CaptureSees \/ CaptureEnds
        BY <2>3, SocketKeepsTypes DEF CaptureWaits, CaptureSees, CaptureEnds
    <2>4. CASE CaptureConnects
        BY <2>4, SocketKeepsTypes DEF CaptureConnects
    <2>5. CASE SpyLives
        BY <2>5, SocketKeepsTypes DEF SpyLives
    <2>6. CASE SpyData \/ (\E v \in Viewers : ViewerComes(v) \/ ViewerGoes(v)) \/ UNCHANGED feedVars
        <3>1. UNCHANGED <<daemon, dspfd, life, unlinking>>
            BY <2>6 DEF SpyData, ViewerComes, ViewerGoes, feedVars, socketVars
        <3>2. QED BY <3>1, SocketKeepsTypes
    <2>7. QED BY <2>1, <2>2, <2>3, <2>4, <2>5, <2>6 DEF SpyNext, CaptureNext
<1>3. QED BY <1>1, <1>2, SpyLinkInvariance, PTL DEF SpySpec

LEMMA CaptureInvariance == SpySpec => []CaptureTypes
<1>1. SpyInit => CaptureTypes
    BY SpyAssumption DEF SpyInit, CaptureTypes
<1>2. CaptureTypes /\ [SpyNext]_feedVars => CaptureTypes'
    <2> SUFFICES ASSUME CaptureTypes, [SpyNext]_feedVars PROVE CaptureTypes'
        OBVIOUS
    <2> USE SpyAssumption DEF CaptureTypes
    <2>1. CASE StartCapture
        <3>1. capture' = "link" /\ pktcount' = 0 /\ spied' = spied
            BY <2>1 DEF StartCapture
        <3>2. tncfd' \in {"none", "stdout", "rx"}
            BY <2>1 DEF StartCapture, Aprsax25Connect
        <3>3. QED BY <3>1, <3>2
    <2>2. CASE CaptureWaits \/ CaptureSees \/ CaptureConnects \/ CaptureEnds
        <3>1. /\ UNCHANGED <<pktcount, spied>> /\ capture' \in {capture, "loop", "off"}
              /\ tncfd' \in {tncfd, "none"}
            BY <2>2 DEF CaptureWaits, CaptureSees, CaptureConnects, CaptureEnds, captureVars
        <3>2. QED BY <3>1
    <2>3. ASSUME NEW f \in Frames, Receive(f) PROVE CaptureTypes'
        <3>1. /\ UNCHANGED <<capture, tncfd>> /\ spied < MaxSpied
              /\ pktcount' = pktcount + 1 /\ spied' = spied + 1
            BY <2>3 DEF Receive, HandlePkt
        <3>2. QED BY <3>1
    <2>4. CASE UNCHANGED captureVars
        BY <2>4 DEF captureVars
    <2>5. CASE SpyLives \/ SpyData \/ (\E v \in Viewers : ViewerComes(v) \/ ViewerGoes(v))
               \/ UNCHANGED feedVars
        <3>1. UNCHANGED captureVars
            BY <2>5 DEF SpyLives, SpyData, ViewerComes, ViewerGoes, feedVars
        <3>2. QED BY <2>4, <3>1
    <2>6. QED BY <2>1, <2>2, <2>3, <2>5 DEF SpyNext, CaptureNext
<1>3. QED BY <1>1, <1>2, PTL DEF SpySpec

LEMMA PageInvariance == SpySpec => []PageTypes
<1>1. SpyInit => PageTypes
    BY EmptySeq DEF SpyInit, ServerBlank, PageTypes
<1>2. PageTypes /\ [SpyNext]_feedVars => PageTypes'
    <2> SUFFICES ASSUME PageTypes, [SpyNext]_feedVars PROVE PageTypes'
        OBVIOUS
    <2>1. CASE UNCHANGED <<spyClients, index, viewing>>
        BY <2>1 DEF PageTypes
    <2>2. CASE CaptureNext \/ SpyData \/ UNCHANGED feedVars
        <3>1. UNCHANGED <<spyClients, index, viewing>>
            BY <2>2 DEF CaptureNext, StartCapture, CaptureWaits, CaptureSees, CaptureConnects, Receive,
                CaptureEnds, SpyData, feedVars, spyVars
        <3>2. QED BY <2>1, <3>1
    <2>3. CASE SpyLives
        <3>1. UNCHANGED spyVars \/ Forget
            BY <2>3 DEF SpyLives
        <3>2. CASE UNCHANGED spyVars
            BY <2>1, <3>2 DEF spyVars
        <3>3. CASE Forget
            <4>1. spyClients' = <<>> /\ index' = [v \in Viewers |-> 0] /\ viewing' = {}
                BY <3>3 DEF Forget
            <4>2. QED BY <4>1, EmptySeq DEF PageTypes
        <3>4. QED BY <3>1, <3>2, <3>3
    <2>4. ASSUME NEW v \in Viewers, ViewerComes(v) PROVE PageTypes'
        <3>1. Len(spyClients) \in Nat /\ Append(spyClients, v) \in Seq(Viewers)
            BY LenProperties DEF PageTypes
        <3>2. QED BY <2>4, <3>1 DEF ViewerComes, PageTypes
    <2>5. ASSUME NEW v \in Viewers, ViewerGoes(v) PROVE PageTypes'
        <3>1. index[v] \in Nat /\ spyClients' = Splice(spyClients, index[v])
            BY <2>5 DEF ViewerGoes, PageTypes
        <3>2. spyClients' \in Seq(Viewers)
            BY <3>1, SpliceTypes DEF PageTypes
        <3>3. QED BY <2>5, <3>2 DEF ViewerGoes, PageTypes
    <2>6. QED BY <2>2, <2>3, <2>4, <2>5 DEF SpyNext
<1>3. QED BY <1>1, <1>2, PTL DEF SpySpec

LEMMA SpyTypes == SpySpec => []SpyTypeOK
<1>1. LinkInv /\ HistoryInv /\ FeedTypes /\ CaptureTypes /\ PageTypes => SpyTypeOK
    <2>1. SUFFICES ASSUME LinkInv, HistoryInv, FeedTypes, CaptureTypes, PageTypes PROVE SpyTypeOK
        OBVIOUS
    <2>2. path \in 0..MaxLives
        BY <2>1, LivesAssumption DEF LinkInv, FeedTypes
    <2>3. SocketTypeOK
        BY <2>1, <2>2 DEF SocketTypeOK, LinkInv, HistoryInv, FeedTypes
    <2>4. Len(spy_Message) <= MaxMsgStore
        BY <2>1, HeldIs DEF HistoryInv
    <2>5. latest \in Seq(Seq(Piece))
        BY <2>1 DEF HistoryInv
    <2>6. QED BY <2>1, <2>3, <2>4, <2>5 DEF SpyTypeOK, HistoryInv, CaptureTypes, PageTypes
<1>2. QED BY <1>1, SpyLinkInvariance, HistoryInvariance, FeedInvariance, CaptureInvariance,
         PageInvariance, PTL

-----------------------------------------------------------------------------
(* The parts together.                                                     *)

\* What happens to a part in a behaviour of all is a behaviour of that part.
LEMMA PartsBehave ==
    Spec => SpySpec /\ PluSpec /\ GpsSpec /\ PanelSpec /\ DigiSpec /\ AxSpec
<1>1. Init => SpyInit /\ PluInit /\ GpsInit /\ PanelInit /\ DigiInit /\ AxInit
    BY DEF Init
<1>2. [Next]_vars => [SpyNext]_feedVars
    BY DEF Next, vars
<1>3. [Next]_vars => [PluNext]_pluVars
    BY DEF Next, vars
<1>4. [Next]_vars => [GpsNext]_gpsVars
    BY DEF Next, vars
<1>5. [Next]_vars => [PanelNext]_panelVars
    BY DEF Next, vars
<1>6. [Next]_vars => [DigiNext]_digiVars
    BY DEF Next, vars
<1>7. [Next]_vars => [AxNext]_axVars
    BY DEF Next, vars
<1>8. QED
    BY <1>1, <1>2, <1>3, <1>4, <1>5, <1>6, <1>7, PTL
    DEF Spec, SpySpec, PluSpec, GpsSpec, PanelSpec, DigiSpec, AxSpec

\* All that is promised of the parts, in every behaviour of any of them.
THEOREM PartsKeepPromises ==
    Spec => [](/\ HistoryIsRecent /\ CountsIncrease
               /\ ListedRun
               /\ PositionOfItsTurn
               /\ DistanceOfShown /\ FieldsOfShown /\ OthersWxFirst
               /\ RelayedOnce /\ BarsCountHeard
               /\ DecodeInverts)
BY PartsBehave, TheHistoryIsRecent, TheCountsIncrease, ListedAreRunning, PositionsOfTheirTurn,
   DistanceIsOfShown, FieldsAreOfShown, OthersWeatherFirst, RelayedAtMostOnce, BarsAreOfHeard,
   DecodeUndoesEncoding, PTL

-----------------------------------------------------------------------------
(* All types.                                                              *)

LEMMA PluTypes == PluSpec => []PluTypeOK
BY PluInvariance, PTL DEF PluInv, ListInv

LEMMA GpsTypes == GpsSpec => []GpsTypeOK
BY GpsInvariance, PTL DEF GpsInv, SentInv

\* All variables keep their types, whichever part acts.
THEOREM TypeCorrect == Spec => []TypeOK
<1>1. Spec => [](part \in Parts)
    <2>1. Init => part \in Parts
        BY DEF Init
    <2>2. part \in Parts /\ [Next]_vars => (part \in Parts)'
        BY DEF Next, vars
    <2>3. QED BY <2>1, <2>2, PTL DEF Spec
<1>2. QED
    BY <1>1, PartsBehave, SpyTypes, PluTypes, GpsTypes, PanelTypes, DigiTypes, AxTypes, PTL
    DEF TypeOK
=============================================================================
