---------------------------- MODULE SeparateParts ----------------------------
(***************************************************************************)
(* Parts of the system that share no state with each other: the packet spy *)
(* and its server, the plugin server, the sentences of the GPS, the two    *)
(* panels, digipeating, and the decoding of a frame.  Each has a module;   *)
(* a behaviour of this one is a behaviour of one of them.                  *)
(***************************************************************************)
EXTENDS SpyFeed, PluServer, GpsFeed, InfoPanel, Digi, Ax25Decode

VARIABLE part      \* which of them is looked at

vars == <<part, feedVars, pluVars, gpsVars, panelVars, digiVars, axVars>>

Parts == {"spy", "plu", "gps", "panel", "digi", "ax25"}

TypeOK ==
    /\ part \in Parts
    /\ SpyTypeOK /\ PluTypeOK /\ GpsTypeOK /\ PanelTypeOK /\ DigiTypeOK /\ AxTypeOK

Init ==
    /\ part \in Parts
    /\ SpyInit /\ PluInit /\ GpsInit /\ PanelInit /\ DigiInit /\ AxInit
    /\ part # "plu" => mail = 0              \* one start of those not looked at
    /\ part # "gps" => gps_type = "serial"

Next ==
    \/ /\ part = "spy" /\ SpyNext
       /\ UNCHANGED <<part, pluVars, gpsVars, panelVars, digiVars, axVars>>
    \/ /\ part = "plu" /\ PluNext
       /\ UNCHANGED <<part, feedVars, gpsVars, panelVars, digiVars, axVars>>
    \/ /\ part = "gps" /\ GpsNext
       /\ UNCHANGED <<part, feedVars, pluVars, panelVars, digiVars, axVars>>
    \/ /\ part = "panel" /\ PanelNext
       /\ UNCHANGED <<part, feedVars, pluVars, gpsVars, digiVars, axVars>>
    \/ /\ part = "digi" /\ DigiNext
       /\ UNCHANGED <<part, feedVars, pluVars, gpsVars, panelVars, axVars>>
    \/ /\ part = "ax25" /\ AxNext
       /\ UNCHANGED <<part, feedVars, pluVars, gpsVars, panelVars, digiVars>>

Spec == Init /\ [][Next]_vars
=============================================================================
