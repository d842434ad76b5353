-------------------------------- MODULE Digi --------------------------------
(***************************************************************************)
(* Trackers that hear each other on one channel: beacons, the digipeating  *)
(* of packets whose path begins with the alias, and the signal bars, which *)
(* tell how many of the last own beacons were heard again (aprs.c).        *)
(*                                                                         *)
(* A packet on the air is the text behind the destination: tokens, where   *)
(* path elements, separators and pieces of the body are one token each and *)
(* the asterisk of an element that was used is a flag.  Any station may    *)
(* hear a transmission, once, at any time or never; whatever other traffic *)
(* it hears, and when it beacons, is in PacketStore and Beacon.  The start *)
(* of the text is found where the path begins: a source or destination     *)
(* call that contains the first element is left out.                       *)
(*                                                                         *)
(* X_Faulty is a plausible wrong version of X that the specification does  *)
(* not use.                                                                *)
(***************************************************************************)
EXTENDS Integers, Sequences, FiniteSets, FiniteSetsExt, SequencesExt

CONSTANTS
    Trackers,       \* callsigns
    Enabled,        \* those that digipeat
    Testing,        \* those started with the testing option
    Appends,        \* those that put digi_path for what followed the alias
    DigiPath,       \* digi_path, the names of a path
    AliasLike,      \* the names that begin with digi:alias
    PathNames,      \* names that may stand in a path
    Words,          \* what bodies are made of; may be a colon
    Beacons,        \* what may be sent
    Width,          \* bits in digi_quality: 8
    MaxBeacons      \* bound: beacons sent in all

\* A station whose own call began with the alias would answer itself for ever.
\* Everybody beacons with some path.
ASSUME DigiAssumption ==
    /\ Trackers \subseteq PathNames /\ AliasLike \subseteq PathNames \ Trackers
    /\ Beacons \subseteq [path : Seq(PathNames), body : Seq(Words)]
    /\ \A b \in Beacons : b.path # <<>>
    /\ DigiPath \in Seq(PathNames) /\ DigiPath # <<>>
    /\ Width \in Nat \ {0}

VARIABLES
    air,            \* transmissions so far: [src, by, toks, orig]
    caught,         \* the transmissions each station heard
    digi_quality,   \* the bits that are set in it
    bars,           \* what the display was sent, -1 before the first time
    \* only read by properties
    sentOut,        \* the beacons
    echoed          \* of each station's own beacons, whether one was heard until the next

digiVars == <<air, caught, digi_quality, bars, sentOut, echoed>>

Bits == 0..(Width - 1)

Token(s, used) == [name |-> s, star |-> used]
Comma == Token(",", FALSE)
Colon == Token(":", FALSE)

\* A path is its elements with commas between them.
Joined(path) == [k \in 1..(2 * Len(path) - 1) |->
                   IF k % 2 = 1 THEN Token(path[(k + 1) \div 2], FALSE) ELSE Comma]
Body(pieces) == [i \in DOMAIN pieces |-> Token(pieces[i], FALSE)]
Text(b) == Joined(b.path) \o <<Colon>> \o Body(b.body)

DigiTypeOK ==
    /\ \A i \in DOMAIN air :
         /\ air[i].src \in Trackers /\ air[i].by \in Trackers
         /\ air[i].orig \in DOMAIN sentOut
    /\ caught \in [Trackers -> SUBSET DOMAIN air]
    /\ digi_quality \in [Trackers -> SUBSET Bits]
    /\ bars \in [Trackers -> -1..(Width \div 2)]
    /\ sentOut \in Seq(Beacons)
    /\ echoed \in [Trackers -> Seq(BOOLEAN)]

DigiInit ==
    /\ air = <<>> /\ caught = [s \in Trackers |-> {}]
    /\ digi_quality = [s \in Trackers |-> IF s \in Testing THEN Bits ELSE {}]
    /\ bars = [s \in Trackers |-> -1]
    /\ sentOut = <<>> /\ echoed = [s \in Trackers |-> <<>>]

-----------------------------------------------------------------------------
(* The signal bars.                                                        *)

\* update_mybeacon_status: the first bit, the last beacon's, does not count.
SigBars_Faulty(q) == (1 + Cardinality(q \ {Width - 1})) \div 2

SigBars(q) == (1 + Cardinality(q \ {0})) \div 2

Shifted(q) == {b + 1 : b \in q} \cap Bits
FirstSet(q) == q \cup {0}

Quality(s, q) ==
    /\ digi_quality' = [digi_quality EXCEPT ![s] = q]
    /\ bars' = [bars EXCEPT ![s] = SigBars(q)]

-----------------------------------------------------------------------------
(* Digipeating.                                                            *)

ColonsFrom(toks, k) == {i \in k..Len(toks) : toks[i] = Colon}

\* What libfap makes of a text: the path is all before the first colon and has
\* to be names with commas between them.
WellFormed(toks) ==
    /\ ColonsFrom(toks, 1) # {}
    /\ LET c == Min(ColonsFrom(toks, 1))
       IN  /\ c % 2 = 0
           /\ \A i \in 1..(c - 1) : IF i % 2 = 0 THEN toks[i] = Comma
                                                 ELSE toks[i].name \in PathNames

\* should_digi_packet: the first element begins with the alias; whether it has
\* an asterisk is not looked at.
ShouldDigi_Faulty(s, toks) ==
    /\ s \in Enabled
    /\ \E i \in 1..(Min(ColonsFrom(toks, 1)) - 1) : toks[i].name \in AliasLike

ShouldDigi(s, toks) == s \in Enabled /\ toks[1].name \in AliasLike

\* digi_packet: the first element is replaced, and so is, with append_path, all
\* from the character after next up to a colon; there may be none.
Rest(s, toks) ==
    IF s \notin Appends THEN SubSeq(toks, 3, Len(toks))
    ELSE IF ColonsFrom(toks, 3) = {} THEN <<>>
    ELSE SubSeq(toks, Min(ColonsFrom(toks, 3)), Len(toks))

DigiFails(s, toks) == s \in Appends /\ ColonsFrom(toks, 3) = {}

DigiPacket(s, t) ==
    [t EXCEPT !.by = s,
              !.toks = <<Token(s, TRUE), Comma>>
                         \o (IF s \in Appends THEN Joined(DigiPath) ELSE <<>>)
                         \o Rest(s, @)]

-----------------------------------------------------------------------------
\* beacon, when it is sent
SendBeacon(s, b) ==
    /\ Len(sentOut) < MaxBeacons
    /\ sentOut' = Append(sentOut, b)
    /\ air' = Append(air, [src |-> s, by |-> s, toks |-> Text(b), orig |-> Len(sentOut) + 1])
    /\ Quality(s, Shifted(digi_quality[s]))
    /\ echoed' = [echoed EXCEPT ![s] = Append(@, FALSE)]
    /\ UNCHANGED caught

\* parse_incoming_packet, the end of it: one of the own packets counts for the
\* last beacon, whichever it was.
HearAir(s, i) ==
    /\ air[i].by # s /\ i \notin caught[s]
    /\ caught' = [caught EXCEPT ![s] = @ \cup {i}]
    /\ IF WellFormed(air[i].toks) /\ air[i].src = s
         THEN /\ Quality(s, FirstSet(digi_quality[s]))
              /\ echoed' = [echoed EXCEPT ![s] = Append(Front(@), TRUE)]
         ELSE UNCHANGED <<digi_quality, bars, echoed>>
    /\ air' = IF WellFormed(air[i].toks) /\ ShouldDigi(s, air[i].toks)
                   /\ ~DigiFails(s, air[i].toks)
              THEN Append(air, DigiPacket(s, air[i])) ELSE air
    /\ UNCHANGED sentOut

\* handle_gps_data and should_beacon send the bars as they are.
ShowBars(s) ==
    /\ bars' = [bars EXCEPT ![s] = SigBars(digi_quality[s])]
    /\ UNCHANGED <<air, caught, digi_quality, sentOut, echoed>>

DigiNext ==
    \E s \in Trackers :
        \/ ShowBars(s)
        \/ \E b \in Beacons : SendBeacon(s, b)
        \/ \E i \in DOMAIN air : HearAir(s, i)

DigiSpec == DigiInit /\ [][DigiNext]_digiVars

-----------------------------------------------------------------------------
(* Properties.                                                             *)

\* The bars are half of one and the beacons that were heard again of the
\* Width - 1 before the last; those from before the station started count as
\* heard when it is testing only (aprs.c:1050-1055, 2286, 2611-2612).
BarsCountHeard ==
    \A s \in Trackers :
        LET n == Len(echoed[s])
            heard == {i \in 1..(Width - 1) :
                        IF i < n THEN echoed[s][n - i] ELSE s \in Testing}
        IN  bars[s] # -1 => bars[s] = (1 + Cardinality(heard)) \div 2

\* No station sends a beacon twice, be it its own or a copy it makes of a copy,
\* although nothing is remembered of what was digipeated: a copy begins with the
\* call of who made it (aprs.c:1087, 1113-1117).
RelayedOnce ==
    \A i, j \in DOMAIN air :
        air[i].by = air[j].by /\ air[i].orig = air[j].orig => i = j
=============================================================================
