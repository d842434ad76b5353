---------------------------- MODULE PacketStore -----------------------------
(***************************************************************************)
(* The packets the tracker keeps (aprs.c): state.last_packet, the ring     *)
(* state.recent with its write index recent_idx, and the line of the list  *)
(* the user has picked, disp_idx.                                          *)
(*                                                                         *)
(* A packet is the name it is listed under (OBJNAME) and the fields that   *)
(* merge_packets carries over, of which the position stands for all; the   *)
(* own station is the one whose src_callsign is mycall.  X_Faulty is a     *)
(* plausible wrong version of X that the specification does not use.       *)
(***************************************************************************)
EXTENDS Integers

CONSTANTS
  K,        \* KEEP_PACKETS
  Names,    \* station and object names, see OBJNAME
  Me,       \* mycall
  Pos,      \* positions a packet may carry
  NoPos,    \* a packet without one: latitude is NULL
  None      \* NULL

ASSUME PacketStoreAssumption ==
  /\ K \in Nat \ {0}
  /\ Me \in Names
  /\ NoPos \notin Pos
  /\ None \notin [name : Names, pos : Pos \cup {NoPos}]
  /\ None \notin Names

Cells   == 0 .. K-1
Packets == [name : Names, pos : Pos \cup {NoPos}]

VARIABLES
  last_packet, recent, recent_idx, disp_idx,
  panel,    \* AI_CALLSIGN, the name the display was sent last
  since,    \* history: who was heard since a name was heard last, all of
            \* them when it was never heard
  known     \* history: the last position heard while a station was stored

vars == <<last_packet, recent, recent_idx, disp_idx, panel, since, known>>

StateOK ==
  /\ last_packet \in Packets \cup {None}
  /\ recent \in [Cells -> Packets \cup {None}]
  /\ recent_idx \in Cells
  /\ disp_idx \in -1 .. K-1
  /\ panel \in Names \cup {None}

TypeOK ==
  /\ StateOK
  /\ since \in [Names -> SUBSET Names]
  /\ known \in [Names -> Pos \cup {NoPos}]

Init ==
  /\ last_packet = None
  /\ recent = [c \in Cells |-> None]
  /\ recent_idx = 0
  /\ disp_idx = -1
  /\ panel = None
  /\ since = [n \in Names |-> Names]
  /\ known = [n \in Names |-> NoPos]

-----------------------------------------------------------------------------
(* The ring.                                                               *)

NextCell_Faulty(c) == c + 1
NextCell(c) == IF c = K-1 THEN 0 ELSE c + 1
PrevCell(c) == IF c = 0 THEN K-1 ELSE c - 1

\* Line k of the list: what handle_display_showinfo picks for index k, and
\* what update_packets_ui writes to label AL_k.
ShowCell(k)  == (recent_idx + K - k) % K
LabelCell_Faulty(k) == (recent_idx + K - k + 1) % K
LabelCell(k) == (recent_idx + 1 + K - (k + 1)) % K

\* The cell the next push will write, and how far a cell is ahead of it.
EndCell    == NextCell(recent_idx)
FromEnd(c) == IF c >= EndCell THEN c - EndCell ELSE c - EndCell + K

\* move_packets: the cells from the end up to index move one on, over index.
MovePackets_Faulty(index) ==
  [c \in Cells |-> IF c # EndCell /\ FromEnd(c) < FromEnd(index)
                     THEN recent[PrevCell(c)]
                     ELSE IF c = EndCell THEN None ELSE recent[c]]
MovePackets(index) ==
  [c \in Cells |-> IF c = EndCell THEN None
                   ELSE IF FromEnd(c) <= FromEnd(index) THEN recent[PrevCell(c)]
                   ELSE recent[c]]

\* find_packet
FoundIn(p) == {c \in Cells : recent[c] # None /\ recent[c].name = p.name}

\* merge_packets
MergePackets_Faulty(p, old) == p
MergePackets(p, old) == [p EXCEPT !.pos = IF @ = NoPos THEN old.pos ELSE @]

\* The packet that is pushed is the one heard before, not the one just heard.
PushesLast_Faulty(p) == last_packet # None /\ p.name # Me
PushesLast(p) == last_packet # None /\ last_packet.name # Me

Push(p, ring) ==
  IF PushesLast(p)
    THEN /\ recent_idx' = NextCell(recent_idx)
         /\ recent' = [ring EXCEPT ![NextCell(recent_idx)] = last_packet]
    ELSE /\ recent' = ring
         /\ UNCHANGED recent_idx

-----------------------------------------------------------------------------
(* parse_incoming_packet: store_packet, then display_packet unless another *)
(* line is displayed.                                                      *)

SameAsLast(p) == last_packet # None /\ last_packet.name = p.name

Stored(n) ==
  \/ last_packet # None /\ last_packet.name = n
  \/ \E c \in Cells : recent[c] # None /\ recent[c].name = n

Heard(p) ==
  /\ since' = [n \in Names |-> IF n = p.name THEN {} ELSE since[n] \cup {p.name}]
  /\ known' = [known EXCEPT ![p.name] =
                 IF p.pos = NoPos /\ Stored(p.name) THEN @ ELSE p.pos]

Display(p) == panel' = IF disp_idx < 0 THEN p.name ELSE panel

Rehear(p) ==
  /\ SameAsLast(p)
  /\ last_packet' = MergePackets(p, last_packet)
  /\ Display(p)
  /\ Heard(p)
  /\ UNCHANGED <<recent, recent_idx, disp_idx>>

HearStored(p) ==
  /\ ~SameAsLast(p)
  /\ \E c \in FoundIn(p) :
       /\ \A d \in FoundIn(p) : c <= d
       /\ last_packet' = MergePackets(p, recent[c])
       /\ Push(p, MovePackets(c))
  /\ Display(p)
  /\ Heard(p)
  /\ UNCHANGED disp_idx

HearFirst(p) ==
  /\ ~SameAsLast(p)
  /\ FoundIn(p) = {}
  /\ last_packet' = p
  /\ Push(p, recent)
  /\ Display(p)
  /\ Heard(p)
  /\ UNCHANGED disp_idx

\* handle_display_showinfo; the display sends -1 .. KEEP_PACKETS-1.
ShowInfo(index) ==
  /\ disp_idx' = index
  /\ LET p == IF index < 0 THEN last_packet ELSE recent[ShowCell(index)]
     IN  panel' = IF p = None THEN panel ELSE p.name
  /\ UNCHANGED <<last_packet, recent, recent_idx, since, known>>

Next ==
  \/ \E p \in Packets : Rehear(p) \/ HearStored(p) \/ HearFirst(p)
  \/ \E index \in -1 .. K-1 : ShowInfo(index)

Spec == Init /\ [][Next]_vars

-----------------------------------------------------------------------------
(* Properties.                                                             *)

\* The lines of the display, in the order of their labels.
Lines == [k \in Cells |-> recent[LabelCell(k)]]

\* The ring with its write index behaves as the list of HeardList: shifting
\* over a hole, wrapping and overwriting keep every line where the user is
\* told it is, and STATIONINFO k shows what label AL_k shows.
HL == INSTANCE HeardList
        WITH last <- last_packet, list <- Lines, disp <- disp_idx
ImplementsHeardList == HL!HLSpec

\* No station is stored twice, so a station never appears on two lines and
\* find_packet's first match is its only one.
StoredOnce ==
  /\ \A c, d \in Cells :
       c # d /\ recent[c] # None /\ recent[d] # None => recent[c].name # recent[d].name
  /\ last_packet # None =>
       \A c \in Cells : recent[c] # None => recent[c].name # last_packet.name

\* The listed stations are the most recently heard of all the others, the own
\* one left out: they stand in the order in which they were heard and leave no
\* line above them empty, and whoever is neither listed nor in the main panel
\* was heard before all of them or never.  Hearing a known station evicts
\* nobody.
Listed  == {k \in Cells : Lines[k] # None}
Waiting(n) ==
  /\ n # Me
  /\ last_packet # None => n # last_packet.name
  /\ \A k \in Listed : Lines[k].name # n
MostRecentListed ==
  \A k \in Listed :
    /\ Lines[k].name # Me /\ Lines[k].name \notin since[Lines[k].name]
    /\ \A j \in Cells : j < k => j \in Listed /\ Lines[j].name \in since[Lines[k].name]
    /\ \A n \in Names : Waiting(n) => Lines[k].name \in since[n]

\* A stored station shows the last position heard of it, also when later
\* packets had none and through any number of moves in the ring.
PositionsKept ==
  /\ last_packet # None => last_packet.pos = known[last_packet.name]
  /\ \A c \in Cells : recent[c] # None => recent[c].pos = known[recent[c].name]
=============================================================================
