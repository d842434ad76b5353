----------------------------- MODULE HeardList ------------------------------
(***************************************************************************)
(* What the tracker's list of heard stations promises its user, with no    *)
(* ring buffer in sight: the station heard last has the main panel to      *)
(* itself; below it stand the stations heard before it, the most recent    *)
(* first, each of them once, the own station never.  A line picked by its  *)
(* number is the line shown under that number.                             *)
(*                                                                         *)
(* PacketStore implements this module with state.recent.                   *)
(***************************************************************************)
EXTENDS Integers

CONSTANTS
  K,        \* lines of the list
  Names,    \* stations and objects, by the name they are listed under
  Me,       \* the name of the own station
  Pos,      \* positions a packet may carry
  NoPos,    \* a packet without a position
  None      \* no packet

Ranks   == 0 .. K-1
Packets == [name : Names, pos : Pos \cup {NoPos}]

VARIABLES
  last,     \* the packet heard last
  list,     \* the lines of the list, the most recent at rank 0
  disp,     \* the line the user has picked, -1 for the station heard last
  panel     \* the name in the main panel

hlvars == <<last, list, disp, panel>>

HLInit ==
  /\ last = None
  /\ list = [r \in Ranks |-> None]
  /\ disp = -1
  /\ panel = None

\* A packet without a position keeps the one its station had.
Joined(p, old) == [p EXCEPT !.pos = IF @ = NoPos THEN old.pos ELSE @]

ListedAt(l, p, r) == l[r] # None /\ l[r].name = p.name

Without(l, r) ==
  [s \in Ranks |-> IF s < r THEN l[s] ELSE IF s = K-1 THEN None ELSE l[s+1]]

OnTop(l, q) == [s \in Ranks |-> IF s = 0 THEN q ELSE l[s-1]]

\* The panel follows what is heard unless the user has picked a line.
PanelAfter(p) == panel' = IF disp < 0 THEN p.name ELSE panel

\* What was heard last moves to the top of the list, unless it was our own.
Enlist(l) ==
  list' = IF last # None /\ last.name # Me THEN OnTop(l, last) ELSE l

HearAgain(p) ==
  /\ last # None /\ last.name = p.name
  /\ last' = Joined(p, last)
  /\ PanelAfter(p)
  /\ UNCHANGED <<list, disp>>

HearListed(p) ==
  /\ last = None \/ last.name # p.name
  /\ \E r \in Ranks :
       /\ ListedAt(list, p, r)
       /\ last' = Joined(p, list[r])
       /\ Enlist(Without(list, r))
  /\ PanelAfter(p)
  /\ UNCHANGED disp

HearNew(p) ==
  /\ last = None \/ last.name # p.name
  /\ ~\E r \in Ranks : ListedAt(list, p, r)
  /\ last' = p
  /\ Enlist(list)
  /\ PanelAfter(p)
  /\ UNCHANGED disp

Pick(k) ==
  /\ disp' = k
  /\ LET q == IF k < 0 THEN last ELSE list[k]
     IN  panel' = IF q = None THEN panel ELSE q.name
  /\ UNCHANGED <<last, list>>

HLNext ==
  \/ \E p \in Packets : HearAgain(p) \/ HearListed(p) \/ HearNew(p)
  \/ \E k \in -1 .. K-1 : Pick(k)

HLSpec == HLInit /\ [][HLNext]_hlvars
=============================================================================
