------------------------- MODULE PacketStoreProofs --------------------------
(* Proofs about PacketStore, for rings of every size and any names: the    *)
(* ring implements HeardList, and what it stores is stored once.           *)
EXTENDS PacketStore, TLAPS

\* The cell of line k when the write index is x, and the lines of a ring,
\* without a modulus.
CellAt(x, k) == IF x >= k THEN x - k ELSE x - k + K
LinesOf(ring, x) == [k \in Cells |-> ring[CellAt(x, k)]]

\* Where the packet of cell d was before the cells up to c moved on.
Source(d, c) == IF FromEnd(d) <= FromEnd(c) THEN PrevCell(d) ELSE d

-----------------------------------------------------------------------------
(* Arithmetic of the ring.                                                 *)

LEMMA ModAbove ==
  ASSUME NEW x \in Nat, NEW n \in Nat \ {0}, n <= x, x < 2 * n
  PROVE  x % n = x - n
<1>1. x = n * (x \div n) + (x % n) /\ x \div n \in Int /\ x % n \in 0 .. n-1
  BY SMTT(20)
<1>2. x \div n = 1
  <2>1. x \div n >= 2 => n * (x \div n) >= n * 2
    BY <1>1, SMTT(20)
  <2>2. x \div n <= 0 => n * (x \div n) <= 0
    BY <1>1, SMTT(20)
  <2>3. QED
    BY <1>1, <2>1, <2>2, SMTT(20)
<1>3. QED
  BY <1>1, <1>2, SMTT(20)

LEMMA SmallMod ==
  ASSUME NEW x \in Nat, x < 2 * K
  PROVE  x % K = IF x < K THEN x ELSE x - K
BY ModAbove, PacketStoreAssumption

LEMMA CellOfLine ==
  ASSUME NEW x \in Cells, NEW k \in Cells
  PROVE  /\ (x + K - k) % K = CellAt(x, k)
         /\ (x + 1 + K - (k + 1)) % K = CellAt(x, k)
         /\ CellAt(x, k) \in Cells
<1>1. /\ K \in Nat /\ x \in Int /\ k \in Int
      /\ 0 <= x /\ x < K /\ 0 <= k /\ k < K
  BY PacketStoreAssumption DEF Cells
<1>2. x + K - k \in Nat /\ x + K - k < 2 * K /\ x + 1 + K - (k + 1) = x + K - k
  BY <1>1
<1>3. (x + K - k) % K = IF x + K - k < K THEN x + K - k ELSE x + K - k - K
  <2> DEFINE y == x + K - k
  <2>1. y \in Nat /\ y < 2 * K
    BY <1>2
  <2> HIDE DEF y
  <2>2. y % K = IF y < K THEN y ELSE y - K
    BY <2>1, SmallMod
  <2>3. QED
    BY <1>1, <2>2, PacketStoreAssumption DEF y
<1>4. QED
  BY <1>1, <1>2, <1>3 DEF Cells, CellAt

LEMMA CellMoves ==
  ASSUME recent_idx \in Cells, NEW c \in Cells
  PROVE  /\ NextCell(c) \in Cells /\ PrevCell(c) \in Cells
         /\ EndCell \in Cells
         /\ FromEnd(c) \in Cells
BY PacketStoreAssumption DEF Cells, NextCell, PrevCell, EndCell, FromEnd

LEMMA SourceCells ==
  ASSUME recent_idx \in Cells, NEW c \in Cells
  PROVE  /\ \A d \in Cells \ {EndCell} : Source(d, c) \in Cells \ {c}
         /\ \A d, e \in Cells \ {EndCell} : d # e => Source(d, c) # Source(e, c)
BY PacketStoreAssumption DEF Cells, NextCell, PrevCell, EndCell, FromEnd, Source

LEMMA MovedFrom ==
  ASSUME recent_idx \in Cells, NEW c \in Cells, NEW d \in Cells
  PROVE  MovePackets(c)[d] = IF d = EndCell THEN None ELSE recent[Source(d, c)]
BY DEF MovePackets, Source

\* Lines and cells: the line of a cell is found the way the cell of a line is.
LEMMA LineOfCell ==
  ASSUME NEW x \in Cells, NEW c \in Cells
  PROVE  CellAt(x, c) \in Cells /\ CellAt(x, CellAt(x, c)) = c
BY PacketStoreAssumption DEF Cells, CellAt

\* Advancing the write index moves every line one down; the new top line is
\* the cell just written.
LEMMA LinesAdvance ==
  ASSUME NEW x \in Cells, NEW k \in Cells
  PROVE  /\ CellAt(NextCell(x), 0) = NextCell(x)
         /\ k > 0 => /\ k - 1 \in Cells
                     /\ CellAt(NextCell(x), k) = CellAt(x, k - 1)
                     /\ CellAt(x, k - 1) # NextCell(x)
BY PacketStoreAssumption DEF Cells, CellAt, NextCell

\* A line lies as far from the end as there are lines below it.
LEMMA LineFromEnd ==
  ASSUME recent_idx \in Cells, NEW k \in Cells
  PROVE  /\ FromEnd(CellAt(recent_idx, k)) = K - 1 - k
         /\ CellAt(recent_idx, k) = EndCell <=> k = K - 1
         /\ k < K - 1 => /\ k + 1 \in Cells
                         /\ PrevCell(CellAt(recent_idx, k)) = CellAt(recent_idx, k + 1)
BY PacketStoreAssumption DEF Cells, CellAt, NextCell, PrevCell, EndCell, FromEnd

LEMMA LinesWithoutModulus ==
  ASSUME recent_idx \in Cells
  PROVE  Lines = LinesOf(recent, recent_idx)
BY CellOfLine DEF Lines, LinesOf, LabelCell

LEMMA ShownCell ==
  ASSUME recent_idx \in Cells, NEW k \in Cells
  PROVE  recent[ShowCell(k)] = Lines[k]
BY CellOfLine DEF Lines, LabelCell, ShowCell

-----------------------------------------------------------------------------
(* The ring after a packet is heard.                                       *)

KnownOK == known \in [Names -> Pos \cup {NoPos}]

IInv == StateOK /\ KnownOK /\ StoredOnce /\ PositionsKept

Rings == [Cells -> Packets \cup {None}]

\* A ring with every name once and n nowhere.
CleanOf(ring, n) ==
  /\ \A c, d \in Cells :
       c # d /\ ring[c] # None /\ ring[d] # None => ring[c].name # ring[d].name
  /\ \A c \in Cells : ring[c] # None => ring[c].name # n

LEMMA NoneIsNoPacket == None \notin Packets
BY PacketStoreAssumption DEF Packets

LEMMA MergedPacket ==
  ASSUME NEW p \in Packets, NEW q \in Packets
  PROVE  /\ MergePackets(p, q) \in Packets
         /\ MergePackets(p, q).name = p.name
         /\ MergePackets(p, q).pos = IF p.pos = NoPos THEN q.pos ELSE p.pos
BY DEF MergePackets, Packets

\* Moving takes the packet of cell c out and keeps the others.
LEMMA MovedRing ==
  ASSUME IInv, NEW c \in Cells, recent[c] # None
  PROVE  /\ MovePackets(c) \in Rings
         /\ CleanOf(MovePackets(c), recent[c].name)
         /\ \A d \in Cells : MovePackets(c)[d] # None =>
              \E e \in Cells \ {c} : MovePackets(c)[d] = recent[e]
<1> USE DEF IInv, StateOK
<1>1. \A d \in Cells :
        /\ d = EndCell => MovePackets(c)[d] = None
        /\ d # EndCell => /\ Source(d, c) \in Cells \ {c}
                          /\ MovePackets(c)[d] = recent[Source(d, c)]
  BY MovedFrom, SourceCells
<1>2. MovePackets(c) \in Rings
  <2>1. \A d \in Cells : MovePackets(c)[d] \in Packets \cup {None}
    BY <1>1
  <2>2. QED
    BY <2>1 DEF MovePackets, Rings
<1>3. ASSUME NEW d \in Cells, MovePackets(c)[d] # None
      PROVE  MovePackets(c)[d].name # recent[c].name
  BY <1>1, <1>3 DEF StoredOnce
<1>4. ASSUME NEW d \in Cells, NEW e \in Cells, d # e,
             MovePackets(c)[d] # None, MovePackets(c)[e] # None
      PROVE  MovePackets(c)[d].name # MovePackets(c)[e].name
  <2>1. Source(d, c) # Source(e, c)
    BY <1>1, <1>4, SourceCells
  <2>2. QED
    BY <1>1, <1>4, <2>1 DEF StoredOnce
<1>5. QED
  BY <1>1, <1>2, <1>3, <1>4 DEF CleanOf

\* Pushing writes the packet heard before, whose name is on no line yet.
LEMMA PushedRing ==
  ASSUME IInv, NEW p \in Packets, ~SameAsLast(p),
         NEW ring \in Rings, CleanOf(ring, p.name),
         last_packet # None => CleanOf(ring, last_packet.name),
         Push(p, ring)
  PROVE  /\ recent' \in Rings /\ recent_idx' \in Cells
         /\ CleanOf(recent', p.name)
         /\ \A c \in Cells : recent'[c] # None =>
              \/ recent'[c] = last_packet /\ last_packet # None
              \/ recent'[c] = ring[c]
<1> USE DEF IInv, StateOK
<1>1. NextCell(recent_idx) \in Cells
  BY CellMoves
<1>2. CASE PushesLast(p)
  <2> DEFINE n == NextCell(recent_idx)
  <2>1. /\ last_packet # None /\ last_packet.name # p.name
        /\ recent_idx' = n
        /\ recent' = [ring EXCEPT ![n] = last_packet]
    BY <1>2 DEF Push, PushesLast, SameAsLast
  <2>2. \A c \in Cells : recent'[c] = IF c = n THEN last_packet ELSE ring[c]
    BY <2>1 DEF Rings
  <2>3. recent' \in Rings
    BY <1>1, <2>1 DEF Rings
  <2>4. CleanOf(recent', p.name)
    BY <1>1, <2>1, <2>2 DEF CleanOf
  <2>5. QED
    BY <1>1, <2>1, <2>2, <2>3, <2>4
<1>3. CASE ~PushesLast(p)
  BY <1>3 DEF Push
<1>4. QED
  BY <1>2, <1>3

\* What hearing p leaves behind when the stored packets other than p's are
\* old ones and the new last packet carries p's name and latest position.
LEMMA HeardKeeps ==
  ASSUME IInv, NEW p \in Packets, Heard(p),
         recent' \in Rings, recent_idx' \in Cells, CleanOf(recent', p.name),
         \A c \in Cells : recent'[c] # None =>
           \/ recent'[c] = last_packet /\ last_packet # None
           \/ \E e \in Cells : recent'[c] = recent[e],
         \/ ~Stored(p.name) /\ last_packet' = p
         \/ \E q \in Packets :
              /\ last_packet' = MergePackets(p, q)
              /\ q.name = p.name
              /\ q = last_packet \/ \E e \in Cells : q = recent[e],
         disp_idx' = disp_idx, Display(p)
  PROVE  IInv'
<1> USE DEF IInv, StateOK
<1>1. last_packet' \in Packets /\ last_packet'.name = p.name
  BY MergedPacket
<1>2. StateOK'
  BY <1>1 DEF Display, Packets, Rings
<1>3. /\ p.name \in Names /\ p.pos \in Pos \cup {NoPos}
      /\ known' \in [Names -> Pos \cup {NoPos}]
      /\ \A n \in Names \ {p.name} : known'[n] = known[n]
      /\ known'[p.name] = IF p.pos = NoPos /\ Stored(p.name)
                            THEN known[p.name] ELSE p.pos
  BY DEF Heard, KnownOK, Packets
<1>4. StoredOnce'
  BY <1>1 DEF StoredOnce, CleanOf
<1>5. last_packet'.pos = known'[p.name]
  <2>1. CASE ~Stored(p.name) /\ last_packet' = p
    BY <1>3, <2>1
  <2>2. ASSUME NEW q \in Packets, last_packet' = MergePackets(p, q),
               q.name = p.name,
               q = last_packet \/ \E e \in Cells : q = recent[e]
        PROVE  last_packet'.pos = known'[p.name]
    <3>1. Stored(p.name) /\ q.pos = known[p.name]
      BY <2>2, NoneIsNoPacket DEF Stored, PositionsKept
    <3>2. QED
      BY <1>3, <2>2, <3>1, MergedPacket
  <2>3. QED
    BY <2>1, <2>2
<1>6. ASSUME NEW c \in Cells, recent'[c] # None
      PROVE  recent'[c].pos = known'[recent'[c].name]
  <2>1. recent'[c].name \in Names \ {p.name}
    BY <1>6 DEF CleanOf, Rings, Packets
  <2>2. recent'[c].pos = known[recent'[c].name]
    BY <1>6 DEF PositionsKept
  <2>3. QED
    BY <1>3, <2>1, <2>2
<1>7. QED
  BY <1>1, <1>2, <1>3, <1>4, <1>5, <1>6 DEF KnownOK, PositionsKept

-----------------------------------------------------------------------------
(* The invariant.                                                          *)

LEMMA InitOK == Init => IInv
BY PacketStoreAssumption
   DEF Init, IInv, StateOK, KnownOK, StoredOnce, PositionsKept, Cells

LEMMA RehearKeeps ==
  ASSUME IInv, NEW p \in Packets, Rehear(p)
  PROVE  IInv'
<1> USE DEF IInv, StateOK
<1>1. /\ last_packet \in Packets /\ last_packet.name = p.name
      /\ last_packet' = MergePackets(p, last_packet)
      /\ UNCHANGED <<recent, recent_idx, disp_idx>>
      /\ Display(p) /\ Heard(p)
  BY DEF Rehear, SameAsLast
<1>2. recent' \in Rings /\ recent_idx' \in Cells /\ CleanOf(recent', p.name)
  BY <1>1, NoneIsNoPacket DEF Rings, CleanOf, StoredOnce
<1>3. \A c \in Cells : recent'[c] # None => \E e \in Cells : recent'[c] = recent[e]
  BY <1>1
<1>4. QED
  BY <1>1, <1>2, <1>3, HeardKeeps

LEMMA HearStoredKeeps ==
  ASSUME IInv, NEW p \in Packets, HearStored(p)
  PROVE  IInv'
<1> USE DEF IInv, StateOK
<1>1. PICK c \in FoundIn(p) : /\ last_packet' = MergePackets(p, recent[c])
                              /\ Push(p, MovePackets(c))
  BY DEF HearStored
<1>2. /\ c \in Cells /\ recent[c] # None /\ recent[c] \in Packets
      /\ recent[c].name = p.name
  BY <1>1 DEF FoundIn
<1>3. /\ MovePackets(c) \in Rings
      /\ CleanOf(MovePackets(c), p.name)
      /\ \A d \in Cells : MovePackets(c)[d] # None =>
           \E e \in Cells : MovePackets(c)[d] = recent[e]
  BY <1>2, MovedRing
<1>4. last_packet # None => CleanOf(MovePackets(c), last_packet.name)
  BY <1>3 DEF CleanOf, StoredOnce
<1>5. /\ recent' \in Rings /\ recent_idx' \in Cells /\ CleanOf(recent', p.name)
      /\ \A d \in Cells : recent'[d] # None =>
           \/ recent'[d] = last_packet /\ last_packet # None
           \/ recent'[d] = MovePackets(c)[d]
  BY <1>1, <1>3, <1>4, PushedRing DEF HearStored
<1>6. \A d \in Cells : recent'[d] # None =>
        \/ recent'[d] = last_packet /\ last_packet # None
        \/ \E e \in Cells : recent'[d] = recent[e]
  BY <1>3, <1>5
<1>7. QED
  BY <1>1, <1>2, <1>5, <1>6, HeardKeeps DEF HearStored

LEMMA HearFirstKeeps ==
  ASSUME IInv, NEW p \in Packets, HearFirst(p)
  PROVE  IInv'
<1> USE DEF IInv, StateOK
<1>1. \A c \in Cells : recent[c] # None => recent[c].name # p.name
  BY DEF HearFirst, FoundIn
<1>2. /\ recent \in Rings /\ CleanOf(recent, p.name)
      /\ last_packet # None => CleanOf(recent, last_packet.name)
  BY <1>1 DEF Rings, CleanOf, StoredOnce
<1>3. /\ recent' \in Rings /\ recent_idx' \in Cells /\ CleanOf(recent', p.name)
      /\ \A d \in Cells : recent'[d] # None =>
           \/ recent'[d] = last_packet /\ last_packet # None
           \/ recent'[d] = recent[d]
  BY <1>2, PushedRing DEF HearFirst
<1>4. ~Stored(p.name)
  BY <1>1 DEF HearFirst, SameAsLast, Stored
<1>5. QED
  BY <1>3, <1>4, HeardKeeps DEF HearFirst

LEMMA ShowInfoKeeps ==
  ASSUME IInv, NEW index \in -1 .. K-1, ShowInfo(index)
  PROVE  IInv'
<1> USE DEF IInv, StateOK
<1>1. index < 0 \/ index \in Cells
  BY PacketStoreAssumption DEF Cells
<1>2. index \in Cells => ShowCell(index) \in Cells
  BY CellOfLine DEF ShowCell
<1>3. panel' \in Names \cup {None}
  BY <1>1, <1>2, NoneIsNoPacket DEF ShowInfo, Packets
<1>4. StateOK'
  BY <1>3 DEF ShowInfo
<1>5. QED
  BY <1>4 DEF ShowInfo, KnownOK, StoredOnce, PositionsKept

LEMMA NextKeeps ==
  ASSUME IInv, [Next]_vars
  PROVE  IInv'
<1>1. CASE UNCHANGED vars
  BY <1>1 DEF vars, IInv, StateOK, KnownOK, StoredOnce, PositionsKept
<1>2. ASSUME NEW p \in Packets, Rehear(p) \/ HearStored(p) \/ HearFirst(p)
      PROVE  IInv'
  BY <1>2, RehearKeeps, HearStoredKeeps, HearFirstKeeps
<1>3. ASSUME NEW index \in -1 .. K-1, ShowInfo(index)
      PROVE  IInv'
  BY <1>3, ShowInfoKeeps
<1>4. QED
  BY <1>1, <1>2, <1>3 DEF Next

\* Everything the two theorems below need of a reachable state.
THEOREM Invariance == Spec => []IInv
<1>1. Init => IInv
  BY InitOK
<1>2. IInv /\ [Next]_vars => IInv'
  BY NextKeeps
<1>3. QED
  BY <1>1, <1>2, PTL DEF Spec

\* No station is ever stored twice (store_packet, move_packets), for every
\* ring size.
THEOREM NamesStoredOnce == Spec => []StoredOnce
BY Invariance, PTL DEF IInv

\* Every stored station has the position heard last (merge_packets), through
\* any number of moves in the ring.
THEOREM LastPositionsKept == Spec => []PositionsKept
BY Invariance, PTL DEF IInv

-----------------------------------------------------------------------------
(* The ring implements the list.                                           *)

LEMMA PushImplements ==
  ASSUME recent_idx \in Cells, NEW p, NEW ring \in Rings, Push(p, ring),
         recent_idx' \in Cells
  PROVE  Lines' = IF last_packet # None /\ last_packet.name # Me
                    THEN HL!OnTop(LinesOf(ring, recent_idx), last_packet)
                    ELSE LinesOf(ring, recent_idx)
<1>1. Lines' = LinesOf(recent', recent_idx')
  BY CellOfLine DEF Lines, LinesOf, LabelCell
<1>2. CASE PushesLast(p)
  <2>1. /\ recent_idx' = NextCell(recent_idx)
        /\ recent' = [ring EXCEPT ![NextCell(recent_idx)] = last_packet]
        /\ NextCell(recent_idx) \in Cells
    BY <1>2, CellMoves DEF Push
  <2>2. ASSUME NEW k \in Cells
        PROVE  recent'[CellAt(recent_idx', k)] =
                 IF k = 0 THEN last_packet
                          ELSE LinesOf(ring, recent_idx)[k - 1]
    <3>1. CASE k = 0
      BY <2>1, <3>1, LinesAdvance DEF Rings
    <3>2. CASE k # 0
      <4>1. k > 0
        BY <3>2, PacketStoreAssumption DEF Cells
      <4>2. /\ k - 1 \in Cells
            /\ CellAt(recent_idx', k) = CellAt(recent_idx, k - 1)
            /\ CellAt(recent_idx, k - 1) # NextCell(recent_idx)
            /\ CellAt(recent_idx, k - 1) \in Cells
        BY <2>1, <4>1, LinesAdvance, LineOfCell
      <4>3. recent'[CellAt(recent_idx', k)] = ring[CellAt(recent_idx, k - 1)]
        BY <2>1, <4>2 DEF Rings
      <4>4. QED
        BY <3>2, <4>2, <4>3 DEF LinesOf
    <3>3. QED
      BY <3>1, <3>2
  <2>3. QED
    BY <1>1, <1>2, <2>2 DEF LinesOf, PushesLast, HL!OnTop, HL!Ranks, Cells
<1>3. CASE ~PushesLast(p)
  BY <1>1, <1>3 DEF Push, PushesLast
<1>4. QED
  BY <1>2, <1>3

LEMMA MoveImplements ==
  ASSUME StateOK, NEW c \in Cells
  PROVE  LinesOf(MovePackets(c), recent_idx) = HL!Without(Lines, CellAt(recent_idx, c))
<1> USE DEF StateOK
<1> DEFINE r == CellAt(recent_idx, c)
<1>1. r \in Cells /\ CellAt(recent_idx, r) = c
  BY LineOfCell
<1>2. FromEnd(c) = K - 1 - r
  BY <1>1, LineFromEnd
<1> HIDE DEF r
<1>3. ASSUME NEW k \in Cells
      PROVE  MovePackets(c)[CellAt(recent_idx, k)] =
               IF k < r THEN Lines[k]
               ELSE IF k = K-1 THEN None ELSE Lines[k+1]
  <2>1. CellAt(recent_idx, k) \in Cells
    BY LineOfCell
  <2>2. /\ FromEnd(CellAt(recent_idx, k)) = K - 1 - k
        /\ CellAt(recent_idx, k) = EndCell <=> k = K - 1
    BY LineFromEnd
  <2>3. FromEnd(CellAt(recent_idx, k)) <= FromEnd(c) <=> ~(k < r)
    BY <1>1, <1>2, <2>2, PacketStoreAssumption DEF Cells
  <2>4. k = K - 1 => ~(k < r)
    BY <1>1, PacketStoreAssumption DEF Cells
  <2>5. k # K - 1 => /\ k + 1 \in Cells
                     /\ PrevCell(CellAt(recent_idx, k)) = CellAt(recent_idx, k + 1)
    BY LineFromEnd, PacketStoreAssumption DEF Cells
  <2>6. \A l \in Cells : Lines[l] = recent[CellAt(recent_idx, l)]
    BY LinesWithoutModulus DEF LinesOf
  <2>7. QED
    BY <2>1, <2>2, <2>3, <2>4, <2>5, <2>6 DEF MovePackets
<1>4. QED
  BY <1>3 DEF LinesOf, HL!Without, HL!Ranks, Cells, r

LEMMA SameLines ==
  ASSUME UNCHANGED <<recent, recent_idx>>
  PROVE  Lines' = Lines
BY DEF Lines, LabelCell

LEMMA SameWords ==
  /\ Packets = HL!Packets
  /\ Cells = HL!Ranks
  /\ \A p, q : MergePackets(p, q) = HL!Joined(p, q)
  /\ \A p : Display(p) <=> HL!PanelAfter(p)
BY DEF Packets, HL!Packets, Cells, HL!Ranks, MergePackets, HL!Joined,
       Display, HL!PanelAfter

LEMMA InitImplements == Init => HL!HLInit
<1>1. ASSUME Init
      PROVE  Lines = [r \in HL!Ranks |-> None]
  <2>1. recent_idx \in Cells
    BY <1>1, PacketStoreAssumption DEF Init, Cells
  <2>2. \A k \in Cells : CellAt(recent_idx, k) \in Cells
    BY <2>1, LineOfCell
  <2>3. QED
    BY <1>1, <2>1, <2>2, LinesWithoutModulus DEF Init, LinesOf, HL!Ranks, Cells
<1>2. QED
  BY <1>1 DEF Init, HL!HLInit

LEMMA RehearImplements ==
  ASSUME IInv, NEW p \in Packets, Rehear(p)
  PROVE  HL!HearAgain(p)
BY SameLines, SameWords DEF Rehear, SameAsLast, HL!HearAgain

LEMMA HearStoredImplements ==
  ASSUME IInv, NEW p \in Packets, HearStored(p)
  PROVE  HL!HearListed(p)
<1> USE DEF IInv, StateOK
<1>1. PICK c \in FoundIn(p) : /\ last_packet' = MergePackets(p, recent[c])
                              /\ Push(p, MovePackets(c))
  BY DEF HearStored
<1> DEFINE r == CellAt(recent_idx, c)
<1>2. /\ c \in Cells /\ recent[c] # None /\ recent[c].name = p.name
      /\ r \in Cells /\ CellAt(recent_idx, r) = c
  BY <1>1, LineOfCell DEF FoundIn
<1>3. Lines[r] = recent[c]
  BY <1>2, LinesWithoutModulus DEF LinesOf
<1>4. recent_idx' \in Cells
  BY HearStoredKeeps DEF IInv, StateOK
<1>5. MovePackets(c) \in Rings
  BY <1>2, MovedRing
<1>6. HL!Enlist(HL!Without(Lines, r))
  BY <1>1, <1>2, <1>4, <1>5, PushImplements, MoveImplements DEF HL!Enlist
<1>7. /\ last_packet' = HL!Joined(p, Lines[r])
      /\ HL!ListedAt(Lines, p, r)
      /\ r \in HL!Ranks
  BY <1>1, <1>2, <1>3, SameWords DEF HL!ListedAt
<1>8. /\ last_packet = None \/ last_packet.name # p.name
      /\ HL!PanelAfter(p)
      /\ disp_idx' = disp_idx
  BY SameWords DEF HearStored, SameAsLast
<1>9. QED
  BY <1>6, <1>7, <1>8 DEF HL!HearListed

LEMMA HearFirstImplements ==
  ASSUME IInv, NEW p \in Packets, HearFirst(p)
  PROVE  HL!HearNew(p)
<1> USE DEF IInv, StateOK
<1>1. Lines = LinesOf(recent, recent_idx) /\ recent \in Rings
  BY LinesWithoutModulus DEF Rings
<1>2. ~\E r \in HL!Ranks : HL!ListedAt(Lines, p, r)
  BY <1>1, LineOfCell, SameWords
     DEF HearFirst, FoundIn, LinesOf, HL!ListedAt
<1>3. recent_idx' \in Cells
  BY HearFirstKeeps DEF IInv, StateOK
<1>4. HL!Enlist(Lines)
  BY <1>1, <1>3, PushImplements DEF HearFirst, HL!Enlist
<1>5. QED
  BY <1>2, <1>4, SameWords DEF HearFirst, SameAsLast, HL!HearNew

LEMMA ShowInfoImplements ==
  ASSUME IInv, NEW index \in -1 .. K-1, ShowInfo(index)
  PROVE  HL!Pick(index)
<1>1. index < 0 \/ index \in Cells
  BY PacketStoreAssumption DEF Cells
<1>2. index \in Cells => recent[ShowCell(index)] = Lines[index]
  BY ShownCell DEF IInv, StateOK
<1>3. QED
  BY <1>1, <1>2, SameLines DEF ShowInfo, HL!Pick

LEMMA StepImplements ==
  ASSUME IInv, [Next]_vars
  PROVE  [HL!HLNext]_(HL!hlvars)
<1>1. CASE UNCHANGED vars
  BY <1>1, SameLines DEF vars, HL!hlvars
<1>2. ASSUME NEW p \in Packets, Rehear(p) \/ HearStored(p) \/ HearFirst(p)
      PROVE  HL!HLNext
  BY <1>2, RehearImplements, HearStoredImplements, HearFirstImplements, SameWords
     DEF HL!HLNext
<1>3. ASSUME NEW index \in -1 .. K-1, ShowInfo(index)
      PROVE  HL!HLNext
  BY <1>3, ShowInfoImplements DEF HL!HLNext
<1>4. QED
  BY <1>1, <1>2, <1>3 DEF Next

\* state.recent with recent_idx, move_packets and the index arithmetic of
\* update_packets_ui and handle_display_showinfo behave as the list of
\* HeardList, for every KEEP_PACKETS and any stations.
THEOREM RingImplementsList == Spec => ImplementsHeardList
<1>1. Init => HL!HLInit
  BY InitImplements
<1>2. IInv /\ [Next]_vars => [HL!HLNext]_(HL!hlvars)
  BY StepImplements
<1>3. QED
  BY <1>1, <1>2, Invariance, PTL DEF Spec, ImplementsHeardList, HL!HLSpec

-----------------------------------------------------------------------------
(* The listed stations are the most recent ones.  The steps are those of   *)
(* the list, which the ring has just been shown to take.                   *)

\* The station heard last was heard since everybody else; nobody is listed
\* before anybody was heard.
SinceOK ==
  /\ since \in [Names -> SUBSET Names]
  /\ last_packet # None =>
       /\ last_packet.name \notin since[last_packet.name]
       /\ \A n \in Names : n # last_packet.name => last_packet.name \in since[n]
  /\ last_packet = None => Listed = {}

HInv == IInv /\ SinceOK /\ MostRecentListed

\* What the list must be like when p is heard and p's own line is taken out:
\* the others in the order they were heard, and nobody later missing but p, the
\* one heard last and the own station.
OnLine(l, k) == l[k] # None
Ordered(l, p) ==
  \A k \in Cells : OnLine(l, k) =>
    /\ l[k].name \notin {Me, p.name} /\ l[k].name \notin since[l[k].name]
    /\ last_packet # None => l[k].name # last_packet.name
    /\ \A j \in Cells : j < k => OnLine(l, j) /\ l[j].name \in since[l[k].name]
    /\ \A n \in Names :
         /\ n \notin {Me, p.name}
         /\ last_packet # None => n # last_packet.name
         /\ \A j \in Cells : OnLine(l, j) => l[j].name # n
         => l[k].name \in since[n]

LEMMA LinesType ==
  ASSUME IInv
  PROVE  /\ Lines \in Rings
         /\ \A j, k \in Cells : j # k /\ Lines[j] # None /\ Lines[k] # None
                                  => Lines[j].name # Lines[k].name
         /\ last_packet # None =>
              \A k \in Cells : Lines[k] # None => Lines[k].name # last_packet.name
<1> USE DEF IInv, StateOK
<1>1. \A k \in Cells : /\ CellAt(recent_idx, k) \in Cells
                       /\ Lines[k] = recent[CellAt(recent_idx, k)]
  BY LineOfCell, LinesWithoutModulus DEF LinesOf
<1>2. Lines \in Rings
  BY <1>1 DEF Lines, Rings
<1>3. \A j, k \in Cells : j # k => CellAt(recent_idx, j) # CellAt(recent_idx, k)
  BY LineOfCell
<1>4. QED
  BY <1>1, <1>2, <1>3 DEF StoredOnce

LEMMA LineNames ==
  ASSUME NEW l \in Rings, NEW k \in Cells, l[k] # None
  PROVE  l[k] \in Packets /\ l[k].name \in Names
BY DEF Rings, Packets

LEMMA HeardSince ==
  ASSUME HInv, NEW p \in Packets, Heard(p), last_packet' \in Packets,
         last_packet'.name = p.name
  PROVE  /\ SinceOK'
         /\ \A n \in Names : since'[n] = IF n = p.name THEN {} ELSE since[n] \cup {p.name}
<1>1. p.name \in Names
  BY DEF Packets
<1>2. since' = [n \in Names |-> IF n = p.name THEN {} ELSE since[n] \cup {p.name}]
  BY DEF Heard
<1>3. since' \in [Names -> SUBSET Names]
  BY <1>1, <1>2 DEF HInv, SinceOK
<1>4. QED
  BY <1>1, <1>2, <1>3, NoneIsNoPacket DEF SinceOK

\* What the property says of line k.
RecentAt(k) ==
  /\ Lines[k].name # Me /\ Lines[k].name \notin since[Lines[k].name]
  /\ \A j \in Cells : j < k => Lines[j] # None /\ Lines[j].name \in since[Lines[k].name]
  /\ \A n \in Names : Waiting(n) => Lines[k].name \in since[n]

LEMMA SameListKeeps ==
  ASSUME HInv, NEW p \in Packets, NEW l \in Rings, Ordered(l, p), Lines' = l,
         last_packet = None \/ last_packet.name \in {Me, p.name},
         Heard(p), last_packet' \in Packets, last_packet'.name = p.name
  PROVE  MostRecentListed'
<1>1. /\ last_packet' # None
      /\ \A n \in Names : since'[n] = IF n = p.name THEN {} ELSE since[n] \cup {p.name}
  BY HeardSince, NoneIsNoPacket
<1>2. \A n \in Names : Waiting(n)' =>
        n \notin {Me, p.name} /\ \A j \in Cells : Lines'[j] # None => Lines'[j].name # n
  BY <1>1 DEF Waiting, Listed
<1>3. ASSUME NEW k \in Cells, Lines'[k] # None
      PROVE  RecentAt(k)'
  <2> DEFINE m == l[k].name
  <2>1. l[k] # None /\ m \in Names
    BY <1>3, LineNames
  <2>2. /\ m \notin {Me, p.name} /\ m \notin since[m]
        /\ \A j \in Cells : j < k => l[j] # None /\ l[j].name \in since[m]
    BY <2>1 DEF Ordered, OnLine
  <2>3. since'[m] = since[m] \cup {p.name}
    BY <1>1, <2>1, <2>2
  <2>4. ASSUME NEW n \in Names, Waiting(n)'
        PROVE  m \in since'[n]
    <3>1. m \in since[n]
      BY <1>2, <2>1, <2>4 DEF Ordered, OnLine
    <3>2. QED
      BY <1>1, <1>2, <2>4, <3>1
  <2>5. QED
    BY <2>2, <2>3, <2>4 DEF RecentAt
<1>4. QED
  BY <1>3 DEF MostRecentListed, RecentAt, Listed

LEMMA EnlistKeeps ==
  ASSUME HInv, NEW p \in Packets, NEW l \in Rings, Ordered(l, p), ~SameAsLast(p),
         HL!Enlist(l), Heard(p), last_packet' \in Packets, last_packet'.name = p.name
  PROVE  MostRecentListed'
<1> USE DEF HInv, IInv, StateOK
<1> DEFINE top == last_packet
<1>1. /\ last_packet' # None
      /\ \A n \in Names : since'[n] = IF n = p.name THEN {} ELSE since[n] \cup {p.name}
  BY HeardSince, NoneIsNoPacket
<1>2. SUFFICES ASSUME top # None, top.name # Me, NEW k \in Cells, Lines'[k] # None
               PROVE  RecentAt(k)'
  BY SameListKeeps DEF HL!Enlist, MostRecentListed, RecentAt, Listed
<1>3. \A n \in Names : Waiting(n)' =>
        n \notin {Me, p.name} /\ \A j \in Cells : Lines'[j] # None => Lines'[j].name # n
  BY <1>1 DEF Waiting, Listed
<1>4. \A j \in Cells : l[j] # None => l[j].name \in Names
  BY LineNames
<1>5. /\ Lines' = [r \in Cells |-> IF r = 0 THEN top ELSE l[r-1]]
      /\ top.name \in Names /\ top.name # p.name
  BY <1>2 DEF HL!Enlist, HL!OnTop, HL!Ranks, Cells, Packets, SameAsLast
<1>6. /\ top.name \notin since[top.name]
      /\ \A n \in Names : n # top.name => top.name \in since[n]
  BY <1>2 DEF SinceOK
<1>7. \A r \in Cells : r # 0 => r - 1 \in Cells /\ r - 1 < K - 1 /\ r - 1 \in Int
  BY PacketStoreAssumption DEF Cells
<1>8. 0 \in Cells /\ K - 1 \in Cells /\ \A r \in Cells : ~(r < 0)
  BY PacketStoreAssumption DEF Cells
<1>9. CASE k = 0
  <2>1. Lines'[k] = top
    BY <1>5, <1>9
  <2>2. top.name # Me /\ top.name \notin since'[top.name]
    <3>1. since'[top.name] = since[top.name] \cup {p.name}
      BY <1>1, <1>5
    <3>2. QED
      BY <1>2, <1>5, <1>6, <3>1
  <2>3. ASSUME NEW n \in Names, Waiting(n)'
        PROVE  top.name \in since'[n]
    <3>1. n # top.name /\ n # p.name
      BY <1>3, <1>2, <2>1, <2>3
    <3>2. QED
      BY <1>1, <1>6, <3>1
  <2>4. QED
    BY <1>8, <1>9, <2>1, <2>2, <2>3 DEF RecentAt
<1>10. CASE k # 0
  <2> DEFINE m == l[k-1].name
  <2>1. /\ k - 1 \in Cells /\ Lines'[k] = l[k-1] /\ l[k-1] # None
        /\ m \in Names /\ m \notin {Me, p.name, top.name} /\ m \notin since[m]
    BY <1>2, <1>4, <1>5, <1>7, <1>10 DEF Ordered, OnLine
  <2>2. ASSUME NEW j \in Cells, j < k
        PROVE  Lines'[j] # None /\ Lines'[j].name \in since'[m]
    <3>1. CASE j = 0
      BY <1>1, <1>2, <1>5, <1>6, <2>1, <3>1
    <3>2. CASE j # 0
      <4>1. j - 1 \in Cells /\ j - 1 < k - 1 /\ Lines'[j] = l[j-1]
        BY <1>5, <1>7, <2>2, <3>2 DEF Cells
      <4>2. l[j-1] # None /\ l[j-1].name \in since[m]
        BY <2>1, <4>1 DEF Ordered, OnLine
      <4>3. QED
        BY <1>1, <2>1, <4>1, <4>2
    <3>3. QED
      BY <3>1, <3>2
  <2>3. ASSUME NEW n \in Names, Waiting(n)'
        PROVE  m \in since'[n]
    <3>1. n \notin {Me, p.name} /\ n # top.name
      BY <1>3, <1>2, <1>5, <1>8, <2>3
    <3>2. CASE l[K-1] # None /\ l[K-1].name = n
      \* The station that has just lost the bottom line.
      <4>1. m \in since[n]
        BY <1>7, <1>8, <1>10, <2>1, <3>2 DEF Ordered, OnLine
      <4>2. QED
        BY <1>1, <3>1, <4>1
    <3>3. CASE ~(l[K-1] # None /\ l[K-1].name = n)
      <4>1. ASSUME NEW j \in Cells, l[j] # None
            PROVE  l[j].name # n
        <5>1. CASE j = K - 1
          BY <3>3, <4>1, <5>1
        <5>2. CASE j # K - 1
          <6>1. j + 1 \in Cells /\ j + 1 # 0 /\ (j + 1) - 1 = j
            BY <5>2, PacketStoreAssumption DEF Cells
          <6>2. Lines'[j+1] = l[j]
            BY <1>5, <6>1
          <6>3. QED
            BY <1>3, <2>3, <4>1, <6>1, <6>2
        <5>3. QED
          BY <5>1, <5>2
      <4>2. m \in since[n]
        BY <2>1, <3>1, <4>1 DEF Ordered, OnLine
      <4>3. QED
        BY <1>1, <3>1, <4>2
    <3>4. QED
      BY <3>2, <3>3
  <2>4. m \notin since'[m]
    <3>1. since'[m] = since[m] \cup {p.name}
      BY <1>1, <2>1
    <3>2. QED
      BY <2>1, <3>1
  <2>5. QED
    BY <2>1, <2>2, <2>3, <2>4 DEF RecentAt
<1>11. QED
  BY <1>9, <1>10

\* Taking p's line out, or finding none, leaves the other lines in order.
LEMMA OrderedWithout ==
  ASSUME HInv, NEW p \in Packets, NEW r \in Cells, Lines[r] # None,
         Lines[r].name = p.name
  PROVE  HL!Without(Lines, r) \in Rings /\ Ordered(HL!Without(Lines, r), p)
<1> USE DEF HInv
<1> DEFINE l == HL!Without(Lines, r)
           From(k) == IF k < r THEN k ELSE k + 1
<1>1. /\ Lines \in Rings
      /\ \A j, k \in Cells : j # k /\ Lines[j] # None /\ Lines[k] # None
                               => Lines[j].name # Lines[k].name
      /\ last_packet # None =>
           \A k \in Cells : Lines[k] # None => Lines[k].name # last_packet.name
  BY LinesType
<1>2. \A k \in Cells : /\ ~(k < r) /\ k = K-1 => l[k] = None
                       /\ k < r \/ k # K-1 =>
                            From(k) \in Cells /\ From(k) # r /\ l[k] = Lines[From(k)]
  BY PacketStoreAssumption DEF HL!Without, HL!Ranks, Cells
<1>3. l = [k \in Cells |-> l[k]]
  BY DEF HL!Without, HL!Ranks, Cells
<1>4. \A k \in Cells : l[k] \in Packets \cup {None}
  BY <1>1, <1>2 DEF Rings
<1>5. l \in Rings
  BY <1>3, <1>4 DEF Rings
<1>6. \A j, k \in Cells : j < k => From(j) < From(k)
  BY PacketStoreAssumption DEF Cells
<1>7. \A j \in Cells : j # r /\ Lines[j] # None => \E k \in Cells : l[k] = Lines[j]
  <2>1. SUFFICES ASSUME NEW j \in Cells, j # r
                 PROVE  \E k \in Cells : (k < r \/ k # K-1) /\ From(k) = j
    BY <1>2
  <2>2. CASE j < r
    BY <2>2
  <2>3. CASE ~(j < r)
    <3>1. j - 1 \in Cells /\ j - 1 # K-1 /\ From(j - 1) = j
      BY <2>1, <2>3, PacketStoreAssumption DEF Cells
    <3>2. QED
      BY <3>1
  <2>4. QED
    BY <2>2, <2>3
<1> HIDE DEF l
<1>8. ASSUME NEW k \in Cells, l[k] # None
      PROVE  /\ l[k].name \notin {Me, p.name} /\ l[k].name \notin since[l[k].name]
             /\ last_packet # None => l[k].name # last_packet.name
             /\ \A j \in Cells : j < k => l[j] # None /\ l[j].name \in since[l[k].name]
             /\ \A n \in Names :
                  /\ n \notin {Me, p.name}
                  /\ last_packet # None => n # last_packet.name
                  /\ \A j \in Cells : l[j] # None => l[j].name # n
                  => l[k].name \in since[n]
  <2>1. (k < r \/ k # K-1) /\ From(k) \in Cells /\ From(k) # r /\ l[k] = Lines[From(k)]
    BY <1>2, <1>8
  <2>2. From(k) \in Listed
    BY <1>8, <2>1 DEF Listed
  <2>3. /\ l[k].name \notin {Me, p.name} /\ l[k].name \notin since[l[k].name]
        /\ last_packet # None => l[k].name # last_packet.name
    BY <1>1, <1>8, <2>1, <2>2 DEF MostRecentListed
  <2>4. ASSUME NEW j \in Cells, j < k
        PROVE  l[j] # None /\ l[j].name \in since[l[k].name]
    <3>1. j < r \/ j # K-1
      BY <2>4, PacketStoreAssumption DEF Cells
    <3>2. From(j) \in Cells /\ l[j] = Lines[From(j)] /\ From(j) < From(k)
      BY <1>2, <1>6, <2>4, <3>1
    <3>3. QED
      BY <2>1, <2>2, <3>2 DEF MostRecentListed, Listed
  <2>5. ASSUME NEW n \in Names, n \notin {Me, p.name},
               last_packet # None => n # last_packet.name,
               \A j \in Cells : l[j] # None => l[j].name # n
        PROVE  l[k].name \in since[n]
    <3>1. \A j \in Cells : Lines[j] # None => Lines[j].name # n
      BY <1>7, <2>5
    <3>2. Waiting(n)
      BY <2>5, <3>1 DEF Waiting, Listed
    <3>3. QED
      BY <2>1, <2>2, <3>2 DEF MostRecentListed
  <2>6. QED
    BY <2>3, <2>4, <2>5
<1>9. QED
  BY <1>5, <1>8 DEF Ordered, OnLine, l

LEMMA OrderedAsItIs ==
  ASSUME HInv, NEW p \in Packets, \A k \in Cells : Lines[k] # None => Lines[k].name # p.name
  PROVE  Lines \in Rings /\ Ordered(Lines, p)
<1> USE DEF HInv
<1>1. /\ Lines \in Rings
      /\ last_packet # None =>
           \A k \in Cells : Lines[k] # None => Lines[k].name # last_packet.name
  BY LinesType
<1>2. \A n \in Names :
        /\ n \notin {Me, p.name}
        /\ last_packet # None => n # last_packet.name
        /\ \A j \in Cells : Lines[j] # None => Lines[j].name # n
        => Waiting(n)
  BY DEF Waiting, Listed
<1>3. QED
  BY <1>1, <1>2 DEF Ordered, OnLine, MostRecentListed, Listed

LEMMA InitRecent == Init => SinceOK /\ MostRecentListed
<1> SUFFICES ASSUME Init PROVE SinceOK /\ MostRecentListed
  OBVIOUS
<1>1. Listed = {}
  <2>1. Lines = [r \in HL!Ranks |-> None]
    BY InitImplements DEF HL!HLInit
  <2>2. QED
    BY <2>1 DEF Listed, HL!Ranks, Cells
<1>2. QED
  BY <1>1 DEF Init, SinceOK, MostRecentListed

LEMMA RehearRecent ==
  ASSUME HInv, NEW p \in Packets, Rehear(p)
  PROVE  SinceOK' /\ MostRecentListed'
<1> USE DEF HInv
<1>1. /\ last_packet # None /\ last_packet.name = p.name /\ last_packet \in Packets
      /\ last_packet' \in Packets /\ last_packet'.name = p.name
      /\ Lines' = Lines /\ Heard(p)
  BY MergedPacket, SameLines DEF Rehear, SameAsLast, IInv, StateOK
<1>2. Lines \in Rings /\ Ordered(Lines, p)
  BY <1>1, LinesType, OrderedAsItIs
<1>3. QED
  BY <1>1, <1>2, HeardSince, SameListKeeps

LEMMA HearStoredRecent ==
  ASSUME HInv, NEW p \in Packets, HearStored(p)
  PROVE  SinceOK' /\ MostRecentListed'
<1> USE DEF HInv
<1>1. PICK r \in Cells : /\ Lines[r] # None /\ Lines[r].name = p.name
                         /\ last_packet' = MergePackets(p, Lines[r])
                         /\ HL!Enlist(HL!Without(Lines, r))
  BY HearStoredImplements, SameWords DEF HL!HearListed, HL!ListedAt
<1>2. last_packet' \in Packets /\ last_packet'.name = p.name
  BY <1>1, LinesType, LineNames, MergedPacket
<1>3. HL!Without(Lines, r) \in Rings /\ Ordered(HL!Without(Lines, r), p)
  BY <1>1, OrderedWithout
<1>4. ~SameAsLast(p) /\ Heard(p)
  BY DEF HearStored
<1>5. QED
  BY <1>1, <1>2, <1>3, <1>4, HeardSince, EnlistKeeps

LEMMA HearFirstRecent ==
  ASSUME HInv, NEW p \in Packets, HearFirst(p)
  PROVE  SinceOK' /\ MostRecentListed'
<1> USE DEF HInv
<1>1. /\ \A k \in Cells : Lines[k] # None => Lines[k].name # p.name
      /\ HL!Enlist(Lines)
  BY HearFirstImplements, SameWords DEF HL!HearNew, HL!ListedAt
<1>2. Lines \in Rings /\ Ordered(Lines, p)
  BY <1>1, OrderedAsItIs
<1>3. ~SameAsLast(p) /\ Heard(p) /\ last_packet' = p
  BY DEF HearFirst
<1>4. QED
  BY <1>1, <1>2, <1>3, HeardSince, EnlistKeeps

LEMMA NextRecent ==
  ASSUME HInv, [Next]_vars
  PROVE  SinceOK' /\ MostRecentListed'
<1>1. CASE UNCHANGED <<last_packet, recent, recent_idx, since>>
  BY <1>1, SameLines DEF HInv, SinceOK, MostRecentListed, Waiting, Listed
<1>2. ASSUME NEW p \in Packets, Rehear(p) \/ HearStored(p) \/ HearFirst(p)
      PROVE  SinceOK' /\ MostRecentListed'
  BY <1>2, RehearRecent, HearStoredRecent, HearFirstRecent
<1>3. QED
  BY <1>1, <1>2 DEF Next, ShowInfo, vars

\* The list with what it says of the times at which its stations were heard.
THEOREM RecentInvariance == Spec => []HInv
<1>1. Init => HInv
  BY InitOK, InitRecent DEF HInv
<1>2. HInv /\ [Next]_vars => HInv'
  BY NextKeeps, NextRecent DEF HInv
<1>3. QED
  BY <1>1, <1>2, PTL DEF Spec

\* The lines below the main panel are the stations heard last, in the order in
\* which they were heard and with nobody missing among them, for every
\* KEEP_PACKETS and any number of stations (store_packet, update_packets_ui).
THEOREM TheLatestAreListed == Spec => []MostRecentListed
BY RecentInvariance, PTL DEF HInv

\* All variables keep their types; recent_idx and disp_idx stay in the ring.
THEOREM TypeCorrect == Spec => []TypeOK
<1>1. HInv => TypeOK
  BY DEF HInv, IInv, SinceOK, KnownOK, TypeOK
<1>2. QED
  BY <1>1, RecentInvariance, PTL
=============================================================================
