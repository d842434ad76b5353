----------------------------- MODULE RadioProofs -----------------------------
(* What goes over the air: nothing is relayed twice, the bars count what was *)
(* heard again, and a frame is decoded to what was encoded.                  *)

EXTENDS Digi, Ax25Decode, WellFoundedInduction, SequenceTheorems, FiniteSetTheorems, TLAPS

-----------------------------------------------------------------------------
(* Relaying.                                                               *)

Tok == [name : PathNames \cup Words \cup {",", ":"}, star : BOOLEAN]
Transmission == [src : Trackers, by : Trackers, toks : Seq(Tok), orig : Nat]

\* A text that begins with a used element is a copy and the element is the call
\* of who made it; all others were sent by their source.
Copy(t) == t.toks[1].star

CopiesInv ==
    /\ air \in Seq(Transmission)
    /\ sentOut \in Seq(Beacons)
    /\ caught \in [Trackers -> SUBSET Nat]
    /\ \A i \in DOMAIN air : air[i].orig \in 1..Len(sentOut)
    /\ \A i \in DOMAIN air : Copy(air[i]) => air[i].toks[1].name = air[i].by
    \* a beacon is sent once ...
    /\ \A i, j \in DOMAIN air :
         ~Copy(air[i]) /\ ~Copy(air[j]) /\ air[i].orig = air[j].orig => i = j
    \* ... and who made a copy of it has caught it from another
    /\ \A i \in DOMAIN air : Copy(air[i]) =>
         \E k \in DOMAIN air : /\ ~Copy(air[k]) /\ air[k].orig = air[i].orig
                               /\ air[k].by # air[i].by /\ k \in caught[air[i].by]
    /\ RelayedOnce

-----------------------------------------------------------------------------
Names == PathNames \cup Words \cup {",", ":"}

LEMMA TokenIsTok ==
    ASSUME NEW n \in Names, NEW u \in BOOLEAN
    PROVE  Token(n, u) \in Tok /\ Token(n, u).name = n /\ Token(n, u).star = u
BY DEF Token, Tok, Names

LEMMA SeparatorsAreToks == Comma \in Tok /\ Colon \in Tok
BY TokenIsTok DEF Comma, Colon, Names

LEMMA NamesHoldBoth == PathNames \subseteq Names /\ Words \subseteq Names
BY DEF Names

LEMMA Pair ==
    ASSUME NEW S, NEW a \in S, NEW b \in S
    PROVE  <<a, b>> \in Seq(S) /\ Len(<<a, b>>) = 2 /\ <<a, b>>[1] = a
OBVIOUS

LEMMA Joins ==
    ASSUME NEW S, NEW a \in Seq(S), NEW b \in Seq(S), NEW c \in Seq(S), Len(a) > 0
    PROVE  (a \o b) \o c \in Seq(S) /\ ((a \o b) \o c)[1] = a[1]
<1>1. a \o b \in Seq(S) /\ Len(a \o b) > 0 /\ (a \o b)[1] = a[1]
    OBVIOUS
<1>2. QED BY <1>1

\* A path as text begins with its first name, not used.
LEMMA JoinedText ==
    ASSUME NEW path \in Seq(PathNames), path # <<>>
    PROVE  /\ Joined(path) \in Seq(Tok) /\ Len(Joined(path)) > 0
           /\ Joined(path)[1] = Token(path[1], FALSE)
<1>1. Len(path) \in Nat /\ Len(path) > 0
    OBVIOUS
<1>2. \A k \in 1..(2 * Len(path) - 1) :
        k % 2 = 1 => (k + 1) \div 2 \in 1..Len(path)
    <2> DEFINE n == Len(path)
    <2>1. n \in Nat
        OBVIOUS
    <2> HIDE DEF n
    <2>2. \A k \in 1..(2 * n - 1) : (k + 1) \div 2 \in 1..n
        BY <2>1
    <2>3. QED BY <2>2 DEF n
<1>3. ASSUME NEW k \in 1..(2 * Len(path) - 1)
      PROVE  (IF k % 2 = 1 THEN Token(path[(k + 1) \div 2], FALSE) ELSE Comma) \in Tok
    <2>1. CASE k % 2 = 1
        <3>1. path[(k + 1) \div 2] \in Names
            BY <1>1, <1>2, NamesHoldBoth
        <3>2. Token(path[(k + 1) \div 2], FALSE) \in Tok
            BY <3>1, TokenIsTok
        <3>3. QED BY <2>1, <3>2
    <2>2. CASE k % 2 # 1
        BY <2>2, SeparatorsAreToks
    <2>3. QED BY <2>1, <2>2
<1>4. Joined(path) \in [1..(2 * Len(path) - 1) -> Tok]
    BY <1>3 DEF Joined
<1>5. 2 * Len(path) - 1 \in Nat /\ 2 * Len(path) - 1 > 0
    BY <1>1
<1>6. Joined(path) \in Seq(Tok) /\ Len(Joined(path)) = 2 * Len(path) - 1
    BY <1>4, <1>5
<1>7. Joined(path)[1] = Token(path[1], FALSE)
    <2>1. 1 \in 1..(2 * Len(path) - 1) /\ 1 % 2 = 1 /\ (1 + 1) \div 2 = 1
        BY <1>5
    <2>2. Joined(path)[1] = IF 1 % 2 = 1 THEN Token(path[(1 + 1) \div 2], FALSE) ELSE Comma
        BY <2>1, Zenon DEF Joined
    <2>3. QED BY <2>1, <2>2
<1>8. QED BY <1>5, <1>6, <1>7

LEMMA BeaconText ==
    ASSUME NEW b \in Beacons
    PROVE  Text(b) \in Seq(Tok) /\ Text(b)[1].star = FALSE
<1>1. b.path \in Seq(PathNames) /\ b.path # <<>> /\ b.body \in Seq(Words)
    BY DigiAssumption
<1>2. Body(b.body) \in Seq(Tok)
    <2>1. DOMAIN b.body = 1..Len(b.body) /\ Len(b.body) \in Nat
        BY <1>1
    <2>2. ASSUME NEW i \in DOMAIN b.body PROVE Token(b.body[i], FALSE) \in Tok
        <3>1. b.body[i] \in Names
            BY <1>1, <2>1, NamesHoldBoth
        <3>2. QED BY <3>1, TokenIsTok
    <2>3. Body(b.body) \in [1..Len(b.body) -> Tok]
        BY <2>1, <2>2 DEF Body
    <2>4. QED BY <2>1, <2>3
<1>3. Colon \in Tok
    BY SeparatorsAreToks
<1> DEFINE J == Joined(b.path)
<1>4. J \in Seq(Tok) /\ Len(J) > 0 /\ J[1].star = FALSE
    <2>1. b.path[1] \in Names
        BY <1>1, NamesHoldBoth
    <2>2. J \in Seq(Tok) /\ Len(J) > 0 /\ J[1] = Token(b.path[1], FALSE)
        BY <1>1, JoinedText
    <2> HIDE DEF J
    <2>3. QED BY <2>1, <2>2, TokenIsTok
<1> HIDE DEF J
<1>5. /\ (J \o <<Colon>>) \o Body(b.body) \in Seq(Tok)
      /\ ((J \o <<Colon>>) \o Body(b.body))[1] = J[1]
    <2>1. <<Colon>> \in Seq(Tok)
        BY <1>3
    <2>2. QED BY <1>2, <1>4, <2>1, Joins
<1>6. Text(b) = (J \o <<Colon>>) \o Body(b.body)
    BY DEF Text, J
<1>7. QED BY <1>4, <1>5, <1>6

\* Where there are colons there is a first one.
LEMMA SmallestColon ==
    ASSUME NEW C \in SUBSET Nat, C # {}
    PROVE  \E n \in C : \A m \in C : n <= m
<1>1. PICK n \in C : \A m \in C : ~(<<m, n>> \in OpToRel(<, Nat))
    BY WFMin, NatLessThanWellFounded, Zenon
<1>2. \A m \in C : ~(m < n)
    BY <1>1 DEF OpToRel
<1>3. \A m \in C : n <= m
    <2> HIDE <1>1
    <2>1. QED BY <1>2
<1>4. QED BY <1>3

\* A copy is one, of the same beacon, and begins with the call of its maker.
LEMMA MadeCopy ==
    ASSUME NEW s \in Trackers, NEW t \in Transmission, ~DigiFails(s, t.toks)
    PROVE  LET c == DigiPacket(s, t)
           IN  /\ c \in Transmission /\ c.by = s /\ c.orig = t.orig
               /\ Copy(c) /\ c.toks[1].name = s
<1> DEFINE head == <<Token(s, TRUE), Comma>>
           mid == IF s \in Appends THEN Joined(DigiPath) ELSE <<>>
           tail == Rest(s, t.toks)
<1>1. t.toks \in Seq(Tok)
    BY DEF Transmission
<1>2. head \in Seq(Tok) /\ Len(head) = 2 /\ head[1] = Token(s, TRUE)
    <2>1. s \in Names
        BY DigiAssumption DEF Names
    <2>2. Token(s, TRUE) \in Tok /\ Comma \in Tok
        BY <2>1, TokenIsTok, SeparatorsAreToks
    <2>3. QED BY <2>2, Pair
<1>3. mid \in Seq(Tok)
    <2>1. Joined(DigiPath) \in Seq(Tok)
        BY DigiAssumption, JoinedText
    <2> HIDE DEF Joined
    <2>2. QED BY <2>1
<1>4. \A k \in Nat \ {0} : SubSeq(t.toks, k, Len(t.toks)) \in Seq(Tok)
    BY <1>1
<1>5. tail \in Seq(Tok)
    <2>1. CASE s \notin Appends
        BY <1>4, <2>1 DEF Rest
    <2>2. CASE s \in Appends
        <3> DEFINE C == ColonsFrom(t.toks, 3)
        <3>1. C # {} /\ C \subseteq Nat \ {0}
            BY <1>1, <2>2 DEF DigiFails, ColonsFrom
        <3>2. tail = SubSeq(t.toks, Min(C), Len(t.toks))
            BY <2>2, <3>1 DEF Rest
        <3>3. Min(C) \in C
            <4>1. \E n \in C : \A m \in C : n <= m
                BY <1>1, <3>1, SmallestColon
            <4>2. QED BY <4>1 DEF Min
        <3>4. QED BY <1>4, <3>1, <3>2, <3>3
    <2>3. QED BY <2>1, <2>2
<1>6. DigiPacket(s, t) = [t EXCEPT !.by = s, !.toks = (head \o mid) \o tail]
    BY DEF DigiPacket
<1> HIDE DEF head, mid, tail
<1>6a. Len(head) > 0
    BY <1>2
<1>7. (head \o mid) \o tail \in Seq(Tok) /\ ((head \o mid) \o tail)[1] = head[1]
    BY <1>3, <1>5, <1>2, <1>6a, Joins, Zenon
<1>8. Token(s, TRUE).name = s /\ Token(s, TRUE).star = TRUE
    BY DigiAssumption, TokenIsTok DEF Names
<1> DEFINE new == (head \o mid) \o tail
<1>9. new \in Seq(Tok) /\ new[1] = Token(s, TRUE) /\ DigiPacket(s, t) = [t EXCEPT !.by = s, !.toks = new]
    BY <1>2, <1>6, <1>7
<1> HIDE DEF new
<1>10. QED BY <1>8, <1>9 DEF Transmission, Copy

-----------------------------------------------------------------------------
\* With DigiSpec in force a copy is made of an original only: its first element
\* is the call of who made it, no alias.
LEMMA InitCopies == DigiInit => CopiesInv
<1> SUFFICES ASSUME DigiInit PROVE CopiesInv
    OBVIOUS
<1>1. air = <<>> /\ sentOut = <<>> /\ caught \in [Trackers -> SUBSET Nat]
    BY DEF DigiInit
<1>2. air \in Seq(Transmission) /\ DOMAIN air = {} /\ sentOut \in Seq(Beacons)
    BY <1>1
<1>3. QED BY <1>1, <1>2 DEF CopiesInv, RelayedOnce

LEMMA SendKeeps ==
    ASSUME CopiesInv, NEW s \in Trackers, NEW b \in Beacons, SendBeacon(s, b)
    PROVE  CopiesInv'
<1> DEFINE n == Len(air)
           t == [src |-> s, by |-> s, toks |-> Text(b), orig |-> Len(sentOut) + 1]
<1>1. /\ air \in Seq(Transmission) /\ sentOut \in Seq(Beacons)
      /\ n \in Nat /\ DOMAIN air = 1..n /\ Len(sentOut) \in Nat
    BY DEF CopiesInv
<1>2. t \in Transmission /\ ~Copy(t) /\ t.orig = Len(sentOut) + 1
    <2>1. Text(b) \in Seq(Tok) /\ Text(b)[1].star = FALSE
        BY BeaconText
    <2>2. Len(sentOut) + 1 \in Nat
        BY <1>1
    <2>3. t.toks = Text(b) /\ t.orig = Len(sentOut) + 1 /\ t \in Transmission
        BY <2>1, <2>2 DEF Transmission
    <2>4. QED BY <2>1, <2>3 DEF Copy
<1>3. air' = Append(air, t) /\ caught' = caught /\ sentOut' = Append(sentOut, b)
    BY DEF SendBeacon
<1> HIDE DEF t
<1>4. /\ air' \in Seq(Transmission) /\ DOMAIN air' = 1..(n + 1)
      /\ air'[n + 1] = t /\ \A i \in 1..n : air'[i] = air[i]
    BY <1>1, <1>2, <1>3
<1>5. sentOut' \in Seq(Beacons) /\ Len(sentOut') = Len(sentOut) + 1
    BY <1>1, <1>3
<1>6. \A i \in 1..n : air[i].orig \in 1..Len(sentOut)
    BY <1>1 DEF CopiesInv
<1>7. \A i \in DOMAIN air' : i \in 1..n \/ i = n + 1
    BY <1>1, <1>4
<1>8. \A i \in DOMAIN air' : air'[i].orig \in 1..Len(sentOut')
    BY <1>1, <1>2, <1>4, <1>5, <1>6, <1>7
\* the new one is no copy and of no beacon before
<1>9. \A i \in 1..n : air[i].orig # t.orig
    BY <1>1, <1>2, <1>6
<1>10. \A i \in DOMAIN air' : Copy(air'[i]) => i \in 1..n /\ Copy(air[i])
    BY <1>2, <1>4, <1>7
<1>11. \A i \in DOMAIN air' : Copy(air'[i]) => air'[i].toks[1].name = air'[i].by
    BY <1>1, <1>4, <1>10 DEF CopiesInv
<1>12. \A i, j \in DOMAIN air' :
         ~Copy(air'[i]) /\ ~Copy(air'[j]) /\ air'[i].orig = air'[j].orig => i = j
    BY <1>1, <1>4, <1>7, <1>9 DEF CopiesInv
<1>13. \A i \in DOMAIN air' : Copy(air'[i]) =>
         \E k \in DOMAIN air' : /\ ~Copy(air'[k]) /\ air'[k].orig = air'[i].orig
                                /\ air'[k].by # air'[i].by /\ k \in caught'[air'[i].by]
    <2> SUFFICES ASSUME NEW i \in DOMAIN air', Copy(air'[i])
                 PROVE  \E k \in DOMAIN air' :
                          /\ ~Copy(air'[k]) /\ air'[k].orig = air'[i].orig
                          /\ air'[k].by # air'[i].by /\ k \in caught'[air'[i].by]
        OBVIOUS
    <2>1. PICK k \in 1..n : /\ ~Copy(air[k]) /\ air[k].orig = air[i].orig
                            /\ air[k].by # air[i].by /\ k \in caught[air[i].by]
        BY <1>1, <1>10 DEF CopiesInv
    <2>2. k \in DOMAIN air' /\ air'[k] = air[k] /\ air'[i] = air[i]
        BY <1>1, <1>4, <1>10
    <2>3. QED BY <1>3, <2>1, <2>2
<1>14. RelayedOnce'
    BY <1>1, <1>4, <1>7, <1>9 DEF CopiesInv, RelayedOnce
<1>15. caught' \in [Trackers -> SUBSET Nat]
    BY <1>3 DEF CopiesInv
<1>16. QED BY <1>4, <1>5, <1>8, <1>11, <1>12, <1>13, <1>14, <1>15 DEF CopiesInv

LEMMA OnAir ==
    ASSUME CopiesInv
    PROVE  \A j \in DOMAIN air : air[j] \in Transmission /\ air[j].by \in Trackers
<1>1. air \in Seq(Transmission)
    BY DEF CopiesInv
<1>2. \A t \in Transmission : t.by \in Trackers
    BY DEF Transmission
<1> HIDE DEF Transmission
<1>3. \A j \in DOMAIN air : air[j] \in Transmission
    BY <1>1
<1>4. QED BY <1>2, <1>3

\* Hearing alone adds to what a station has caught.
LEMMA CatchKeeps ==
    ASSUME CopiesInv, NEW s \in Trackers, NEW i \in DOMAIN air, HearAir(s, i), air' = air
    PROVE  CopiesInv'
<1>1. air \in Seq(Transmission) /\ DOMAIN air \subseteq Nat
    BY DEF CopiesInv
<1>2. caught' = [caught EXCEPT ![s] = @ \cup {i}] /\ sentOut' = sentOut
    BY DEF HearAir
<1>3. caught \in [Trackers -> SUBSET Nat]
    BY DEF CopiesInv
<1>4. caught' \in [Trackers -> SUBSET Nat] /\ \A r \in Trackers : caught[r] \subseteq caught'[r]
    BY <1>1, <1>2, <1>3
<1>5. \A j \in DOMAIN air : air[j].by \in Trackers
    BY OnAir
<1>6. \A j \in DOMAIN air : Copy(air[j]) =>
         \E k \in DOMAIN air : /\ ~Copy(air[k]) /\ air[k].orig = air[j].orig
                               /\ air[k].by # air[j].by /\ k \in caught'[air[j].by]
    <2> SUFFICES ASSUME NEW j \in DOMAIN air, Copy(air[j])
                 PROVE  \E k \in DOMAIN air :
                          /\ ~Copy(air[k]) /\ air[k].orig = air[j].orig
                          /\ air[k].by # air[j].by /\ k \in caught'[air[j].by]
        OBVIOUS
    <2>1. PICK k \in DOMAIN air : /\ ~Copy(air[k]) /\ air[k].orig = air[j].orig
                                  /\ air[k].by # air[j].by /\ k \in caught[air[j].by]
        BY DEF CopiesInv
    <2>2. QED BY <1>4, <1>5, <2>1
<1>7. QED BY <1>2, <1>4, <1>6 DEF CopiesInv, RelayedOnce, Copy

\* What is relayed was an original of another station, not caught before.
LEMMA RelayKeeps ==
    ASSUME CopiesInv, NEW s \in Trackers, NEW i \in DOMAIN air, HearAir(s, i),
           ShouldDigi(s, air[i].toks), ~DigiFails(s, air[i].toks),
           air' = Append(air, DigiPacket(s, air[i]))
    PROVE  CopiesInv'
<1> DEFINE n == Len(air)
           c == DigiPacket(s, air[i])
<1>1. air \in Seq(Transmission) /\ n \in Nat /\ DOMAIN air = 1..n /\ i \in 1..n
    BY DEF CopiesInv
<1>2. air[i] \in Transmission /\ air[i].by \in Trackers
    BY OnAir
<1>3. /\ c \in Transmission /\ c.by = s /\ c.orig = air[i].orig
      /\ Copy(c) /\ c.toks[1].name = s
    BY <1>2, MadeCopy
<1> HIDE DEF c
<1>4. /\ air' \in Seq(Transmission) /\ DOMAIN air' = 1..(n + 1)
      /\ air'[n + 1] = c /\ \A j \in 1..n : air'[j] = air[j]
    BY <1>1, <1>3 DEF c
<1>5. \A j \in DOMAIN air' : j \in 1..n \/ j = n + 1
    BY <1>1, <1>4
<1>6. 1..n \subseteq DOMAIN air'
    BY <1>1, <1>4
<1>7. /\ caught' = [caught EXCEPT ![s] = @ \cup {i}] /\ sentOut' = sentOut
      /\ air[i].by # s /\ i \notin caught[s]
    BY DEF HearAir
<1>8. /\ caught' \in [Trackers -> SUBSET Nat] /\ i \in caught'[s]
      /\ \A r \in Trackers : caught[r] \subseteq caught'[r]
    BY <1>1, <1>7 DEF CopiesInv
\* it was no copy: a copy begins with a call, and no call is like the alias
<1>9. ~Copy(air[i])
    BY <1>2, DigiAssumption DEF CopiesInv, ShouldDigi
<1>10. \A j \in 1..n : air[j].by \in Trackers
    BY <1>1, OnAir
<1>11. \A j \in 1..n : Copy(air[j]) =>
         \E k \in 1..n : /\ ~Copy(air[k]) /\ air[k].orig = air[j].orig
                         /\ air[k].by # air[j].by /\ k \in caught[air[j].by]
    BY <1>1 DEF CopiesInv
<1>12. \A j, k \in 1..n :
         ~Copy(air[j]) /\ ~Copy(air[k]) /\ air[j].orig = air[k].orig => j = k
    BY <1>1 DEF CopiesInv
\* s sent nothing of this beacon yet
<1>13. \A j \in 1..n : ~(air[j].by = s /\ air[j].orig = c.orig)
    <2> SUFFICES ASSUME NEW j \in 1..n, air[j].by = s, air[j].orig = c.orig PROVE FALSE
        OBVIOUS
    <2>1. CASE ~Copy(air[j])
        BY <1>1, <1>3, <1>7, <1>9, <1>12, <2>1
    <2>2. CASE Copy(air[j])
        <3>1. PICK k \in 1..n : ~Copy(air[k]) /\ air[k].orig = air[j].orig /\ k \in caught[s]
            BY <1>11, <2>2
        <3>2. k = i
            BY <1>1, <1>3, <1>9, <1>12, <3>1
        <3>3. QED BY <1>7, <3>1, <3>2
    <2>3. QED BY <2>1, <2>2
<1>14. RelayedOnce'
    <2> SUFFICES ASSUME NEW j \in DOMAIN air', NEW k \in DOMAIN air',
                        air'[j].by = air'[k].by, air'[j].orig = air'[k].orig
                 PROVE  j = k
        BY DEF RelayedOnce
    <2>1. CASE j \in 1..n /\ k \in 1..n
        BY <1>1, <1>4, <2>1 DEF CopiesInv, RelayedOnce
    <2>2. CASE j = n + 1 \/ k = n + 1
        BY <1>3, <1>4, <1>5, <1>13, <2>2
    <2>3. QED BY <1>5, <2>1, <2>2
<1>15. \A j \in DOMAIN air' : Copy(air'[j]) =>
         \E k \in DOMAIN air' : /\ ~Copy(air'[k]) /\ air'[k].orig = air'[j].orig
                                /\ air'[k].by # air'[j].by /\ k \in caught'[air'[j].by]
    <2> SUFFICES ASSUME NEW j \in DOMAIN air', Copy(air'[j])
                 PROVE  \E k \in DOMAIN air' :
                          /\ ~Copy(air'[k]) /\ air'[k].orig = air'[j].orig
                          /\ air'[k].by # air'[j].by /\ k \in caught'[air'[j].by]
        OBVIOUS
    <2>1. CASE j \in 1..n
        <3>1. PICK k \in 1..n : /\ ~Copy(air[k]) /\ air[k].orig = air[j].orig
                                /\ air[k].by # air[j].by /\ k \in caught[air[j].by]
            BY <1>4, <1>11, <2>1
        <3>2. k \in caught'[air[j].by]
            BY <1>8, <1>10, <2>1, <3>1
        <3>3. QED BY <1>4, <1>6, <2>1, <3>1, <3>2
    <2>2. CASE j = n + 1
        BY <1>1, <1>3, <1>4, <1>6, <1>7, <1>8, <1>9, <2>2
    <2>3. QED BY <1>5, <2>1, <2>2
<1>16. \A j, k \in DOMAIN air' :
         ~Copy(air'[j]) /\ ~Copy(air'[k]) /\ air'[j].orig = air'[k].orig => j = k
    BY <1>3, <1>4, <1>5, <1>12
<1>17. \A j \in DOMAIN air' : Copy(air'[j]) => air'[j].toks[1].name = air'[j].by
    <2>1. \A j \in 1..n : Copy(air[j]) => air[j].toks[1].name = air[j].by
        BY <1>1 DEF CopiesInv
    <2>2. QED BY <1>3, <1>4, <1>5, <2>1
<1>18. \A j \in DOMAIN air' : air'[j].orig \in 1..Len(sentOut')
    <2>1. \A j \in 1..n : air[j].orig \in 1..Len(sentOut)
        BY <1>1 DEF CopiesInv
    <2>2. QED BY <1>1, <1>3, <1>4, <1>5, <1>7, <2>1
<1>19. sentOut' \in Seq(Beacons)
    BY <1>7 DEF CopiesInv
<1>20. QED BY <1>4, <1>8, <1>14, <1>15, <1>16, <1>17, <1>18, <1>19 DEF CopiesInv

LEMMA CopiesInvariance == DigiSpec => []CopiesInv
<1>1. CopiesInv /\ [DigiNext]_digiVars => CopiesInv'
    <2> SUFFICES ASSUME CopiesInv, [DigiNext]_digiVars PROVE CopiesInv'
        OBVIOUS
    <2>1. CASE UNCHANGED digiVars
        BY <2>1 DEF digiVars, CopiesInv, RelayedOnce, Copy
    <2>2. ASSUME NEW s \in Trackers, NEW b \in Beacons, SendBeacon(s, b) PROVE CopiesInv'
        BY <2>2, SendKeeps
    <2>3. ASSUME NEW s \in Trackers, NEW i \in DOMAIN air, HearAir(s, i) PROVE CopiesInv'
        <3>1. \/ air' = air
              \/ /\ ShouldDigi(s, air[i].toks) /\ ~DigiFails(s, air[i].toks)
                 /\ air' = Append(air, DigiPacket(s, air[i]))
            BY <2>3 DEF HearAir
        <3>2. QED BY <2>3, <3>1, CatchKeeps, RelayKeeps
    <2>4. ASSUME NEW s \in Trackers, ShowBars(s) PROVE CopiesInv'
        BY <2>4 DEF ShowBars, CopiesInv, RelayedOnce, Copy
    <2>5. QED BY <2>1, <2>2, <2>3, <2>4 DEF DigiNext
<1>2. QED BY InitCopies, <1>1, PTL DEF DigiSpec

\* With any stations, aliases and paths, and in whatever order they hear each
\* other, no station sends a beacon twice (parse_incoming_packet, digi_packet).
THEOREM RelayedAtMostOnce == DigiSpec => []RelayedOnce
<1>1. CopiesInv => RelayedOnce
    BY DEF CopiesInv
<1>2. QED BY <1>1, CopiesInvariance, PTL

-----------------------------------------------------------------------------
(* The signal bars.                                                        *)

\* The own beacons that were heard again, the last one's bit first.
HeardAgain(s, told) ==
    {i \in Bits : IF i < Len(told) THEN told[Len(told) - i] ELSE s \in Testing}

\* The bits are what was heard, and the bars those of the bits; a packet of a
\* station is on the air only when the station has beaconed.
BarsInv ==
    /\ echoed \in [Trackers -> Seq(BOOLEAN)]
    /\ digi_quality \in [Trackers -> SUBSET Bits]
    /\ bars \in [Trackers -> Int]
    /\ \A s \in Trackers :
         /\ digi_quality[s] = HeardAgain(s, echoed[s])
         /\ bars[s] # -1 => bars[s] = SigBars(digi_quality[s])
    /\ \A i \in DOMAIN air : Len(echoed[air[i].src]) > 0

LEMMA WidthIs == Width \in Nat \ {0} /\ 0 \in Bits /\ Bits \subseteq Nat
BY DigiAssumption DEF Bits

LEMMA ShiftedIsHeard ==
    ASSUME NEW s \in Trackers, NEW told \in Seq(BOOLEAN)
    PROVE  /\ Append(told, FALSE) \in Seq(BOOLEAN) /\ Len(Append(told, FALSE)) > 0
           /\ Shifted(HeardAgain(s, told)) = HeardAgain(s, Append(told, FALSE))
<1> DEFINE n == Len(told)
           more == Append(told, FALSE)
           old == HeardAgain(s, told)
           new == HeardAgain(s, more)
<1>1. /\ more \in Seq(BOOLEAN) /\ Len(more) = n + 1 /\ n \in Nat
      /\ \A i \in 1..n : more[i] = told[i]
      /\ more[n + 1] = FALSE
    <2>1. FALSE \in BOOLEAN
        OBVIOUS
    <2>2. QED BY <2>1, AppendProperties, LenProperties
<1> HIDE DEF more
<1>2. ASSUME NEW i \in Bits PROVE i \in new <=> i - 1 \in old
    <2>1. i \in Nat /\ i < Width
        BY WidthIs DEF Bits
    <2>2. CASE i = 0
        <3>1. i < Len(more) /\ Len(more) - i = n + 1 /\ i - 1 \notin Bits
            BY <1>1, <2>2 DEF Bits
        <3>2. i \notin new
            BY <1>1, <3>1 DEF HeardAgain
        <3>3. i - 1 \notin old
            BY <3>1 DEF HeardAgain
        <3>4. QED BY <3>2, <3>3
    <2>3. CASE i > 0 /\ i - 1 < n
        <3>1. /\ i < Len(more) /\ Len(more) - i = n - (i - 1) /\ n - (i - 1) \in 1..n
              /\ i - 1 \in Bits
            BY <1>1, <2>1, <2>3, WidthIs DEF Bits
        <3>2. more[Len(more) - i] = told[n - (i - 1)]
            BY <1>1, <3>1
        <3>3. i \in new <=> more[Len(more) - i]
            BY <3>1, Zenon DEF HeardAgain
        <3>4. i - 1 \in old <=> told[n - (i - 1)]
            BY <2>3, <3>1, Zenon DEF HeardAgain
        <3>5. QED BY <3>2, <3>3, <3>4, Zenon
    <2>4. CASE i > 0 /\ ~(i - 1 < n)
        <3>1. ~(i < Len(more)) /\ i - 1 \in Bits
            BY <1>1, <2>1, <2>4, WidthIs DEF Bits
        <3>2. i \in new <=> s \in Testing
            BY <3>1, Zenon DEF HeardAgain
        <3>3. i - 1 \in old <=> s \in Testing
            BY <2>4, <3>1, Zenon DEF HeardAgain
        <3>4. QED BY <3>2, <3>3, Zenon
    <2>5. QED BY <1>1, <2>1, <2>2, <2>3, <2>4
<1>3. old \subseteq Bits /\ new \subseteq Bits
    BY DEF HeardAgain
<1> HIDE DEF old, new
<1>4. \A i \in Bits : i \in Shifted(old) <=> i - 1 \in old
    <2>1. ASSUME NEW i \in Bits PROVE i \in Shifted(old) <=> i - 1 \in old
        <3>1. \A b \in old : b + 1 = i <=> b = i - 1
            BY <1>3, WidthIs
        <3>2. QED BY <2>1, <3>1 DEF Shifted
    <2>2. QED BY <2>1
<1>5. Shifted(old) = new
    <2>1. Shifted(old) \subseteq Bits
        BY DEF Shifted
    <2>2. QED BY <1>2, <1>3, <1>4, <2>1
<1>6. QED BY <1>1, <1>5 DEF old, new, more

LEMMA FirstIsHeard ==
    ASSUME NEW s \in Trackers, NEW told \in Seq(BOOLEAN), Len(told) > 0
    PROVE  /\ Append(Front(told), TRUE) \in Seq(BOOLEAN) /\ Len(Append(Front(told), TRUE)) > 0
           /\ FirstSet(HeardAgain(s, told)) = HeardAgain(s, Append(Front(told), TRUE))
<1> DEFINE n == Len(told)
           f == Front(told)
           more == Append(f, TRUE)
           old == HeardAgain(s, told)
           new == HeardAgain(s, more)
<1>1. n \in Nat /\ n > 0
    BY LenProperties
<1>2. f \in Seq(BOOLEAN) /\ Len(f) = n - 1 /\ \A i \in 1..(n - 1) : f[i] = told[i]
    <2>1. f = SubSeq(told, 1, n - 1)
        BY DEF Front
    <2>2. \A i \in 1..(n - 1) : told[i] \in BOOLEAN
        <3>1. \A i \in 1..(n - 1) : i \in 1..n
            BY <1>1
        <3>2. QED BY <3>1, ElementOfSeq
    <2> DEFINE e == n - 1
    <2>3. e \in Int /\ e = n - 1 /\ 1 \in Int /\ (1 <= e => e - 1 + 1 = e)
        BY <1>1
    <2> HIDE DEF e
    <2>4. /\ SubSeq(told, 1, e) \in Seq(BOOLEAN)
          /\ Len(SubSeq(told, 1, e)) = IF 1 <= e THEN e - 1 + 1 ELSE 0
          /\ \A i \in 1..(e - 1 + 1) : SubSeq(told, 1, e)[i] = told[1 + i - 1]
        BY <2>2, <2>3, SubSeqProperties
    <2>5. /\ (IF 1 <= e THEN e - 1 + 1 ELSE 0) = n - 1
          /\ \A i \in 1..(n - 1) : i \in 1..(e - 1 + 1) /\ 1 + i - 1 = i
        BY <1>1, <2>3
    <2>6. f = SubSeq(told, 1, e)
        BY <2>1 DEF e
    <2> HIDE DEF f
    <2>7. QED BY <2>4, <2>5, <2>6
<1> HIDE DEF f
<1>3. /\ more \in Seq(BOOLEAN) /\ Len(more) = n
      /\ \A i \in 1..(n - 1) : more[i] = told[i]
      /\ more[n] = TRUE
    <2>1. TRUE \in BOOLEAN
        OBVIOUS
    <2>2. /\ more \in Seq(BOOLEAN) /\ Len(more) = Len(f) + 1
          /\ \A i \in 1..Len(f) : more[i] = f[i]
          /\ more[Len(f) + 1] = TRUE
        BY <1>2, <2>1, AppendProperties
    <2>3. Len(f) + 1 = n /\ Len(f) = n - 1
        BY <1>1, <1>2
    <2> HIDE DEF more
    <2>4. QED BY <1>2, <2>2, <2>3
<1> HIDE DEF more
<1>4. ASSUME NEW i \in Bits PROVE i \in new <=> i = 0 \/ i \in old
    <2>1. i \in Nat
        BY WidthIs
    <2>2. CASE i = 0
        <3>1. i < Len(more) /\ Len(more) - i = n
            BY <1>1, <1>3, <2>2
        <3>2. QED BY <1>3, <2>2, <3>1, Zenon DEF HeardAgain
    <2>3. CASE i > 0 /\ i < n
        <3>1. i < Len(more) /\ Len(more) - i = n - i /\ n - i \in 1..(n - 1)
            BY <1>1, <1>3, <2>1, <2>3
        <3>2. more[Len(more) - i] = told[n - i]
            BY <1>3, <3>1
        <3>3. i \in new <=> more[Len(more) - i]
            BY <3>1, Zenon DEF HeardAgain
        <3>4. i \in old <=> told[n - i]
            BY <2>3, Zenon DEF HeardAgain
        <3>5. i # 0
            BY <2>3
        <3>6. QED BY <3>2, <3>3, <3>4, <3>5, Zenon
    <2>4. CASE i > 0 /\ ~(i < n)
        <3>1. ~(i < Len(more)) /\ i # 0
            BY <1>3, <2>4
        <3>2. i \in new <=> s \in Testing
            BY <3>1, Zenon DEF HeardAgain
        <3>3. i \in old <=> s \in Testing
            BY <2>4, Zenon DEF HeardAgain
        <3>4. QED BY <3>1, <3>2, <3>3, Zenon
    <2>5. QED BY <1>1, <2>1, <2>2, <2>3, <2>4
<1>5. old \subseteq Bits /\ new \subseteq Bits
    BY DEF HeardAgain
<1> HIDE DEF old, new
<1>6. FirstSet(old) = new
    BY <1>4, <1>5, WidthIs DEF FirstSet
<1>7. QED BY <1>1, <1>3, <1>6 DEF old, new, more, f

LEMMA Appended ==
    ASSUME NEW S, NEW w \in Seq(S), NEW e
    PROVE  \A i \in DOMAIN Append(w, e) :
               (i \in DOMAIN w /\ Append(w, e)[i] = w[i]) \/ Append(w, e)[i] = e
<1>1. /\ DOMAIN w = 1..Len(w) /\ Len(w) \in Nat
      /\ DOMAIN Append(w, e) = 1..(Len(w) + 1)
      /\ \A i \in 1..Len(w) : Append(w, e)[i] = w[i]
      /\ Append(w, e)[Len(w) + 1] = e
    BY LenProperties
<1>2. \A i \in 1..(Len(w) + 1) : i \in 1..Len(w) \/ i = Len(w) + 1
    BY <1>1
<1>3. QED BY <1>1, <1>2

LEMMA SameSource ==
    ASSUME NEW s, NEW t \in Transmission
    PROVE  DigiPacket(s, t).src = t.src
BY DEF DigiPacket, Transmission

\* A station that hears one of its own packets has beaconed.
LEMMA OwnWasSent ==
    ASSUME CopiesInv, BarsInv, NEW i \in DOMAIN air
    PROVE  air[i].src \in Trackers /\ Len(echoed[air[i].src]) > 0
<1>1. air[i] \in Transmission
    BY OnAir
<1>2. QED BY <1>1 DEF Transmission, BarsInv

\* One station's bits and what it was told change together.
LEMMA QualityKeeps ==
    ASSUME BarsInv, CopiesInv, NEW s \in Trackers, NEW q, NEW told \in Seq(BOOLEAN), Len(told) > 0,
           q = HeardAgain(s, told), Quality(s, q),
           echoed' = [echoed EXCEPT ![s] = told]
    PROVE  /\ echoed' \in [Trackers -> Seq(BOOLEAN)]
           /\ digi_quality' \in [Trackers -> SUBSET Bits]
           /\ bars' \in [Trackers -> Int]
           /\ \A r \in Trackers :
                /\ digi_quality'[r] = HeardAgain(r, echoed'[r])
                /\ bars'[r] # -1 => bars'[r] = SigBars(digi_quality'[r])
                /\ Len(echoed[r]) > 0 => Len(echoed'[r]) > 0
           /\ Len(echoed'[s]) > 0
<1>1. /\ digi_quality' = [digi_quality EXCEPT ![s] = q]
      /\ bars' = [bars EXCEPT ![s] = SigBars(q)]
    BY DEF Quality
<1>2. q \in SUBSET Bits
    BY DEF HeardAgain
<1>3. SigBars(q) \in Int
    <2>1. IsFiniteSet(Bits)
        BY WidthIs, FS_Interval DEF Bits
    <2>2. Cardinality(q \ {0}) \in Nat
        <3>1. IsFiniteSet(q \ {0})
            BY <1>2, <2>1, FS_Subset
        <3>2. QED BY <3>1, FS_CardinalityType
    <2>3. QED BY <2>2 DEF SigBars
<1>4. \A r \in Trackers : r # s =>
          digi_quality'[r] = digi_quality[r] /\ bars'[r] = bars[r] /\ echoed'[r] = echoed[r]
    BY <1>1 DEF BarsInv
<1>5. digi_quality'[s] = q /\ bars'[s] = SigBars(q) /\ echoed'[s] = told
    BY <1>1 DEF BarsInv
<1>6. /\ echoed' \in [Trackers -> Seq(BOOLEAN)]
      /\ digi_quality' \in [Trackers -> SUBSET Bits]
      /\ bars' \in [Trackers -> Int]
    BY <1>1, <1>2, <1>3 DEF BarsInv
<1>7. ASSUME NEW r \in Trackers
      PROVE  /\ digi_quality'[r] = HeardAgain(r, echoed'[r])
             /\ bars'[r] # -1 => bars'[r] = SigBars(digi_quality'[r])
             /\ Len(echoed[r]) > 0 => Len(echoed'[r]) > 0
    <2>1. CASE r = s
        BY <1>5, <2>1
    <2>2. CASE r # s
        BY <1>4, <2>2 DEF BarsInv
    <2>3. QED BY <2>1, <2>2
<1>8. QED BY <1>5, <1>6, <1>7

LEMMA BarsInvariance == DigiSpec => []BarsInv
<1>1. DigiInit => BarsInv
    <2>1. SUFFICES ASSUME DigiInit PROVE BarsInv
        OBVIOUS
    <2> DEFINE e == <<>>
    <2>2. e \in Seq(BOOLEAN) /\ Len(e) = 0
        BY EmptySeq
    <2>3. air = <<>> /\ echoed = [s \in Trackers |-> e] /\ bars = [s \in Trackers |-> -1]
          /\ digi_quality = [s \in Trackers |-> IF s \in Testing THEN Bits ELSE {}]
        BY <2>1 DEF DigiInit
    <2> HIDE DEF e
    <2>4. \A s \in Trackers : HeardAgain(s, e) = IF s \in Testing THEN Bits ELSE {}
        <3>1. \A i \in Bits : ~(i < Len(e))
            BY <2>2, WidthIs
        <3>2. QED BY <3>1 DEF HeardAgain
    <2>5. \A s \in Trackers : digi_quality[s] = HeardAgain(s, echoed[s]) /\ bars[s] = -1
        BY <2>3, <2>4
    <2>6. /\ echoed \in [Trackers -> Seq(BOOLEAN)] /\ digi_quality \in [Trackers -> SUBSET Bits]
          /\ bars \in [Trackers -> Int]
        BY <2>2, <2>3
    <2>7. DOMAIN air = {}
        BY <2>3
    <2>8. QED BY <2>5, <2>6, <2>7 DEF BarsInv
<1>2. CopiesInv /\ CopiesInv' /\ BarsInv /\ [DigiNext]_digiVars => BarsInv'
    <2> SUFFICES ASSUME CopiesInv, CopiesInv', BarsInv, [DigiNext]_digiVars PROVE BarsInv'
        OBVIOUS
    <2>1. CASE UNCHANGED digiVars
        BY <2>1 DEF digiVars, BarsInv
    <2>2. ASSUME NEW s \in Trackers, NEW b \in Beacons, SendBeacon(s, b) PROVE BarsInv'
        <3> DEFINE told == Append(echoed[s], FALSE)
        <3>1. echoed[s] \in Seq(BOOLEAN) /\ digi_quality[s] = HeardAgain(s, echoed[s])
            BY DEF BarsInv
        <3>2. /\ told \in Seq(BOOLEAN) /\ Len(told) > 0
              /\ Shifted(digi_quality[s]) = HeardAgain(s, told)
            BY <3>1, ShiftedIsHeard
        <3> DEFINE t == [src |-> s, by |-> s, toks |-> Text(b), orig |-> Len(sentOut) + 1]
        <3>3. /\ Quality(s, Shifted(digi_quality[s]))
              /\ echoed' = [echoed EXCEPT ![s] = told]
              /\ air' = Append(air, t) /\ t.src = s
            BY <2>2 DEF SendBeacon
        <3> HIDE DEF told, t
        <3>4. /\ echoed' \in [Trackers -> Seq(BOOLEAN)] /\ digi_quality' \in [Trackers -> SUBSET Bits]
              /\ bars' \in [Trackers -> Int]
              /\ \A r \in Trackers :
                   /\ digi_quality'[r] = HeardAgain(r, echoed'[r])
                   /\ bars'[r] # -1 => bars'[r] = SigBars(digi_quality'[r])
                   /\ Len(echoed[r]) > 0 => Len(echoed'[r]) > 0
              /\ Len(echoed'[s]) > 0
            BY <3>2, <3>3, QualityKeeps
        <3>5. \A i \in DOMAIN air' : (i \in DOMAIN air /\ air'[i] = air[i]) \/ air'[i].src = s
            BY <3>3, Appended DEF CopiesInv
        <3>6. \A i \in DOMAIN air' : Len(echoed'[air'[i].src]) > 0
            BY <3>4, <3>5, OwnWasSent
        <3>7. QED BY <3>4, <3>6 DEF BarsInv
    <2>3. ASSUME NEW s \in Trackers, NEW i \in DOMAIN air, HearAir(s, i) PROVE BarsInv'
        <3>1. air[i].src \in Trackers /\ Len(echoed[air[i].src]) > 0
            BY OwnWasSent
        <3>2. \A j \in DOMAIN air' : \E k \in DOMAIN air : air'[j].src = air[k].src
            <4>1. CASE air' = air
                BY <4>1
            <4>2. CASE air' = Append(air, DigiPacket(s, air[i]))
                <5>1. DigiPacket(s, air[i]).src = air[i].src
                    BY SameSource, OnAir
                <5>2. \A j \in DOMAIN air' : (j \in DOMAIN air /\ air'[j] = air[j])
                                              \/ air'[j].src = air[i].src
                    BY <4>2, <5>1, Appended DEF CopiesInv
                <5>3. QED BY <5>2
            <4>3. QED BY <2>3, <4>1, <4>2 DEF HearAir
        <3>3. CASE UNCHANGED <<digi_quality, bars, echoed>>
            <4>1. \A j \in DOMAIN air' : Len(echoed'[air'[j].src]) > 0
                BY <3>2, <3>3, OwnWasSent
            <4>2. QED BY <3>3, <4>1 DEF BarsInv
        <3>4. CASE /\ air[i].src = s
                   /\ Quality(s, FirstSet(digi_quality[s]))
                   /\ echoed' = [echoed EXCEPT ![s] = Append(Front(@), TRUE)]
            <4> DEFINE told == Append(Front(echoed[s]), TRUE)
            <4>1. /\ echoed[s] \in Seq(BOOLEAN) /\ digi_quality[s] = HeardAgain(s, echoed[s])
                  /\ Len(echoed[s]) > 0
                BY <3>1, <3>4 DEF BarsInv
            <4>2. /\ told \in Seq(BOOLEAN) /\ Len(told) > 0
                  /\ FirstSet(digi_quality[s]) = HeardAgain(s, told)
                BY <4>1, FirstIsHeard
            <4>3. echoed' = [echoed EXCEPT ![s] = told]
                BY <3>4
            <4> HIDE DEF told
            <4>4. /\ echoed' \in [Trackers -> Seq(BOOLEAN)] /\ digi_quality' \in [Trackers -> SUBSET Bits]
                  /\ bars' \in [Trackers -> Int]
                  /\ \A r \in Trackers :
                       /\ digi_quality'[r] = HeardAgain(r, echoed'[r])
                       /\ bars'[r] # -1 => bars'[r] = SigBars(digi_quality'[r])
                       /\ Len(echoed[r]) > 0 => Len(echoed'[r]) > 0
                BY <3>4, <4>2, <4>3, QualityKeeps
            <4>5. \A j \in DOMAIN air' : Len(echoed'[air'[j].src]) > 0
                BY <3>2, <4>4, OwnWasSent
            <4>6. QED BY <4>4, <4>5 DEF BarsInv
        <3>5. QED BY <2>3, <3>3, <3>4 DEF HearAir
    <2>4. ASSUME NEW s \in Trackers, ShowBars(s) PROVE BarsInv'
        <3>1. /\ bars' = [bars EXCEPT ![s] = SigBars(digi_quality[s])]
              /\ UNCHANGED <<air, digi_quality, echoed>>
            BY <2>4 DEF ShowBars
        <3>2. SigBars(digi_quality[s]) \in Int
            <4>1. IsFiniteSet(Bits) /\ digi_quality[s] \in SUBSET Bits
                BY WidthIs, FS_Interval DEF Bits, BarsInv
            <4>2. IsFiniteSet(digi_quality[s] \ {0})
                BY <4>1, FS_Subset
            <4>3. QED BY <4>2, FS_CardinalityType DEF SigBars
        <3>3. \A r \in Trackers : bars'[r] = IF r = s THEN SigBars(digi_quality[s]) ELSE bars[r]
            BY <3>1 DEF BarsInv
        <3>4. bars' \in [Trackers -> Int]
            BY <3>1, <3>2 DEF BarsInv
        <3>5. QED BY <3>1, <3>3, <3>4 DEF BarsInv
    <2>5. QED BY <2>1, <2>2, <2>3, <2>4 DEF DigiNext
<1>3. QED BY <1>1, <1>2, CopiesInvariance, PTL DEF DigiSpec

\* With any number of bits the bars are half of one and the beacons that were
\* heard again of those before the last (update_mybeacon_status, beacon,
\* parse_incoming_packet).
THEOREM BarsAreOfHeard == DigiSpec => []BarsCountHeard
<1>1. BarsInv => BarsCountHeard
    <2>1. SUFFICES ASSUME BarsInv, NEW s \in Trackers, bars[s] # -1
                   PROVE  LET n == Len(echoed[s])
                              heard == {i \in 1..(Width - 1) :
                                          IF i < n THEN echoed[s][n - i] ELSE s \in Testing}
                          IN  bars[s] = (1 + Cardinality(heard)) \div 2
        BY DEF BarsCountHeard
    <2> DEFINE n == Len(echoed[s])
               heard == {i \in 1..(Width - 1) :
                           IF i < n THEN echoed[s][n - i] ELSE s \in Testing}
    <2>2. bars[s] = SigBars(digi_quality[s]) /\ digi_quality[s] = HeardAgain(s, echoed[s])
        BY <2>1 DEF BarsInv
    <2>3. \A i : i \in 1..(Width - 1) <=> i \in Bits /\ i # 0
        BY WidthIs DEF Bits
    <2>4. heard = HeardAgain(s, echoed[s]) \ {0}
        BY <2>3, Zenon DEF HeardAgain
    <2>5. QED BY <2>2, <2>4 DEF SigBars
<1>2. QED BY <1>1, BarsInvariance, PTL

-----------------------------------------------------------------------------
(* The decoding of a frame.                                                *)

\* An SSID byte: the number, and four flags.
Byte(n, a, b, c, d) == 2 * n + 128 * a + 64 * b + 32 * c + d

LEMMA HasBit ==
    ASSUME NEW n \in 0..15, NEW a \in 0..1, NEW b \in 0..1, NEW c \in 0..1, NEW d \in 0..1,
           NEW s, s = Byte(n, a, b, c, d)
    PROVE  /\ s \in Nat /\ (s \div 2) % 16 = n
           /\ Has(s, 128) <=> a = 1
           /\ Has(s, 64) <=> b = 1
           /\ Has(s, 32) <=> c = 1
           /\ Has(s, 1) <=> d = 1
<1> USE DEF Byte
<1>1. s \in Nat
    OBVIOUS
<1>2. s \div 128 = a
    <2>1. s = 128 * a + (2 * n + 64 * b + 32 * c + d) /\ 2 * n + 64 * b + 32 * c + d \in 0..127
        OBVIOUS
    <2>2. QED BY <2>1
<1>3. s \div 64 = 2 * a + b
    <2>1. s = 64 * (2 * a + b) + (2 * n + 32 * c + d) /\ 2 * n + 32 * c + d \in 0..63
        OBVIOUS
    <2>2. QED BY <2>1
<1>4. s \div 32 = 4 * a + 2 * b + c
    <2>1. s = 32 * (4 * a + 2 * b + c) + (2 * n + d) /\ 2 * n + d \in 0..31
        OBVIOUS
    <2>2. QED BY <2>1
<1>5. s \div 2 = n + 16 * (4 * a + 2 * b + c) /\ s \div 1 = s
    OBVIOUS
<1>6. (s \div 2) % 16 = n
    BY <1>5
<1>7. /\ (s \div 128) % 2 = a /\ (s \div 64) % 2 = b /\ (s \div 32) % 2 = c /\ (s \div 1) % 2 = d
    <2>1. s \div 1 = s /\ s = 2 * (n + 64 * a + 32 * b + 16 * c) + d
        BY <1>5
    <2>2. s % 2 = d
        BY <2>1
    <2>3. QED BY <1>2, <1>3, <1>4, <2>1, <2>2
<1>8. QED BY <1>1, <1>6, <1>7 DEF Has

Cell == [call : Calls, ssid : Nat]

\* What a cell says of the call and of each flag.
Tells(cell, call, flag, ext, dama, last) ==
    /\ cell \in Cell
    /\ Mem2ax25call(cell) = call
    /\ Has(cell.ssid, Bit8) <=> flag
    /\ Has(cell.ssid, SSSID_SPARE) <=> ~ext
    /\ Has(cell.ssid, ESSID_SPARE) <=> ~dama
    /\ Has(cell.ssid, HDLCAEB) <=> last

LEMMA CellSays ==
    ASSUME NEW call \in Address, NEW flag \in BOOLEAN, NEW ext \in BOOLEAN, NEW dama \in BOOLEAN,
           NEW last \in BOOLEAN
    PROVE  Tells(Ssid(call, flag, ext, dama, last), call, flag, ext, dama, last)
<1> DEFINE cell == Ssid(call, flag, ext, dama, last)
           n == call.ssid
           a == IF flag THEN 1 ELSE 0
           b == IF ext THEN 0 ELSE 1
           c == IF dama THEN 0 ELSE 1
           d == IF last THEN 1 ELSE 0
           s == cell.ssid
<1>1. n \in 0..15 /\ call.call \in Calls /\ call = [call |-> call.call, ssid |-> n]
    BY DEF Address
<1>2. a \in 0..1 /\ b \in 0..1 /\ c \in 0..1 /\ d \in 0..1
    OBVIOUS
<1>3. cell.call = call.call
    BY DEF Ssid
<1>4. s = Byte(n, a, b, c, d)
    <2>1. s = 2 * n + (IF flag THEN 128 ELSE 0) + (IF ext THEN 0 ELSE 64)
                + (IF dama THEN 0 ELSE 32) + (IF last THEN 1 ELSE 0)
        BY DEF Ssid, Bit8, SSSID_SPARE, ESSID_SPARE, HDLCAEB
    <2>2. /\ (IF flag THEN 128 ELSE 0) = 128 * a /\ (IF ext THEN 0 ELSE 64) = 64 * b
          /\ (IF dama THEN 0 ELSE 32) = 32 * c /\ (IF last THEN 1 ELSE 0) = d
        OBVIOUS
    <2> HIDE DEF s, a, b, c, d
    <2>3. QED BY <2>1, <2>2 DEF Byte
<1>5. (flag <=> a = 1) /\ (~ext <=> b = 1) /\ (~dama <=> c = 1) /\ (last <=> d = 1)
    OBVIOUS
<1>6. cell = [call |-> cell.call, ssid |-> s]
    BY DEF Ssid
<1> HIDE DEF s, a, b, c, d, n, cell
<1>7. /\ s \in Nat /\ (s \div 2) % 16 = n
      /\ Has(s, 128) <=> a = 1
      /\ Has(s, 64) <=> b = 1
      /\ Has(s, 32) <=> c = 1
      /\ Has(s, 1) <=> d = 1
    BY <1>1, <1>2, <1>4, HasBit
<1>8. Mem2ax25call(cell) = call
    BY <1>1, <1>3, <1>7 DEF Mem2ax25call, s
<1>9. cell \in Cell
    BY <1>1, <1>3, <1>6, <1>7 DEF Cell
<1>10. Tells(cell, call, flag, ext, dama, last)
    BY <1>5, <1>7, <1>8, <1>9 DEF Tells, Bit8, SSSID_SPARE, ESSID_SPARE, HDLCAEB, s
<1>11. QED BY <1>10 DEF cell

\* Control bytes, of their parts.
Numbers8(n, m, p) == 32 * m + 16 * p + 2 * n
Number128(n, p) == 2 * n + p
Supervisory8(code, m, p) == 32 * m + 16 * p + code
Unnumbered(code, p) == code + 16 * p

LEMMA NumbersOf8 ==
    ASSUME NEW n \in 0..7, NEW m \in 0..7, NEW p \in 0..1, NEW c, c = Numbers8(n, m, p)
    PROVE  /\ c \in Nat /\ c % 2 = 0
           /\ (c \div 2) % 8 = n /\ (c \div 32) % 8 = m
           /\ Has(c, 16) <=> p = 1
<1> USE DEF Numbers8
<1>1. c \in Nat /\ c % 2 = 0
    OBVIOUS
<1>2. c \div 2 = 8 * (2 * m + p) + n
    OBVIOUS
<1>3. (c \div 2) % 8 = n
    BY <1>2
<1>4. c \div 16 = 2 * m + p
    <2>1. c = 16 * (2 * m + p) + 2 * n /\ 2 * n \in 0..15
        OBVIOUS
    <2>2. QED BY <2>1
<1>5. c \div 32 = m
    <2>1. c = 32 * m + (16 * p + 2 * n) /\ 16 * p + 2 * n \in 0..31
        OBVIOUS
    <2>2. QED BY <2>1
<1>6. (c \div 32) % 8 = m
    BY <1>5
<1>7. (c \div 16) % 2 = p
    BY <1>4
<1>8. QED BY <1>1, <1>3, <1>6, <1>7 DEF Has

LEMMA NumberOf128 ==
    ASSUME NEW n \in 0..127, NEW p \in 0..1, NEW c, c = Number128(n, p)
    PROVE  c \in Nat /\ c % 2 = p /\ (c \div 2) % 128 = n /\ (Has(c, 1) <=> p = 1)
<1> USE DEF Number128
<1>1. c \in Nat /\ c \div 2 = n /\ c % 2 = p /\ c \div 1 = c
    OBVIOUS
<1>2. QED BY <1>1 DEF Has

LEMMA SupervisoryOf8 ==
    ASSUME NEW code \in {1, 5, 9, 13}, NEW m \in 0..7, NEW p \in 0..1,
           NEW c, c = Supervisory8(code, m, p)
    PROVE  /\ c \in Nat /\ c % 2 = 1 /\ ~Has(c, 2)
           /\ c % 16 = code /\ (c \div 32) % 8 = m
           /\ Has(c, 16) <=> p = 1
<1> USE DEF Supervisory8
<1>1. c \in Nat /\ c % 2 = 1
    OBVIOUS
<1>2. c = 16 * (2 * m + p) + code /\ code \in 0..15
    OBVIOUS
<1>3. c % 16 = code /\ c \div 16 = 2 * m + p
    BY <1>2
<1>4. c \div 32 = m
    <2>1. c = 32 * m + (16 * p + code) /\ 16 * p + code \in 0..31
        OBVIOUS
    <2>2. QED BY <2>1
<1>5. (c \div 32) % 8 = m /\ (c \div 16) % 2 = p
    BY <1>3, <1>4
<1>6. (c \div 2) % 2 = 0
    <2>1. c \div 2 = 2 * (8 * m + 4 * p + (code \div 4))
        OBVIOUS
    <2>2. QED BY <2>1
<1>7. QED BY <1>1, <1>3, <1>5, <1>6 DEF Has

LEMMA SupervisoryCode ==
    ASSUME NEW code \in {1, 5, 9, 13}
    PROVE  code % 2 = 1 /\ ~Has(code, 2)
BY DEF Has

LEMMA UnnumberedCode ==
    ASSUME NEW code \in Octets, code % 4 = 3, ~Has(code, 16), NEW p \in 0..1, NEW c,
           c = Unnumbered(code, p)
    PROVE  /\ c \in Nat /\ c % 2 = 1 /\ Has(c, 2) /\ (Has(c, 16) <=> p = 1)
           /\ c - (IF Has(c, 16) THEN 16 ELSE 0) = code
<1> USE DEF Unnumbered
<1>0. code \in 0..255
    BY DEF Octets
<1>1. (code \div 16) % 2 = 0
    BY <1>0 DEF Has
<1>2. c \div 16 = (code \div 16) + p
    BY <1>0
<1>3. (c \div 16) % 2 = p
    BY <1>0, <1>1, <1>2
<1>4. c \in Nat /\ c % 2 = 1 /\ (c \div 2) % 2 = 1
    BY <1>0
<1>5. Has(c, 16) <=> p = 1
    BY <1>3 DEF Has
<1>6. c - (IF Has(c, 16) THEN 16 ELSE 0) = code
    <2>1. CASE p = 1
        BY <1>0, <1>5, <2>1
    <2>2. CASE p = 0
        BY <1>0, <1>5, <2>2
    <2>3. QED BY <2>1, <2>2
<1>7. QED BY <1>4, <1>5, <1>6 DEF Has

-----------------------------------------------------------------------------
(* What the control field says.                                            *)

\* r is a record that ftype returns.
Says(r, type, ns, nr, pf, len) ==
    r = [type |-> type, ns |-> ns, nr |-> nr, pf |-> pf, len |-> len]

\* f's control field as ftype should find it, with b the bytes after the header.
RightControl(f, ct) ==
    /\ ct.type = (IF f.ctl.type = "I" THEN I ELSE f.ctl.code)
    /\ ct.ns = (IF f.ctl.type = "I" THEN f.ctl.ns ELSE -1)
    /\ ct.nr = (IF f.ctl.type = "U" THEN -1 ELSE f.ctl.nr)
    /\ ct.pf = f.pf

LEMMA SaysFields ==
    ASSUME NEW r, NEW type, NEW ns, NEW nr, NEW pf, NEW len, Says(r, type, ns, nr, pf, len)
    PROVE  r.type = type /\ r.ns = ns /\ r.nr = nr /\ r.pf = pf /\ r.len = len
BY Zenon DEF Says

LEMMA FtypeCases ==
    ASSUME NEW b, NEW ext \in BOOLEAN, NEW c, c = b[1]
    PROVE  /\ c % 2 = 0 /\ ext =>
                Says(Ftype(b, ext), I, (c \div 2) % 128, (b[2] \div 2) % 128, Has(b[2], 1), 2)
           /\ c % 2 = 0 /\ ~ext =>
                Says(Ftype(b, ext), I, (c \div 2) % 8, (c \div 32) % 8, Has(c, 16), 1)
           /\ c % 2 = 1 /\ Has(c, 2) =>
                Says(Ftype(b, ext), c - (IF Has(c, 16) THEN 16 ELSE 0), -1, -1, Has(c, 16), 1)
           /\ c % 2 = 1 /\ ~Has(c, 2) /\ ~ext =>
                Says(Ftype(b, ext), c % 16, -1, (c \div 32) % 8, Has(c, 16), 1)
           /\ c % 2 = 1 /\ ~Has(c, 2) /\ ext =>
                Says(Ftype(b, ext), c, -1, (b[2] \div 2) % 128, Has(b[2], 1), 2)
<1>1. ASSUME c % 2 = 0, ext
      PROVE  Says(Ftype(b, ext), I, (c \div 2) % 128, (b[2] \div 2) % 128, Has(b[2], 1), 2)
    BY <1>1 DEF Ftype, Says
<1>2. ASSUME c % 2 = 0, ~ext
      PROVE  Says(Ftype(b, ext), I, (c \div 2) % 8, (c \div 32) % 8, Has(c, 16), 1)
    BY <1>2 DEF Ftype, Says
<1>3. ASSUME c % 2 = 1, Has(c, 2)
      PROVE  Says(Ftype(b, ext), c - (IF Has(c, 16) THEN 16 ELSE 0), -1, -1, Has(c, 16), 1)
    <2>1. ~(c % 2 = 0)
        BY <1>3
    <2>2. QED BY <2>1, <1>3, Zenon DEF Ftype, Says
<1>4. ASSUME c % 2 = 1, ~Has(c, 2), ~ext
      PROVE  Says(Ftype(b, ext), c % 16, -1, (c \div 32) % 8, Has(c, 16), 1)
    <2>1. ~(c % 2 = 0)
        BY <1>4
    <2>2. QED BY <2>1, <1>4, Zenon DEF Ftype, Says
<1>5. ASSUME c % 2 = 1, ~Has(c, 2), ext
      PROVE  Says(Ftype(b, ext), c, -1, (b[2] \div 2) % 128, Has(b[2], 1), 2)
    BY <1>5 DEF Ftype, Says
<1>6. QED BY <1>1, <1>2, <1>3, <1>4, <1>5

LEMMA SameFlag ==
    ASSUME NEW q \in BOOLEAN, NEW p, p = (IF q THEN 1 ELSE 0), NEW c, NEW b, Has(c, b) <=> p = 1
    PROVE  Has(c, b) = q
<1>1. q <=> p = 1
    OBVIOUS
<1>2. Has(c, b) \in BOOLEAN
    BY Zenon DEF Has
<1>3. Has(c, b) <=> q
    BY <1>1
<1>4. QED BY Zenon, <1>2, <1>3

\* The bytes after the header: len of the control field, and the rest.
Follows(b, len, rest) ==
    /\ len \in 1..2 /\ Len(b) = len + Len(rest)
    /\ rest # <<>> => b[len + 1] = Head(rest)

Begins1(b, x, s) == b = <<x>> \o s
Begins2(b, x, y, s) == b = <<x, y>> \o s

LEMMA OctetsAreNat ==
    ASSUME NEW s \in Seq(Octets)
    PROVE  s \in Seq(Nat)
<1>1. \A i \in 1..Len(s) : s[i] \in Nat
    <2>1. \A i \in 1..Len(s) : s[i] \in Octets
        BY ElementOfSeq
    <2>2. Octets \subseteq Nat
        BY DEF Octets
    <2>3. QED BY <2>1, <2>2
<1>2. Len(s) \in Nat /\ s = [i \in 1..Len(s) |-> s[i]]
    BY LenProperties
<1>3. QED BY <1>1, <1>2

LEMMA OneAndRest ==
    ASSUME NEW x \in Nat, NEW s \in Seq(Nat), NEW b, Begins1(b, x, s)
    PROVE  b[1] = x /\ Follows(b, 1, s)
<1>1. <<x>> \in Seq(Nat) /\ Len(<<x>>) = 1 /\ <<x>>[1] = x
    OBVIOUS
<1>2. b[1] = x /\ Len(b) = 1 + Len(s)
    BY <1>1, ConcatProperties DEF Begins1
<1>3. s # <<>> => b[2] = Head(s)
    <2>1. SUFFICES ASSUME s # <<>> PROVE b[2] = Head(s)
        OBVIOUS
    <2>2. Len(s) \in Nat /\ Len(s) # 0 /\ Head(s) = s[1]
        BY <2>1, EmptySeq
    <2>3. QED BY <1>1, <2>2, ConcatProperties DEF Begins1
<1>4. QED BY <1>2, <1>3 DEF Follows

LEMMA TwoAndRest ==
    ASSUME NEW x \in Nat, NEW y \in Nat, NEW s \in Seq(Nat), NEW b, Begins2(b, x, y, s)
    PROVE  b[1] = x /\ b[2] = y /\ Follows(b, 2, s)
<1>1. <<x, y>> \in Seq(Nat) /\ Len(<<x, y>>) = 2 /\ <<x, y>>[1] = x /\ <<x, y>>[2] = y
    OBVIOUS
<1>2. b[1] = x /\ b[2] = y /\ Len(b) = 2 + Len(s)
    BY <1>1, ConcatProperties DEF Begins2
<1>3. s # <<>> => b[3] = Head(s)
    <2>1. SUFFICES ASSUME s # <<>> PROVE b[3] = Head(s)
        OBVIOUS
    <2>2. Len(s) \in Nat /\ Len(s) # 0 /\ Head(s) = s[1]
        BY <2>1, EmptySeq
    <2>3. QED BY <1>1, <2>2, ConcatProperties DEF Begins2
<1>4. QED BY <1>2, <1>3 DEF Follows

\* b is f's control field and the rest, and ct what ftype makes of them.
DecodesTo(f, b, ct) == b = Control(f) \o f.rest /\ ct = Ftype(b, f.extseq)

LEMMA FtypeSays ==
    ASSUME NEW f \in AxFrames, NEW b, NEW ct, DecodesTo(f, b, ct)
    PROVE  RightControl(f, ct) /\ Follows(b, ct.len, f.rest)
<1> DEFINE n == f.ctl.ns
           m == f.ctl.nr
           p == IF f.pf THEN 1 ELSE 0
           code == f.ctl.code
           c == b[1]
<1>0. /\ f \in AxFrame
      /\ ~f.extseq => n < 8 /\ m < 8
      /\ f.ctl.type = "S" => code \in {1, 5, 9, 13}
      /\ f.ctl.type = "U" => code % 4 = 3 /\ ~Has(code, 16)
    BY AxAssumption
<1>1. /\ n \in 0..127 /\ m \in 0..127 /\ code \in Octets /\ f.ctl.type \in {"I", "S", "U"}
      /\ f.extseq \in BOOLEAN /\ f.rest \in Seq(Octets)
    BY <1>0 DEF AxFrame
<1>2. f.pf \in BOOLEAN
    BY <1>0 DEF AxFrame
<1>3. p \in 0..1
    OBVIOUS
<1>5. \A x, y \in Nat :
        /\ Begins1(b, x, f.rest) => c = x /\ Follows(b, 1, f.rest)
        /\ Begins2(b, x, y, f.rest) => c = x /\ b[2] = y /\ Follows(b, 2, f.rest)
    BY <1>1, OctetsAreNat, OneAndRest, TwoAndRest
<1> HIDE DEF n, m, p, code
<1>6. CASE f.ctl.type = "I" /\ ~f.extseq
    <2> DEFINE x == Numbers8(n, m, p)
    <2>1. Begins1(b, x, f.rest)
        BY <1>6 DEF DecodesTo, Begins1, Begins2, Control, n, m, p, Numbers8, Number128
    <2>2. x \in Nat
        BY <1>1, <1>3 DEF Numbers8, Supervisory8, Unnumbered
    <2>3. c = x /\ Follows(b, 1, f.rest)
        BY <1>5, <2>1, <2>2
    <2>4. n \in 0..7 /\ m \in 0..7
        BY <1>0, <1>1, <1>6
    <2>5. c % 2 = 0 /\ (c \div 2) % 8 = n /\ (c \div 32) % 8 = m /\ (Has(c, 16) <=> p = 1)
        BY <1>3, <2>3, <2>4, NumbersOf8
    <2> HIDE DEF x
    <2>6. Says(ct, I, n, m, Has(c, 16), 1)
        BY <1>1, <1>6, <2>5, FtypeCases DEF DecodesTo, c
    <2>7. Has(c, 16) = f.pf
        BY <1>2, <2>5, SameFlag DEF p
    <2>8. ct.type = I /\ ct.ns = n /\ ct.nr = m /\ ct.pf = f.pf /\ ct.len = 1
        BY <2>6, <2>7, SaysFields
    <2>9. QED BY Zenon, <1>6, <2>3, <2>8 DEF RightControl, n, m
<1>7. CASE f.ctl.type = "I" /\ f.extseq
    <2> DEFINE x == Number128(n, 0)
               y == Number128(m, p)
    <2>0. x = 2 * n
        BY <1>1 DEF Number128
    <2>1. Begins2(b, x, y, f.rest)
        BY <2>0, <1>7 DEF DecodesTo, Begins1, Begins2, Control, n, m, p, Numbers8, Number128
    <2>2. x \in Nat /\ y \in Nat
        BY <1>1, <1>3 DEF Number128
    <2>3. c = x /\ b[2] = y /\ Follows(b, 2, f.rest)
        BY <1>5, <2>1, <2>2
    <2>4. n \in 0..127 /\ m \in 0..127
        BY <1>1
    <2> HIDE DEF c
    <2>5. c % 2 = 0 /\ (c \div 2) % 128 = n
        BY <2>3, <2>4, NumberOf128
    <2>6. (b[2] \div 2) % 128 = m /\ (Has(b[2], 1) <=> p = 1)
        BY <1>3, <2>3, <2>4, NumberOf128
    <2> HIDE DEF x, y
    <2>7. Says(ct, I, n, m, Has(b[2], 1), 2)
        BY <1>1, <1>7, <2>5, <2>6, FtypeCases DEF DecodesTo, c
    <2>8. Has(b[2], 1) = f.pf
        BY <1>2, <2>6, SameFlag DEF p
    <2>9. ct.type = I /\ ct.ns = n /\ ct.nr = m /\ ct.pf = f.pf /\ ct.len = 2
        BY <2>7, <2>8, SaysFields
    <2>10. QED BY Zenon, <1>7, <2>3, <2>9 DEF RightControl, n, m
<1>8. CASE f.ctl.type = "S" /\ ~f.extseq
    <2> DEFINE x == Supervisory8(code, m, p)
    <2>1. Begins1(b, x, f.rest)
        BY <1>8 DEF DecodesTo, Begins1, Begins2, Control, m, p, code, Supervisory8, Number128
    <2>2. code \in {1, 5, 9, 13} /\ m \in 0..7
        BY <1>0, <1>1, <1>8
    <2>3. x \in Nat
        BY <1>3, <2>2 DEF Numbers8, Supervisory8, Unnumbered
    <2>4. c = x /\ Follows(b, 1, f.rest)
        BY <1>5, <2>1, <2>3
    <2>5. /\ c % 2 = 1 /\ ~Has(c, 2) /\ c % 16 = code /\ (c \div 32) % 8 = m
          /\ Has(c, 16) <=> p = 1
        BY <1>3, <2>2, <2>4, SupervisoryOf8
    <2> HIDE DEF x
    <2>6. Says(ct, code, -1, m, Has(c, 16), 1)
        BY <1>1, <1>8, <2>5, FtypeCases DEF DecodesTo, c
    <2>7. Has(c, 16) = f.pf
        BY <1>2, <2>5, SameFlag DEF p
    <2>8. ct.type = code /\ ct.ns = -1 /\ ct.nr = m /\ ct.pf = f.pf /\ ct.len = 1
        BY <2>6, <2>7, SaysFields
    <2>9. QED BY Zenon, <1>8, <2>4, <2>8, "S" # "I", "S" # "U" DEF RightControl, m, code
<1>9. CASE f.ctl.type = "S" /\ f.extseq
    <2> DEFINE y == Number128(m, p)
    <2>1. Begins2(b, code, y, f.rest)
        BY <1>9 DEF DecodesTo, Begins1, Begins2, Control, m, p, code, Supervisory8, Number128
    <2>2. code \in {1, 5, 9, 13} /\ m \in 0..127
        BY <1>0, <1>1, <1>9
    <2>3. code \in Nat /\ y \in Nat
        BY <1>3, <2>2 DEF Number128
    <2>4. c = code /\ b[2] = y /\ Follows(b, 2, f.rest)
        BY <1>5, <2>1, <2>3
    <2>5. c % 2 = 1 /\ ~Has(c, 2)
        BY <2>2, <2>4, SupervisoryCode
    <2>6. (b[2] \div 2) % 128 = m /\ (Has(b[2], 1) <=> p = 1)
        BY <1>3, <2>2, <2>4, NumberOf128
    <2> HIDE DEF y
    <2>7. Says(ct, code, -1, m, Has(b[2], 1), 2)
        BY <1>1, <1>9, <2>4, <2>5, <2>6, FtypeCases DEF DecodesTo, c
    <2>8. Has(b[2], 1) = f.pf
        BY <1>2, <2>6, SameFlag DEF p
    <2>9. ct.type = code /\ ct.ns = -1 /\ ct.nr = m /\ ct.pf = f.pf /\ ct.len = 2
        BY <2>7, <2>8, SaysFields
    <2>10. QED BY Zenon, <1>9, <2>4, <2>9, "S" # "I", "S" # "U" DEF RightControl, m, code
<1>10. CASE f.ctl.type = "U"
    <2> DEFINE x == Unnumbered(code, p)
    <2>1. Begins1(b, x, f.rest)
        BY <1>10 DEF DecodesTo, Begins1, Begins2, Control, p, code, Unnumbered
    <2>2. code \in Octets /\ code \in Nat /\ code % 4 = 3 /\ ~Has(code, 16)
        <3>1. code \in Octets /\ code % 4 = 3 /\ ~Has(code, 16)
            BY <1>0, <1>1, <1>10 DEF code
        <3>2. code \in Nat
            BY <3>1 DEF Octets
        <3>3. QED BY <3>1, <3>2
    <2>3. x \in Nat
        BY <1>3, <2>2 DEF Numbers8, Supervisory8, Unnumbered
    <2>4. c = x /\ Follows(b, 1, f.rest)
        BY <1>5, <2>1, <2>3
    <2>5. /\ c % 2 = 1 /\ Has(c, 2) /\ (Has(c, 16) <=> p = 1)
          /\ c - (IF Has(c, 16) THEN 16 ELSE 0) = code
        BY <1>3, <2>2, <2>4, UnnumberedCode
    <2> HIDE DEF x
    <2>6. Says(ct, code, -1, -1, Has(c, 16), 1)
        BY <1>1, <2>5, FtypeCases DEF DecodesTo, c
    <2>7. Has(c, 16) = f.pf
        BY <1>2, <2>5, SameFlag DEF p
    <2>8. ct.type = code /\ ct.ns = -1 /\ ct.nr = -1 /\ ct.pf = f.pf /\ ct.len = 1
        BY <2>6, <2>7, SaysFields
    <2>9. QED BY Zenon, <1>10, <2>4, <2>8, "U" # "I" DEF RightControl, code
<1>11. QED BY <1>1, <1>6, <1>7, <1>8, <1>9, <1>10

-----------------------------------------------------------------------------
(* What the address field says.                                            *)

\* The cells of f.
CellsOf(f, cells) == cells = Cells(f)

\* The cell of f's i'th digipeater.
DigiCell(f, i) == Ssid(f.digis[i], i <= f.repeated, FALSE, FALSE, i = Len(f.digis))
DigiTells(f, i, cell) == Tells(cell, f.digis[i], i <= f.repeated, FALSE, FALSE, i = Len(f.digis))

LEMMA FrameParts ==
    ASSUME NEW f \in AxFrames
    PROVE  /\ f.tocall \in Address /\ f.fmcall \in Address /\ f.digis \in Seq(Address)
           /\ f.repeated \in 0..Len(f.digis) /\ Len(f.digis) \in Nat
           /\ \A i \in 1..Len(f.digis) : f.digis[i] \in Address
           /\ f.digis = [i \in 1..Len(f.digis) |-> f.digis[i]]
           /\ f.rest \in Seq(Octets)
           /\ f.cmdrsp \in {"command", "response", "unknown"}
           /\ f.flexnet \in BOOLEAN /\ f.cut \in BOOLEAN
           /\ f.extseq \in BOOLEAN /\ f.dama \in BOOLEAN
<1>1. f \in AxFrame /\ f.repeated <= Len(f.digis)
    BY AxAssumption
<1>2. /\ f.tocall \in Address /\ f.fmcall \in Address /\ f.digis \in Seq(Address) /\ f.repeated \in Nat
      /\ f.rest \in Seq(Octets) /\ f.cmdrsp \in {"command", "response", "unknown"}
    BY <1>1 DEF AxFrame
<1>3. f.flexnet \in BOOLEAN /\ f.cut \in BOOLEAN /\ f.extseq \in BOOLEAN /\ f.dama \in BOOLEAN
    BY <1>1 DEF AxFrame
<1>4. Len(f.digis) \in Nat /\ f.digis = [i \in 1..Len(f.digis) |-> f.digis[i]]
    BY <1>2, LenProperties
<1>5. \A i \in 1..Len(f.digis) : f.digis[i] \in Address
    BY <1>2, ElementOfSeq
<1>6. QED BY <1>1, <1>2, <1>3, <1>4, <1>5

LEMMA CellsAre ==
    ASSUME NEW f \in AxFrames, NEW cells, CellsOf(f, cells)
    PROVE  /\ cells \in Seq(Cell) /\ Len(cells) = Len(f.digis) + 2
           /\ Tells(cells[1], f.tocall, f.cmdrsp = "command", FALSE, FALSE, FALSE)
           /\ Tells(cells[2], f.fmcall, f.cmdrsp = "response", f.extseq, f.dama, Len(f.digis) = 0)
           /\ \A i \in 1..Len(f.digis) : DigiTells(f, i, cells[i + 2])
<1> DEFINE n == Len(f.digis)
           to == Ssid(f.tocall, f.cmdrsp = "command", FALSE, FALSE, FALSE)
           fm == Ssid(f.fmcall, f.cmdrsp = "response", f.extseq, f.dama, n = 0)
           via == [i \in 1..n |-> DigiCell(f, i)]
<1>1. cells = <<to, fm>> \o via
    BY DEF CellsOf, Cells, DigiCell
<1>2. n \in Nat
    BY FrameParts
<1>3. /\ Tells(to, f.tocall, f.cmdrsp = "command", FALSE, FALSE, FALSE)
      /\ Tells(fm, f.fmcall, f.cmdrsp = "response", f.extseq, f.dama, n = 0)
    <2>1. /\ f.tocall \in Address /\ f.fmcall \in Address
          /\ f.extseq \in BOOLEAN /\ f.dama \in BOOLEAN
        BY FrameParts
    <2>2. /\ (f.cmdrsp = "command") \in BOOLEAN /\ (f.cmdrsp = "response") \in BOOLEAN
          /\ (n = 0) \in BOOLEAN /\ FALSE \in BOOLEAN
        BY Zenon
    <2>3. QED BY Zenon, <2>1, <2>2, CellSays
<1>4. \A i \in 1..n : DigiTells(f, i, DigiCell(f, i))
    <2>1. SUFFICES ASSUME NEW i \in 1..n
                   PROVE  Tells(DigiCell(f, i), f.digis[i], i <= f.repeated, FALSE, FALSE, i = n)
        BY DEF DigiTells
    <2>2. f.digis[i] \in Address
        BY FrameParts
    <2>3. (i <= f.repeated) \in BOOLEAN /\ (i = n) \in BOOLEAN /\ FALSE \in BOOLEAN
        BY FrameParts
    <2>4. QED BY Zenon, <2>2, <2>3, CellSays DEF DigiCell
<1> HIDE DEF to, fm, n
<1>31. to \in Cell /\ fm \in Cell /\ \A i \in 1..n : DigiCell(f, i) \in Cell
    BY <1>3, <1>4 DEF Tells, DigiTells
<1>5. via \in Seq(Cell) /\ Len(via) = n /\ \A i \in 1..n : via[i] = DigiCell(f, i)
    BY <1>2, <1>31
<1>6. <<to, fm>> \in Seq(Cell) /\ Len(<<to, fm>>) = 2 /\ <<to, fm>>[1] = to /\ <<to, fm>>[2] = fm
    BY <1>31
<1> HIDE DEF via
<1>7. /\ cells \in Seq(Cell) /\ Len(cells) = 2 + n
      /\ \A i \in 1..2 + n : cells[i] = IF i <= 2 THEN <<to, fm>>[i] ELSE via[i - 2]
    BY <1>1, <1>5, <1>6, ConcatProperties
<1>8. cells[1] = to /\ cells[2] = fm
    BY <1>2, <1>6, <1>7
<1>9. ASSUME NEW i \in 1..n
      PROVE  DigiTells(f, i, cells[i + 2])
    <2>1. i + 2 \in 1..2 + n /\ ~(i + 2 <= 2) /\ (i + 2) - 2 = i
        BY <1>2
    <2>2. cells[i + 2] = DigiCell(f, i)
        BY <1>5, <1>7, <2>1
    <2>3. QED BY <1>4, <2>2
<1>10. Len(cells) = n + 2
    BY <1>2, <1>7
<1>11. QED BY <1>3, <1>7, <1>8, <1>9, <1>10 DEF n

\* The extension bit is the last cell's, so the digipeaters are all found.
LEMMA DigisAre ==
    ASSUME NEW f \in AxFrames, NEW cells, CellsOf(f, cells)
    PROVE  /\ DOMAIN Digis(cells) = 1..Len(f.digis)
           /\ \A i \in 1..Len(f.digis) : DigiTells(f, i, Digis(cells)[i])
<1> DEFINE n == Len(f.digis)
           Ends(i) == Has(cells[i].ssid, HDLCAEB)
           ends == {i \in 2..Len(cells) : Ends(i)}
<1>1. n \in Nat
    BY FrameParts
<1>2. /\ cells \in Seq(Cell) /\ Len(cells) = n + 2
      /\ Tells(cells[2], f.fmcall, f.cmdrsp = "response", f.extseq, f.dama, n = 0)
      /\ \A i \in 1..n : DigiTells(f, i, cells[i + 2])
    BY CellsAre
<1>3. Ends(2) <=> n = 0
    BY <1>2 DEF Tells
<1>4. ASSUME NEW i \in 1..n
      PROVE  Ends(i + 2) <=> i = n
    BY <1>2 DEF DigiTells, Tells
<1> HIDE DEF n, Ends
<1>5. \A i \in 2..n + 2 : Ends(i) <=> i = n + 2
    <2>1. SUFFICES ASSUME NEW i \in 2..n + 2 PROVE Ends(i) <=> i = n + 2
        OBVIOUS
    <2>2. CASE i = 2
        BY <1>1, <1>3, <2>2
    <2>3. CASE i # 2
        <3>1. i - 2 \in 1..n /\ (i - 2) + 2 = i
            BY <1>1, <2>3
        <3>2. Ends(i) <=> i - 2 = n
            BY <1>4, <3>1
        <3>3. QED BY <1>1, <3>2
    <2>4. QED BY <2>2, <2>3
<1>6. ends = {n + 2}
    BY <1>1, <1>2, <1>5
<1>7. Min(ends) = n + 2
    BY <1>1, <1>6 DEF Min
<1>8. Digis(cells) = SubSeq(cells, 3, n + 2)
    BY <1>6, <1>7 DEF Digis, Ends
<1>9. SubSeq(cells, 3, n + 2) = [i \in 1..n |-> cells[i + 2]]
    BY <1>1, <1>2
<1>10. QED BY <1>2, <1>8, <1>9 DEF n

\* How far the frame has come.
LEMMA RepeatedIs ==
    ASSUME NEW f \in AxFrames, NEW cells, CellsOf(f, cells)
    PROVE  Header(cells).ndigirepeated = f.repeated - 1
<1> DEFINE n == Len(f.digis)
           digis == Digis(cells)
           Repeats(i) == Has(digis[i].ssid, Bit8)
           repeated == {i \in DOMAIN digis : Repeats(i)}
<1>1. n \in Nat /\ f.repeated \in 0..n
    BY FrameParts
<1>2. DOMAIN digis = 1..n
    BY DigisAre
<1>3. ASSUME NEW i \in 1..n
      PROVE  Repeats(i) <=> i <= f.repeated
    <2>1. DigiTells(f, i, digis[i])
        BY DigisAre
    <2>2. QED BY <2>1 DEF DigiTells, Tells
<1>4. Header(cells).ndigirepeated = IF repeated = {} THEN -1 ELSE Max(repeated) - 1
    BY DEF Header
<1> HIDE DEF n, digis, Repeats
<1>5. repeated = 1..f.repeated
    BY <1>1, <1>2, <1>3
<1> HIDE DEF repeated
<1>6. CASE f.repeated = 0
    BY <1>4, <1>5, <1>6
<1>7. CASE f.repeated # 0
    <2>1. f.repeated \in repeated /\ \A i \in repeated : i <= f.repeated
        BY <1>1, <1>5, <1>7
    <2>2. repeated \subseteq Int
        BY <1>5
    <2>3. \E m \in repeated : \A i \in repeated : m >= i
        BY <1>1, <2>1, <2>2
    <2>4. Max(repeated) \in repeated /\ \A i \in repeated : Max(repeated) >= i
        BY <2>3 DEF Max
    <2>5. Max(repeated) = f.repeated
        <3> DEFINE m == Max(repeated)
        <3>1. m >= f.repeated /\ m <= f.repeated /\ m \in Int /\ f.repeated \in Int
            BY <1>1, <2>1, <2>2, <2>4
        <3> HIDE DEF m
        <3>2. m = f.repeated
            BY <3>1
        <3>3. QED BY <3>2 DEF m
    <2>6. QED BY <1>4, <2>1, <2>5
<1>8. QED BY <1>6, <1>7

LEMMA HeaderSays ==
    ASSUME NEW f \in AxFrames, NEW cells, CellsOf(f, cells)
    PROVE  LET h == Header(cells)
           IN  /\ h.tocall = f.tocall /\ h.fmcall = f.fmcall /\ h.digi = f.digis
               /\ h.cmdrsp = f.cmdrsp /\ h.fExtseq = f.extseq /\ h.fDama = f.dama
<1> DEFINE h == Header(cells)
           to == cells[1]
           fm == cells[2]
<1>1. /\ Tells(to, f.tocall, f.cmdrsp = "command", FALSE, FALSE, FALSE)
      /\ Tells(fm, f.fmcall, f.cmdrsp = "response", f.extseq, f.dama, Len(f.digis) = 0)
    BY CellsAre
<1>2. /\ Mem2ax25call(to) = f.tocall
      /\ Has(to.ssid, Bit8) <=> f.cmdrsp = "command"
    BY <1>1 DEF Tells
<1>3. /\ Mem2ax25call(fm) = f.fmcall
      /\ Has(fm.ssid, Bit8) <=> f.cmdrsp = "response"
      /\ Has(fm.ssid, SSSID_SPARE) <=> ~f.extseq
      /\ Has(fm.ssid, ESSID_SPARE) <=> ~f.dama
    BY <1>1 DEF Tells
<1>4. h.tocall = f.tocall /\ h.fmcall = f.fmcall
    BY <1>2, <1>3 DEF Header
<1>5. h.fExtseq = f.extseq
    <2>1. h.fExtseq = ~Has(fm.ssid, SSSID_SPARE)
        BY DEF Header
    <2>2. f.extseq \in BOOLEAN
        BY FrameParts
    <2>3. QED BY <1>3, <2>1, <2>2
<1>6. h.fDama = f.dama
    <2>1. h.fDama = ~Has(fm.ssid, ESSID_SPARE)
        BY DEF Header
    <2>2. f.dama \in BOOLEAN
        BY FrameParts
    <2>3. QED BY <1>3, <2>1, <2>2
<1>7. h.cmdrsp = f.cmdrsp
    <2>1. h.cmdrsp = CASE Has(to.ssid, Bit8) /\ ~Has(fm.ssid, Bit8) -> "command"
                       [] Has(fm.ssid, Bit8) /\ ~Has(to.ssid, Bit8) -> "response"
                       [] OTHER -> "unknown"
        BY DEF Header
    <2>2. f.cmdrsp \in {"command", "response", "unknown"}
        BY FrameParts
    <2>3. QED BY <1>2, <1>3, <2>1, <2>2
<1>8. h.digi = f.digis
    <2>1. h.digi = [i \in DOMAIN Digis(cells) |-> Mem2ax25call(Digis(cells)[i])]
        BY DEF Header
    <2>2. ASSUME NEW i \in 1..Len(f.digis)
          PROVE  Mem2ax25call(Digis(cells)[i]) = f.digis[i]
        <3>1. DigiTells(f, i, Digis(cells)[i])
            BY DigisAre
        <3>2. QED BY <3>1 DEF DigiTells, Tells
    <2>3. DOMAIN Digis(cells) = 1..Len(f.digis)
        BY DigisAre
    <2>4. QED BY <2>1, <2>2, <2>3, FrameParts
<1>9. QED BY <1>4, <1>5, <1>6, <1>7, <1>8

-----------------------------------------------------------------------------
(* The decoding undoes the encoding.                                       *)

\* What is in packet is what the decoder makes of the frame.
DecodedIs == frame # <<>> => frame \in AxFrames /\ packet = Decoded(Encoded(frame))

LEMMA DecodedInvariance == AxSpec => []DecodedIs
<1>1. AxInit => DecodedIs
    BY DEF AxInit, DecodedIs
<1>2. DecodedIs /\ [AxNext]_axVars => DecodedIs'
    <2>1. ASSUME DecodedIs, NEW f \in AxFrames, DecodeNext(f) PROVE DecodedIs'
        BY <2>1 DEF DecodedIs, DecodeNext
    <2>2. ASSUME DecodedIs, UNCHANGED axVars PROVE DecodedIs'
        BY <2>2 DEF DecodedIs, axVars
    <2>3. QED BY <2>1, <2>2 DEF AxNext
<1>3. QED BY <1>1, <1>2, PTL DEF AxSpec

\* What ax25_decode makes of a header h, bytes b, and a control field ct.
Complete(p, h, b, ct) ==
    LET left == Len(b) - ct.len
        withPid == ct.type \in {I, UI} /\ left > 0
    IN  /\ p.valid = TRUE /\ p.header = h /\ p.control = ct
        /\ p.pid = IF withPid THEN b[ct.len + 1] ELSE -1
        /\ p.datalength = IF withPid THEN left - 1 ELSE left

LEMMA CompleteIs ==
    ASSUME NEW e, ~e.flexnet, ~(7 * Len(e.cells) + Len(e.bytes) < 15), e.bytes # <<>>
    PROVE  Complete(Decoded(e), Header(e.cells), e.bytes, Ftype(e.bytes, Header(e.cells).fExtseq))
<1> DEFINE h == Header(e.cells)
           ct == Ftype(e.bytes, h.fExtseq)
           left == Len(e.bytes) - ct.len
           withPid == ct.type \in {I, UI} /\ left > 0
<1>1. Decoded(e) = [valid |-> TRUE, header |-> h, control |-> ct,
                    pid |-> IF withPid THEN e.bytes[ct.len + 1] ELSE -1,
                    datalength |-> IF withPid THEN left - 1 ELSE left]
    BY DEF Decoded
<1> HIDE DEF h, ct
<1>2. QED BY <1>1 DEF Complete, h, ct

\* A frame that is not cut has a control field, and is as long as a header.
LEMMA LongEnough ==
    ASSUME NEW f \in AxFrames, ~f.flexnet, ~f.cut, NEW b, NEW ct, DecodesTo(f, b, ct)
    PROVE  Complete(Decoded(Encoded(f)), Header(Cells(f)), b, ct)
<1> DEFINE e == Encoded(f)
<1>1. e.flexnet = f.flexnet /\ e.cells = Cells(f) /\ e.bytes = b
    BY DEF Encoded, DecodesTo
<1> HIDE DEF e
<1>2. CellsOf(f, Cells(f))
    BY DEF CellsOf
<1>3. Len(e.cells) \in Nat /\ Len(e.cells) >= 2
    <2>1. Len(e.cells) = Len(f.digis) + 2
        BY <1>1, <1>2, CellsAre
    <2>2. Len(f.digis) \in Nat
        BY FrameParts
    <2>3. QED BY <2>1, <2>2
<1>4. Len(e.bytes) \in Nat /\ Len(e.bytes) >= 1
    <2>1. Follows(b, ct.len, f.rest)
        BY FtypeSays
    <2>2. Len(f.rest) \in Nat
        BY FrameParts, LenProperties
    <2>3. QED BY <1>1, <2>1, <2>2 DEF Follows
<1>5. e.bytes # <<>>
    BY <1>4
<1>6. ~(7 * Len(e.cells) + Len(e.bytes) < 15)
    <2>1. \A k, l \in Nat : k >= 2 /\ l >= 1 => ~(7 * k + l < 15)
        OBVIOUS
    <2>2. QED BY Zenon, <1>3, <1>4, <2>1
<1>7. ~e.flexnet
    BY <1>1
<1>8. Header(Cells(f)).fExtseq = f.extseq
    BY <1>2, HeaderSays
<1>9. Complete(Decoded(e), Header(e.cells), e.bytes, Ftype(e.bytes, Header(e.cells).fExtseq))
    BY Zenon, <1>5, <1>6, <1>7, CompleteIs
<1>10. Ftype(e.bytes, Header(e.cells).fExtseq) = ct
    BY <1>1, <1>8 DEF DecodesTo
<1>11. Complete(Decoded(e), Header(Cells(f)), b, ct)
    BY Zenon, <1>1, <1>9, <1>10
<1>12. QED BY <1>11 DEF e

\* For any calls and numbers, up to any digipeater and with any rest, ax25_decode
\* finds in a frame what its sender put there (ax25dump.c:165-319, 533-625).
THEOREM DecodeUndoesEncoding == AxSpec => []DecodeInverts
<1>1. DecodedIs => DecodeInverts
    <2>1. SUFFICES ASSUME DecodedIs, frame # <<>>, ~frame.flexnet, ~frame.cut
                   PROVE  DecodeInverts
        BY DEF DecodeInverts
    <2> DEFINE f == frame
               c == f.ctl
               b == Control(f) \o f.rest
               h == Header(Cells(f))
               ct == Ftype(b, f.extseq)
               left == Len(b) - ct.len
               withPid == ct.type \in {I, UI} /\ left > 0
    <2>2. f \in AxFrames /\ packet = Decoded(Encoded(f))
        BY <2>1 DEF DecodedIs
    <2>3. CellsOf(f, Cells(f)) /\ DecodesTo(f, b, ct)
        BY DEF CellsOf, DecodesTo
    <2>4. /\ h.tocall = f.tocall /\ h.fmcall = f.fmcall /\ h.digi = f.digis
          /\ h.cmdrsp = f.cmdrsp /\ h.fExtseq = f.extseq /\ h.fDama = f.dama
          /\ h.ndigirepeated = f.repeated - 1
        BY <2>2, <2>3, HeaderSays, RepeatedIs
    <2>5. /\ packet.valid /\ packet.header = h /\ packet.control = ct
          /\ packet.pid = IF withPid THEN b[ct.len + 1] ELSE -1
          /\ packet.datalength = IF withPid THEN left - 1 ELSE left
        BY <2>1, <2>2, <2>3, LongEnough DEF Complete
    <2>6. RightControl(f, ct) /\ Follows(b, ct.len, f.rest)
        BY <2>2, <2>3, FtypeSays
    <2>7. Len(f.rest) \in Nat /\ left = Len(f.rest) /\ (left > 0 <=> f.rest # <<>>)
        <3>1. f.rest \in Seq(Octets)
            BY <2>2, FrameParts
        <3>2. Len(f.rest) \in Nat /\ (Len(f.rest) = 0 <=> f.rest = <<>>)
            BY <3>1, EmptySeq, LenProperties
        <3>3. QED BY <2>6, <3>2 DEF Follows
    <2>8. ct.type \in {I, UI} <=> c.type = "I" \/ (c.type = "U" /\ c.code = UI)
        <3>1. /\ c.type \in {"I", "S", "U"} /\ c.code \in Octets
              /\ c.type = "S" => c.code \in {1, 5, 9, 13}
              /\ c.type = "U" => c.code % 4 = 3
            BY <2>2, AxAssumption DEF AxFrame
        <3>2. c.type # "I" => ct.type = c.code
            BY <2>6 DEF RightControl
        <3>3. c.type = "I" => ct.type = I
            BY <2>6 DEF RightControl
        <3>4. CASE c.type = "I"
            BY <3>3, <3>4
        <3>5. CASE c.type = "S"
            BY <3>1, <3>2, <3>5 DEF I, UI
        <3>6. CASE c.type = "U"
            BY <3>1, <3>2, <3>6 DEF I, UI
        <3>7. QED BY <3>1, <3>4, <3>5, <3>6
    <2> DEFINE hasPid == (c.type = "I" \/ (c.type = "U" /\ c.code = UI)) /\ f.rest # <<>>
    <2>9. withPid <=> hasPid
        BY <2>7, <2>8
    <2>10. withPid => b[ct.len + 1] = Head(f.rest) /\ Head(f.rest) \in Octets
        <3>1. f.rest \in Seq(Octets)
            BY <2>2, FrameParts
        <3>2. f.rest # <<>> => Head(f.rest) \in Octets
            BY <3>1
        <3>3. QED BY <2>6, <2>7, <3>2 DEF Follows
    <2>11. packet.pid = IF hasPid THEN Head(f.rest) ELSE -1
        BY <2>5, <2>9, <2>10
    <2>12. packet.datalength = Len(f.rest) - (IF packet.pid = -1 THEN 0 ELSE 1)
        <3>1. CASE withPid
            <4>1. packet.pid = Head(f.rest) /\ Head(f.rest) \in 0..255
                BY <2>5, <2>10, <3>1 DEF Octets
            <4>2. packet.pid # -1
                BY <4>1
            <4>3. packet.datalength = left - 1
                BY <2>5, <3>1
            <4>4. QED BY <2>7, <4>2, <4>3
        <3>2. CASE ~withPid
            <4>1. packet.pid = -1 /\ packet.datalength = left
                BY <2>5, <3>2
            <4>2. QED BY <2>7, <4>1
        <3>3. QED BY <3>1, <3>2
    <2>13. QED
        BY <2>4, <2>5, <2>6, <2>11, <2>12 DEF DecodeInverts, RightControl
<1>2. QED BY <1>1, DecodedInvariance, PTL

-----------------------------------------------------------------------------
(* The types of what goes over the air.                                    *)

\* No more bars than there are bits to count, by twos.
LEMMA BarsAreFew ==
    ASSUME NEW q \in SUBSET Bits
    PROVE  SigBars(q) \in 0..(Width \div 2)
<1> DEFINE rest == q \ {0}
<1>1. Width \in Nat \ {0}
    BY DigiAssumption
<1>2. IsFiniteSet(1..(Width - 1)) /\ Cardinality(1..(Width - 1)) = Width - 1
    BY <1>1, FS_Interval
<1>3. rest \subseteq 1..(Width - 1)
    BY <1>1 DEF Bits
<1> HIDE DEF rest
<1>4. IsFiniteSet(rest) /\ Cardinality(rest) <= Width - 1
    BY <1>2, <1>3, FS_Subset
<1>5. Cardinality(rest) \in Nat
    BY <1>4, FS_CardinalityType
<1> DEFINE k == Cardinality(rest)
<1> HIDE DEF k
<1>6. (1 + k) \div 2 \in 0..(Width \div 2)
    <2>1. k \in Nat /\ k <= Width - 1
        BY <1>4, <1>5 DEF k
    <2>2. QED BY <1>1, <2>1
<1>7. SigBars(q) = (1 + k) \div 2
    BY DEF SigBars, k, rest
<1>8. QED BY <1>6, <1>7

LEMMA CaughtInvariance == DigiSpec => [](caught \in [Trackers -> SUBSET DOMAIN air])
<1> DEFINE Caught == caught \in [Trackers -> SUBSET DOMAIN air]
<1>1. DigiInit => Caught
    BY DEF DigiInit
<1>2. CopiesInv /\ Caught /\ [DigiNext]_digiVars => Caught'
    <2> SUFFICES ASSUME CopiesInv, Caught, [DigiNext]_digiVars PROVE Caught'
        OBVIOUS
    <2>1. \A t : DOMAIN air \subseteq DOMAIN Append(air, t)
        <3>1. air \in Seq(Transmission) /\ DOMAIN air = 1..Len(air) /\ Len(air) \in Nat
            BY LenProperties DEF CopiesInv
        <3>2. QED BY <3>1
    <2>2. ASSUME NEW s \in Trackers, ShowBars(s) PROVE Caught'
        BY <2>2 DEF ShowBars
    <2>3. ASSUME NEW s \in Trackers, NEW b \in Beacons, SendBeacon(s, b) PROVE Caught'
        <3>1. caught' = caught /\ DOMAIN air \subseteq DOMAIN air'
            BY <2>1, <2>3 DEF SendBeacon
        <3>2. QED BY <3>1
    <2>4. ASSUME NEW s \in Trackers, NEW i \in DOMAIN air, HearAir(s, i) PROVE Caught'
        <3>1. caught' = [caught EXCEPT ![s] = @ \cup {i}] /\ DOMAIN air \subseteq DOMAIN air'
            BY <2>1, <2>4 DEF HearAir
        <3>2. QED BY <2>4, <3>1
    <2>5. CASE UNCHANGED digiVars
        BY <2>5 DEF digiVars
    <2>6. QED BY <2>2, <2>3, <2>4, <2>5 DEF DigiNext
<1>3. QED BY <1>1, <1>2, CopiesInvariance, PTL DEF DigiSpec

LEMMA DigiTypes == DigiSpec => []DigiTypeOK
<1>1. CopiesInv /\ BarsInv /\ caught \in [Trackers -> SUBSET DOMAIN air] => DigiTypeOK
    <2>1. SUFFICES ASSUME CopiesInv, BarsInv, caught \in [Trackers -> SUBSET DOMAIN air]
                   PROVE  DigiTypeOK
        OBVIOUS
    <2>2. \A i \in DOMAIN air :
            /\ air[i].src \in Trackers /\ air[i].by \in Trackers
            /\ air[i].orig \in DOMAIN sentOut
        <3>1. air \in Seq(Transmission) /\ DOMAIN air = 1..Len(air)
            BY <2>1, LenProperties DEF CopiesInv
        <3>2. \A i \in DOMAIN air : air[i] \in Transmission
            BY <3>1, ElementOfSeq
        <3>3. DOMAIN sentOut = 1..Len(sentOut)
            BY <2>1, LenProperties DEF CopiesInv
        <3>4. QED BY <2>1, <3>2, <3>3 DEF CopiesInv, Transmission
    <2>3. bars \in [Trackers -> -1..(Width \div 2)]
        <3>1. \A s \in Trackers : bars[s] \in -1..(Width \div 2)
            <4>1. SUFFICES ASSUME NEW s \in Trackers PROVE bars[s] \in -1..(Width \div 2)
                OBVIOUS
            <4>2. SigBars(digi_quality[s]) \in 0..(Width \div 2)
                BY <2>1, BarsAreFew DEF BarsInv
            <4>3. bars[s] = -1 \/ bars[s] = SigBars(digi_quality[s])
                BY <2>1 DEF BarsInv
            <4>4. Width \div 2 \in Nat
                BY DigiAssumption
            <4>5. QED BY <4>2, <4>3, <4>4
        <3>2. bars \in [Trackers -> Int]
            BY <2>1 DEF BarsInv
        <3>3. QED BY <3>1, <3>2
    <2>4. QED BY <2>1, <2>2, <2>3 DEF DigiTypeOK, CopiesInv, BarsInv
<1>2. QED BY <1>1, CopiesInvariance, BarsInvariance, CaughtInvariance, PTL

\* A frame that is not decoded, has no control field, or has one.
LEMMA AxTypes == AxSpec => []AxTypeOK
<1>1. ASSUME NEW f \in AxFrames
      PROVE  LET p == Decoded(Encoded(f))
             IN  p.valid \in BOOLEAN /\ p.pid \in -1..255 /\ p.datalength \in Nat
    <2> DEFINE b == Control(f) \o f.rest
               ct == Ftype(b, f.extseq)
               p == Decoded(Encoded(f))
    <2>1. CASE f.flexnet
        <3>1. p = Cleared
            BY <2>1 DEF Decoded, Encoded
        <3> HIDE DEF p
        <3>2. QED BY <3>1 DEF Cleared, p
    <2>2. CASE f.cut /\ ~f.flexnet
        <3> DEFINE e == Encoded(f)
                   h == Header(e.cells)
        <3>1. e.bytes = <<>>
            BY <2>2 DEF Encoded
        <3> HIDE DEF e
        <3>2. \/ p = Cleared
              \/ p = [valid |-> TRUE, pid |-> -1, datalength |-> 0, header |-> h]
            BY <3>1 DEF Decoded, e
        <3> HIDE DEF p, h
        <3>3. CASE p = Cleared
            BY <3>3 DEF Cleared, p
        <3>4. CASE p = [valid |-> TRUE, pid |-> -1, datalength |-> 0, header |-> h]
            <4>1. p.pid = -1 /\ p.datalength = 0
                BY <3>4
            <4>2. p.valid = TRUE
                BY <3>4, Zenon
            <4>3. p.valid \in BOOLEAN
                BY <4>2, Zenon
            <4>4. QED BY <4>1, <4>3 DEF p
        <3>5. QED BY <3>2, <3>3, <3>4
    <2>3. CASE ~f.flexnet /\ ~f.cut
        <3>1. DecodesTo(f, b, ct)
            BY DEF DecodesTo
        <3> HIDE DEF b, ct
        <3>2. Complete(p, Header(Cells(f)), b, ct) /\ Follows(b, ct.len, f.rest)
            BY <2>3, <3>1, LongEnough, FtypeSays
        <3> HIDE DEF p
        <3>3. f.rest \in Seq(Octets) /\ Len(f.rest) \in Nat /\ (f.rest = <<>> <=> Len(f.rest) = 0)
            BY FrameParts, LenProperties, EmptySeq
        <3>4. Len(b) - ct.len = Len(f.rest)
            BY <3>2, <3>3 DEF Follows
        <3>5. Len(f.rest) > 0 => b[ct.len + 1] \in 0..255
            <4>1. Len(f.rest) > 0 => Head(f.rest) \in Octets /\ f.rest # <<>>
                BY <3>3
            <4>2. QED BY <3>2, <4>1 DEF Follows, Octets
        <3>6. CASE ct.type \in {I, UI} /\ Len(f.rest) > 0
            <4>1. p.valid = TRUE /\ p.pid = b[ct.len + 1] /\ p.datalength = Len(f.rest) - 1
                BY <3>2, <3>4, <3>6 DEF Complete
            <4>2. p.valid \in BOOLEAN
                BY Zenon, <4>1
            <4>3. QED BY <3>3, <3>5, <3>6, <4>1, <4>2 DEF p
        <3>7. CASE ~(ct.type \in {I, UI} /\ Len(f.rest) > 0)
            <4>1. p.valid = TRUE /\ p.pid = -1 /\ p.datalength = Len(f.rest)
                BY <3>2, <3>4, <3>7 DEF Complete
            <4>2. p.valid \in BOOLEAN
                BY Zenon, <4>1
            <4>3. QED BY <3>3, <4>1, <4>2 DEF p
        <3>8. QED BY <3>6, <3>7
    <2>4. f.flexnet \in BOOLEAN /\ f.cut \in BOOLEAN
        BY FrameParts
    <2>5. QED BY <2>1, <2>2, <2>3, <2>4
<1>2. AxInit => AxTypeOK
    BY DEF AxInit, AxTypeOK, Cleared
<1>3. AxTypeOK /\ [AxNext]_axVars => AxTypeOK'
    <2>1. ASSUME NEW f \in AxFrames, DecodeNext(f) PROVE AxTypeOK'
        <3>1. packet' = Decoded(Encoded(f))
            BY <2>1 DEF DecodeNext
        <3>2. QED BY <1>1, <3>1 DEF AxTypeOK
    <2>2. ASSUME AxTypeOK, UNCHANGED axVars PROVE AxTypeOK'
        BY <2>2 DEF AxTypeOK, axVars
    <2>3. QED BY <2>1, <2>2 DEF AxNext
<1>4. QED BY <1>2, <1>3, PTL DEF AxSpec
=============================================================================
