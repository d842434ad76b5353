------------------------- MODULE DisplaySocketProofs -------------------------
(* What holds for both daemons and both servers: that a life of the server *)
(* accepts one connection, how Segments cuts a buffer, and that parts cut  *)
(* one after the other from a text are together that text.                 *)

EXTENDS DisplaySocket, SequenceTheorems, WellFoundedInduction, TLAPS

-----------------------------------------------------------------------------
(* Induction on the natural numbers, with a set in place of a predicate.   *)

LEMMA LeastNat ==
    ASSUME NEW T \in SUBSET Nat, T # {}
    PROVE  \E n \in T : \A m \in T : n <= m
<1>1. IsWellFoundedOn(OpToRel(<, Nat), Nat)
    BY NatLessThanWellFounded
<1>2. \E n \in T : \A m \in T : ~(<<m, n>> \in OpToRel(<, Nat))
    BY <1>1, WFMin
<1>3. PICK n \in T : \A m \in T : ~(m < n)
    BY <1>2, Zenon DEF OpToRel
<1>4. QED BY <1>3

LEMMA NatSteps ==
    ASSUME NEW S, 0 \in S, \A n \in Nat : n \in S => n + 1 \in S
    PROVE  Nat \subseteq S
<1>1. SUFFICES ASSUME Nat \ S # {} PROVE FALSE
    OBVIOUS
<1>2. PICK n \in Nat \ S : \A m \in Nat \ S : n <= m
    BY <1>1, LeastNat
<1>3. n - 1 \in Nat /\ n - 1 \in S
    BY <1>2
<1>4. QED BY <1>2, <1>3

\* The least element, as Min chooses it.
LEMMA MinOf ==
    ASSUME NEW T \in SUBSET Nat, T # {}
    PROVE  Min(T) \in T /\ \A m \in T : Min(T) <= m
<1>1. \E n \in T : \A m \in T : n <= m
    BY LeastNat
<1>2. QED BY <1>1 DEF Min

LEMMA MaxOfTwo ==
    ASSUME NEW a \in Int, NEW b \in Int
    PROVE  Max({a, b}) \in {a, b} /\ Max({a, b}) >= a /\ Max({a, b}) >= b
<1>1. \E x \in {a, b} : \A y \in {a, b} : x >= y
    BY SMT
<1>2. /\ Max({a, b}) \in {a, b}
      /\ \A y \in {a, b} : Max({a, b}) >= y
    BY <1>1 DEF Max
<1>3. QED BY <1>2

\* A function on an interval that is defined by what it was one step before.
Moves(step, m, S) == \A i \in 1..m : step[i] \in [S -> S]

Walks(f, m, S, first, step) ==
    f \in [0..m -> S] /\ f[0] = first /\ \A i \in 1..m : f[i] = step[i][f[i - 1]]

LEMMA Iterates ==
    ASSUME NEW m \in Nat, NEW S, NEW first \in S, NEW step, Moves(step, m, S)
    PROVE  \E f : Walks(f, m, S, first, step)
<1> USE DEF Moves, Walks
<1> DEFINE Defines(f, n) ==
             f \in [0..n -> S] /\ f[0] = first /\ \A i \in 1..n : f[i] = step[i][f[i - 1]]
           T == {n \in Nat : n <= m => \E f : Defines(f, n)}
<1>1. 0 \in T
    <2> DEFINE f == [i \in 0..0 |-> first]
    <2>1. Defines(f, 0)
        OBVIOUS
    <2>2. QED BY <2>1
<1>2. ASSUME NEW n \in Nat, n \in T PROVE n + 1 \in T
    <2>1. SUFFICES ASSUME n + 1 <= m PROVE \E f : Defines(f, n + 1)
        OBVIOUS
    <2>2. PICK f : Defines(f, n)
        BY <1>2, <2>1
    <2> DEFINE g == [i \in 0..(n + 1) |-> IF i <= n THEN f[i] ELSE step[n + 1][f[n]]]
    <2>3. f[n] \in S /\ n + 1 \in 1..m
        BY <2>1, <2>2
    <2>4. step[n + 1][f[n]] \in S
        BY <2>3
    <2>5. g \in [0..(n + 1) -> S]
        BY <2>2, <2>4
    <2>6. g[0] = first
        BY <2>2
    <2>7. ASSUME NEW i \in 1..(n + 1) PROVE g[i] = step[i][g[i - 1]]
        <3>1. CASE i <= n
            <4>1. i \in 1..n /\ i \in 0..(n + 1) /\ i - 1 \in 0..(n + 1) /\ i - 1 <= n
                BY <3>1
            <4>2. f[i] = step[i][f[i - 1]]
                BY <2>2, <4>1
            <4>3. QED BY <3>1, <4>1, <4>2
        <3>2. CASE i = n + 1
            <4>1. ~(i <= n) /\ i - 1 = n /\ n \in 0..(n + 1) /\ i \in 0..(n + 1)
                BY <3>2
            <4>2. QED BY <3>2, <4>1
        <3>3. QED BY <3>1, <3>2
    <2> HIDE DEF g
    <2>8. QED BY <2>5, <2>6, <2>7
<1> HIDE DEF Defines
<1>3. Nat \subseteq T
    <2> HIDE DEF T
    <2>1. QED BY <1>1, <1>2, NatSteps
<1>4. \E f : Defines(f, m)
    BY <1>3
<1>5. QED BY <1>4 DEF Defines

-----------------------------------------------------------------------------
(* Connections.                                                            *)

\* A daemon that looks for the server's file, although this life has accepted a
\* connection, looks in vain: it has removed the file, and only a later life
\* binds the path again.
LinkInv ==
    /\ life \in Nat /\ path \in 0..life /\ accepted \in Nat
    /\ server \in {"down", "starting", "up"}
    /\ server = "starting" => accepted = 0 /\ path < life
    /\ server # "down" => life > 0
    /\ server = "up" /\ accepted > 0 /\ daemon # "loop" => path # life
    /\ accepted <= 1

\* What has no part in it: the daemon, the file and the server stay.
Quiet == UNCHANGED <<daemon, path, server, life, accepted>>

LEMMA SocketKeeps ==
    ASSUME LinkInv,
           \/ StartWaiting \/ FileSeen \/ (\E pieces : Connect(pieces)) \/ DaemonRestart
           \/ ServerStart \/ UnlinkDone \/ Listen \/ ServerDies \/ Quiet
    PROVE  LinkInv'
<1>1. CASE StartWaiting
    BY <1>1 DEF LinkInv, StartWaiting, NoFile
<1>2. CASE FileSeen
    BY <1>2 DEF LinkInv, FileSeen
<1>3. CASE \E pieces : Connect(pieces)
    BY <1>3 DEF LinkInv, Connect
<1>4. CASE DaemonRestart
    BY <1>4 DEF LinkInv, DaemonRestart
<1>5. CASE ServerStart
    BY <1>5 DEF LinkInv, ServerStart
<1>6. CASE UnlinkDone
    BY <1>6 DEF LinkInv, UnlinkDone, NoFile
<1>7. CASE Listen
    BY <1>7 DEF LinkInv, Listen, NoFile
<1>8. CASE ServerDies
    BY <1>8 DEF LinkInv, ServerDies
<1>9. CASE Quiet
    BY <1>9 DEF LinkInv, Quiet
<1>10. QED BY <1>1, <1>2, <1>3, <1>4, <1>5, <1>6, <1>7, <1>8, <1>9

-----------------------------------------------------------------------------
(* Cutting.                                                                *)

LEMMA PartEndOf ==
    ASSUME NEW buf, Len(buf) \in Nat, NEW k \in 0..Len(buf)
    PROVE  /\ PartEnd(buf, k) \in 0..Len(buf)
           /\ k = Len(buf) => PartEnd(buf, k) = k
           /\ k # Len(buf) =>
                /\ k < PartEnd(buf, k)
                /\ PartEnd(buf, k) \in Joints(buf) \cup {Len(buf)}
                /\ \A j \in Joints(buf) : ~(k < j /\ j < PartEnd(buf, k))
<1> DEFINE J == Joints(buf)
           T == {j \in J \cup {Len(buf)} : j > k}
<1>1. J \subseteq 1..(Len(buf) - 1)
    BY DEF Joints
<1>2. CASE k # Len(buf)
    <2> HIDE DEF J
    <2>1. T \in SUBSET Nat /\ T # {}
        <3>1. J \subseteq Nat /\ Len(buf) \in T
            BY <1>1, <1>2
        <3>2. QED BY <3>1
    <2>2. PartEnd(buf, k) = Min(T)
        BY <1>2 DEF PartEnd, J
    <2>3. Min(T) \in T /\ \A j \in T : Min(T) <= j
        BY <2>1, MinOf
    <2> DEFINE e == Min(T)
    <2>4. e \in J \cup {Len(buf)} /\ k < e
        BY <2>3
    <2>5. e \in 0..Len(buf)
        <3> HIDE DEF e
        <3>1. J \subseteq 0..Len(buf)
            BY <1>1
        <3>2. QED BY <2>4, <3>1
    <2>6. \A j \in J : j > k => e <= j
        BY <2>3
    <2> HIDE DEF e
    <2>7. \A j \in J : ~(k < j /\ j < e)
        BY <1>1, <2>5, <2>6
    <2>8. PartEnd(buf, k) = e
        BY <2>2 DEF e
    <2>9. QED BY <1>2, <2>4, <2>5, <2>7, <2>8 DEF J
<1>3. CASE k = Len(buf)
    BY <1>3 DEF PartEnd
<1>4. QED BY <1>2, <1>3

LEMMA CutsOf ==
    ASSUME NEW buf, Len(buf) \in Nat
    PROVE  /\ Cuts(buf) \in [0..Len(buf) -> 0..Len(buf)]
           /\ Cuts(buf)[0] = 0
           /\ \A i \in 1..Len(buf) : Cuts(buf)[i] = PartEnd(buf, Cuts(buf)[i - 1])
<1> DEFINE m == Len(buf)
           once == [k \in 0..m |-> PartEnd(buf, k)]
           step == [i \in 1..m |-> once]
<1>1. once \in [0..m -> 0..m]
    BY PartEndOf
<1>2. PICK f \in [0..m -> 0..m] : f[0] = 0 /\ \A i \in 1..m : f[i] = step[i][f[i - 1]]
    <2> DEFINE S == 0..m
               z == 0
    <2>1. z \in S /\ m \in Nat
        OBVIOUS
    <2> HIDE DEF once
    <2>2. Moves(step, m, S)
        BY <1>1 DEF Moves
    <2> HIDE DEF step, S, m, z
    <2>3. \E f : Walks(f, m, S, z, step)
        BY <2>1, <2>2, Iterates
    <2>4. QED BY <2>3 DEF Walks, S, z
<1>3. f = [i \in 0..m |-> IF i = 0 THEN 0 ELSE PartEnd(buf, f[i - 1])]
    <2>1. ASSUME NEW i \in 1..m PROVE f[i] = PartEnd(buf, f[i - 1])
        <3>1. i - 1 \in 0..m /\ f[i - 1] \in 0..m /\ f[i] = step[i][f[i - 1]]
            <4> HIDE DEF step
            <4>1. QED BY <1>2
        <3>2. step[i] = once
            OBVIOUS
        <3>3. QED BY <3>1, <3>2
    <2>2. \A i \in 0..m : i = 0 \/ i \in 1..m
        OBVIOUS
    <2> HIDE DEF step
    <2>3. \A i \in 0..m : f[i] = IF i = 0 THEN 0 ELSE PartEnd(buf, f[i - 1])
        BY <1>2, <2>1, <2>2
    <2>4. f = [i \in 0..m |-> f[i]]
        BY <1>2
    <2>5. QED BY <2>3, <2>4
<1> DEFINE c == Cuts(buf)
<1>4. c = [i \in 0..m |-> IF i = 0 THEN 0 ELSE PartEnd(buf, c[i - 1])]
    BY <1>3 DEF Cuts
<1> HIDE DEF c
<1>5. c[0] = 0 /\ DOMAIN c = 0..m /\ \A i \in 1..m : c[i] = PartEnd(buf, c[i - 1])
    <2>1. 0 \in 0..m /\ \A i \in 1..m : i \in 0..m /\ i # 0
        OBVIOUS
    <2>2. QED BY <1>4, <2>1
<1>6. \A i \in 0..m : c[i] \in 0..m
    <2> DEFINE S == {i \in Nat : i <= m => c[i] \in 0..m}
    <2>1. 0 \in S
        BY <1>5
    <2>2. ASSUME NEW i \in Nat, i \in S PROVE i + 1 \in S
        <3>1. CASE i + 1 <= m
            <4>1. i + 1 \in 1..m /\ (i + 1) - 1 = i /\ c[i] \in 0..m
                BY <2>2, <3>1
            <4>2. c[i + 1] = PartEnd(buf, c[i])
                BY <1>5, <4>1
            <4>3. QED BY <4>1, <4>2, PartEndOf
        <3>2. QED BY <3>1
    <2>3. Nat \subseteq S
        <3> HIDE DEF S
        <3>1. QED BY <2>1, <2>2, NatSteps
    <2>4. QED BY <2>3
<1>7. c \in [0..m -> 0..m]
    <2>1. c = [i \in 0..m |-> c[i]]
        BY <1>4
    <2>2. QED BY <1>6, <2>1
<1>8. QED BY <1>5, <1>7 DEF c

\* The parts of a buffer are what lies between one end and the next; every
\* joint is the end of a part, and every part but the last ends at a joint.
IsCutting(buf, parts, n, cut) ==
    /\ cut \in [0..n -> 0..Len(buf)]
    /\ cut[0] = 0 /\ cut[n] = Len(buf)
    /\ parts = [i \in 1..n |-> SubSeq(buf, cut[i - 1] + 1, cut[i])]
    /\ \A i \in 1..n :
         /\ cut[i - 1] < cut[i]
         /\ \A k \in Joints(buf) : ~(cut[i - 1] < k /\ k < cut[i])
         /\ i < n => cut[i] \in Joints(buf)

LEMMA SegmentsOf ==
    ASSUME NEW buf, Len(buf) \in Nat, Len(buf) # 0
    PROVE  \E n \in Nat \ {0} : \E cut : IsCutting(buf, Segments(buf), n, cut)
<1> DEFINE m == Len(buf)
           c == Cuts(buf)
           T == {i \in DOMAIN c : c[i] = m}
           n == Min(T)
<1>1. c \in [0..m -> 0..m] /\ c[0] = 0 /\ \A i \in 1..m : c[i] = PartEnd(buf, c[i - 1])
    BY CutsOf
<1> HIDE DEF c
<1>2. m \in T
    <2> DEFINE S == {i \in Nat : i <= m => c[i] = m \/ c[i] >= i}
    <2>1. 0 \in S
        BY <1>1
    <2>2. ASSUME NEW i \in Nat, i \in S PROVE i + 1 \in S
        <3>1. CASE i + 1 <= m
            <4>1. i + 1 \in 1..m /\ (i + 1) - 1 = i /\ i \in 0..m /\ i + 1 \in 0..m
                BY <3>1
            <4>2. c[i] \in 0..m /\ c[i + 1] \in 0..m /\ c[i + 1] = PartEnd(buf, c[i])
                BY <1>1, <4>1
            <4>3. c[i] = m => c[i + 1] = m
                BY <4>2, PartEndOf
            <4>4. c[i] # m => c[i] < c[i + 1]
                BY <4>2, PartEndOf
            <4>5. c[i] = m \/ c[i] >= i
                BY <2>2, <3>1
            <4>6. QED BY <4>2, <4>3, <4>4, <4>5
        <3>2. QED BY <3>1
    <2>3. Nat \subseteq S
        <3> HIDE DEF S
        <3>1. QED BY <2>1, <2>2, NatSteps
    <2>4. m \in 0..m /\ c[m] \in 0..m /\ (c[m] = m \/ c[m] >= m)
        BY <1>1, <2>3
    <2>5. QED BY <1>1, <2>4
<1>3. n \in T /\ \A i \in T : n <= i
    <2>1. T \in SUBSET Nat /\ T # {}
        BY <1>1, <1>2
    <2> HIDE DEF T
    <2>2. QED BY <2>1, MinOf
<1>4. Segments(buf) = [i \in 1..n |-> SubSeq(buf, c[i - 1] + 1, c[i])]
    BY DEF Segments, c
<1> HIDE DEF n
<1>5. n \in 0..m /\ c[n] = m /\ n # 0
    BY <1>1, <1>3
<1> DEFINE cut == [i \in 0..n |-> c[i]]
<1>6. cut \in [0..n -> 0..m] /\ \A i \in 0..n : cut[i] = c[i]
    <2>1. \A i \in 0..n : i \in 0..m
        BY <1>5
    <2>2. \A i \in 0..n : c[i] \in 0..m
        BY <1>1, <2>1
    <2>3. QED BY <2>2
<1>7. Segments(buf) = [i \in 1..n |-> SubSeq(buf, cut[i - 1] + 1, cut[i])]
    <2>1. \A i \in 1..n : cut[i] = c[i] /\ cut[i - 1] = c[i - 1]
        BY <1>5
    <2> HIDE DEF cut
    <2>2. QED BY <1>4, <2>1
<1> HIDE DEF cut
<1>8. ASSUME NEW i \in 1..n
      PROVE  /\ cut[i - 1] < cut[i]
             /\ \A k \in Joints(buf) : ~(cut[i - 1] < k /\ k < cut[i])
             /\ i < n => cut[i] \in Joints(buf)
    <2>1. i - 1 \in 0..m /\ i \in 1..m /\ i \in 0..n /\ i - 1 \in 0..n /\ i - 1 < n
        BY <1>5
    <2>2. c[i - 1] # m
        BY <1>1, <1>3, <1>5, <2>1
    <2>3. c[i] = PartEnd(buf, c[i - 1]) /\ c[i - 1] \in 0..m
        BY <1>1, <2>1
    <2>4. i < n => c[i] # m
        BY <1>1, <1>3, <1>5, <2>1
    <2>5. /\ c[i - 1] < c[i] /\ c[i] \in Joints(buf) \cup {m}
          /\ \A k \in Joints(buf) : ~(c[i - 1] < k /\ k < c[i])
        BY <2>2, <2>3, PartEndOf
    <2>6. cut[i] = c[i] /\ cut[i - 1] = c[i - 1]
        BY <1>6, <2>1
    <2>7. QED BY <2>4, <2>5, <2>6
<1>9. cut[0] = 0 /\ cut[n] = m
    BY <1>1, <1>5, <1>6
<1>10. n \in Nat \ {0} /\ IsCutting(buf, Segments(buf), n, cut)
    BY <1>5, <1>6, <1>7, <1>8, <1>9 DEF IsCutting
<1>11. QED BY <1>10

-----------------------------------------------------------------------------
(* Putting together.                                                       *)

\* Two neighbouring parts of a text.
LEMMA SubSeqJoin ==
    ASSUME NEW S, NEW t \in Seq(S), NEW a \in Nat, NEW b \in a..Len(t), NEW d \in b..Len(t)
    PROVE  SubSeq(t, a + 1, b) \o SubSeq(t, b + 1, d) = SubSeq(t, a + 1, d)
<1> DEFINE x == SubSeq(t, a + 1, b)
           y == SubSeq(t, b + 1, d)
           z == SubSeq(t, a + 1, d)
<1>1. Len(t) \in Nat /\ b \in Nat /\ d \in Nat /\ a <= b /\ b <= d /\ d <= Len(t)
    BY LenProperties
<1>2. x \in Seq(S) /\ Len(x) = b - a /\ \A i \in 1..(b - a) : x[i] = t[a + i]
    <2>1. \A i \in (a + 1)..b : t[i] \in S
        BY <1>1, ElementOfSeq
    <2>2. QED BY <1>1, <2>1, SubSeqProperties
<1>3. y \in Seq(S) /\ Len(y) = d - b /\ \A i \in 1..(d - b) : y[i] = t[b + i]
    <2>1. \A i \in (b + 1)..d : t[i] \in S
        BY <1>1, ElementOfSeq
    <2>2. QED BY <1>1, <2>1, SubSeqProperties
<1>4. z \in Seq(S) /\ Len(z) = d - a /\ \A i \in 1..(d - a) : z[i] = t[a + i]
    <2>1. \A i \in (a + 1)..d : t[i] \in S
        BY <1>1, ElementOfSeq
    <2>2. QED BY <1>1, <2>1, SubSeqProperties
<1> HIDE DEF x, y, z
<1>5. /\ x \o y \in Seq(S) /\ Len(x \o y) = d - a
      /\ \A i \in 1..(d - a) : (x \o y)[i] = IF i <= b - a THEN x[i] ELSE y[i - (b - a)]
    <2>1. Len(x) + Len(y) = d - a
        BY <1>1, <1>2, <1>3
    <2>2. /\ x \o y \in Seq(S) /\ Len(x \o y) = Len(x) + Len(y)
          /\ \A i \in 1..(Len(x) + Len(y)) : (x \o y)[i] = IF i <= Len(x) THEN x[i] ELSE y[i - Len(x)]
        BY <1>2, <1>3, ConcatProperties
    <2>3. Len(x) = b - a
        BY <1>2
    <2>4. QED BY <2>1, <2>2, <2>3
<1>6. ASSUME NEW i \in 1..(d - a) PROVE (x \o y)[i] = z[i]
    <2>1. CASE i <= b - a
        <3>1. i \in 1..(b - a)
            BY <1>1, <2>1
        <3>2. QED BY <1>2, <1>4, <1>5, <2>1, <3>1
    <2>2. CASE ~(i <= b - a)
        <3>1. i - (b - a) \in 1..(d - b) /\ b + (i - (b - a)) = a + i
            BY <1>1, <2>2
        <3>2. QED BY <1>3, <1>4, <1>5, <2>2, <3>1
    <2>3. QED BY <2>1, <2>2
<1>7. x \o y = z
    BY <1>1, <1>4, <1>5, <1>6, SeqEqual
<1>8. QED BY <1>7 DEF x, y, z

\* The parts lie one after the other in the text, from the place where it
\* begins: parts[i] ends with place at[i + 1] of it.
LieIn(text, parts, at) ==
    /\ at \in [1..(Len(parts) + 1) -> 0..Len(text)]
    /\ at[1] = 0
    /\ \A i \in 1..Len(parts) :
         at[i] < at[i + 1] /\ parts[i] = SubSeq(text, at[i] + 1, at[i + 1])

LEMMA Together ==
    ASSUME NEW S, NEW text \in Seq(S), NEW parts \in Seq(Seq(S)), NEW at, LieIn(text, parts, at)
    PROVE  FlattenSeq(parts) = SubSeq(text, 1, at[Len(parts) + 1])
<1> DEFINE m == Len(parts)
<1>1. m \in Nat /\ Len(text) \in Nat
    BY LenProperties
<1>2. \A i \in 1..(m + 1) : at[i] \in 0..Len(text)
    BY DEF LieIn
<1>3. \A i \in 1..m : at[i] < at[i + 1] /\ parts[i] = SubSeq(text, at[i] + 1, at[i + 1])
    BY DEF LieIn
<1>4. at[1] = 0
    BY DEF LieIn
<1>5. ASSUME NEW i \in 1..m
      PROVE  SubSeq(text, 1, at[i]) \o parts[i] = SubSeq(text, 1, at[i + 1])
    <2>1. at[i] \in 0..Len(text) /\ at[i + 1] \in 0..Len(text) /\ at[i] < at[i + 1]
        BY <1>1, <1>2, <1>3
    <2>2. parts[i] = SubSeq(text, at[i] + 1, at[i + 1])
        BY <1>3
    <2> DEFINE a == at[i]
               b == at[i + 1]
    <2> HIDE DEF a, b
    <2>3. a \in 0..Len(text) /\ b \in 0..Len(text) /\ a < b
        BY <2>1 DEF a, b
    <2>4. SubSeq(text, 1, a) \o SubSeq(text, a + 1, b) = SubSeq(text, 1, b)
        BY <1>1, <2>3, SubSeqJoin
    <2>5. QED BY <2>2, <2>4 DEF a, b
<1>6. CASE m = 0
    <2>1. FlattenSeq(parts) = parts /\ parts = <<>>
        BY <1>6, EmptySeq DEF FlattenSeq
    <2>2. SubSeq(text, 1, 0) = <<>>
        BY SubSeqProperties
    <2>3. QED BY <1>4, <1>6, <2>1, <2>2
<1>7. CASE m # 0
    <2> DEFINE Eq(f) == f = [i \in 1..m |-> IF i = 1 THEN parts[i] ELSE f[i - 1] \o parts[i]]
               f0 == [i \in 1..m |-> SubSeq(text, 1, at[i + 1])]
    <2>1. Eq(f0)
        <3>1. ASSUME NEW i \in 1..m
              PROVE  f0[i] = IF i = 1 THEN parts[i] ELSE f0[i - 1] \o parts[i]
            <4>1. CASE i = 1
                <5>1. parts[i] = SubSeq(text, at[i] + 1, at[i + 1]) /\ at[i] + 1 = 1
                    BY <1>3, <1>4, <4>1
                <5>2. QED BY <4>1, <5>1
            <4>2. CASE i # 1
                <5>1. i - 1 \in 1..m /\ (i - 1) + 1 = i
                    BY <1>1, <4>2
                <5>2. f0[i - 1] = SubSeq(text, 1, at[i])
                    BY <5>1
                <5>3. QED BY <1>5, <4>2, <5>2
            <4>3. QED BY <4>1, <4>2
        <3>2. f0 = [i \in 1..m |-> f0[i]]
            OBVIOUS
        <3> HIDE DEF f0
        <3>3. QED BY <3>1, <3>2
    <2>2. \E g : Eq(g) /\ FlattenSeq(parts) = g[m]
        <3> HIDE DEF f0
        <3>1. QED BY <1>7, <2>1 DEF FlattenSeq
    <2>3. PICK g : Eq(g) /\ FlattenSeq(parts) = g[m]
        BY <2>2
    <2> DEFINE T == {i \in Nat : i + 1 <= m => g[i + 1] = SubSeq(text, 1, at[i + 2])}
    <2>4. 0 \in T
        <3>1. 1 \in 1..m /\ g[1] = parts[1]
            BY <1>1, <1>7, <2>3
        <3>2. parts[1] = SubSeq(text, at[1] + 1, at[1 + 1])
            BY <1>3, <3>1
        <3>3. parts[1] = SubSeq(text, 1, at[2])
            BY <1>4, <3>2
        <3>4. QED BY <3>1, <3>3
    <2>5. ASSUME NEW i \in Nat, i \in T PROVE i + 1 \in T
        <3>1. CASE i + 2 <= m
            <4>1. i + 2 \in 1..m /\ i + 2 # 1 /\ (i + 2) - 1 = i + 1 /\ (i + 2) + 1 = i + 3
                BY <1>1, <3>1
            <4>2. g[i + 2] = g[i + 1] \o parts[i + 2]
                BY <2>3, <4>1
            <4>3. g[i + 1] = SubSeq(text, 1, at[i + 2])
                BY <1>1, <2>5, <3>1
            <4>4. g[i + 2] = SubSeq(text, 1, at[i + 3])
                BY <1>5, <4>1, <4>2, <4>3
            <4>5. QED BY <4>4
        <3>2. QED BY <1>1, <3>1
    <2>6. Nat \subseteq T
        <3> HIDE DEF T
        <3>1. QED BY <2>4, <2>5, NatSteps
    <2>7. m - 1 \in Nat /\ (m - 1) + 1 = m /\ (m - 1) + 2 = m + 1
        BY <1>1, <1>7
    <2>8. g[m] = SubSeq(text, 1, at[m + 1])
        <3>1. (m - 1) \in T
            BY <2>6, <2>7
        <3> DEFINE k == m - 1
        <3>2. k + 1 <= m => g[k + 1] = SubSeq(text, 1, at[k + 2])
            BY <3>1
        <3>3. k + 1 = m /\ k + 2 = m + 1
            BY <1>1
        <3> HIDE DEF k
        <3>4. QED BY <1>1, <3>2, <3>3
    <2>9. QED BY <2>3, <2>8
<1>8. QED BY <1>6, <1>7

\* Taking out one place of a sequence keeps the others.
LEMMA RemovedAt ==
    ASSUME NEW S, NEW s \in Seq(S), NEW n \in 1..Len(s)
    PROVE  /\ RemoveAt(s, n) \in Seq(S)
           /\ Len(RemoveAt(s, n)) = Len(s) - 1
           /\ \A i \in 1..(Len(s) - 1) :
                RemoveAt(s, n)[i] = IF i < n THEN s[i] ELSE s[i + 1]
<1> DEFINE a == SubSeq(s, 1, n - 1)
           b == SubSeq(s, n + 1, Len(s))
<1>1. Len(s) \in Nat /\ \A i \in 1..Len(s) : s[i] \in S
    BY LenProperties, ElementOfSeq
<1>2. /\ a \in Seq(S) /\ Len(a) = n - 1
      /\ \A i \in 1..(n - 1) : a[i] = s[i]
    BY <1>1, SubSeqProperties
<1>3. /\ b \in Seq(S) /\ Len(b) = Len(s) - n
      /\ \A i \in 1..(Len(s) - n) : b[i] = s[n + i]
    BY <1>1, SubSeqProperties
<1>4. RemoveAt(s, n) = a \o b
    BY DEF RemoveAt
<1> HIDE DEF a, b
<1>5. /\ a \o b \in Seq(S) /\ Len(a \o b) = Len(s) - 1
      /\ \A i \in 1..(Len(s) - 1) : (a \o b)[i] = IF i <= n - 1 THEN a[i] ELSE b[i - (n - 1)]
    BY <1>1, <1>2, <1>3, ConcatProperties
<1>6. ASSUME NEW i \in 1..(Len(s) - 1)
      PROVE  (a \o b)[i] = IF i < n THEN s[i] ELSE s[i + 1]
    <2>1. CASE i < n
        BY <1>1, <1>2, <1>5, <2>1
    <2>2. CASE ~(i < n)
        <3>1. i - (n - 1) \in 1..(Len(s) - n) /\ n + (i - (n - 1)) = i + 1 /\ ~(i <= n - 1)
            BY <1>1, <2>2
        <3>2. QED BY <1>3, <1>5, <2>2, <3>1
    <2>3. QED BY <2>1, <2>2
<1>7. QED BY <1>4, <1>5, <1>6

-----------------------------------------------------------------------------
(* Parts of a stream of objects.                                           *)

\* A piece of a text, as a text of its own.
LEMMA SubSeqOf ==
    ASSUME NEW S, NEW t \in Seq(S), NEW a \in Nat, NEW b \in a..Len(t)
    PROVE  /\ SubSeq(t, a + 1, b) \in Seq(S)
           /\ Len(SubSeq(t, a + 1, b)) = b - a
           /\ \A i \in 1..(b - a) : SubSeq(t, a + 1, b)[i] = t[a + i]
<1>1. Len(t) \in Nat /\ b \in Nat /\ a <= b /\ b <= Len(t)
    BY LenProperties
<1>2. \A i \in (a + 1)..b : t[i] \in S
    BY <1>1, ElementOfSeq
<1>3. QED BY <1>1, <1>2, SubSeqProperties

\* A piece of a piece.
LEMMA PieceOfPiece ==
    ASSUME NEW S, NEW t \in Seq(S), NEW a \in Nat, NEW b \in a..Len(t),
           NEW x \in 0..(b - a), NEW y \in x..(b - a)
    PROVE  SubSeq(SubSeq(t, a + 1, b), x + 1, y) = SubSeq(t, (a + x) + 1, a + y)
<1> DEFINE u == SubSeq(t, a + 1, b)
           v == SubSeq(u, x + 1, y)
           z == SubSeq(t, (a + x) + 1, a + y)
<1>1. Len(t) \in Nat /\ b \in Nat /\ x \in Nat /\ y \in Nat /\ x <= y /\ y <= b - a /\ b <= Len(t)
    BY LenProperties
<1>2. u \in Seq(S) /\ Len(u) = b - a /\ \A i \in 1..(b - a) : u[i] = t[a + i]
    BY SubSeqOf
<1> HIDE DEF u
<1>3. v \in Seq(S) /\ Len(v) = y - x /\ \A i \in 1..(y - x) : v[i] = u[x + i]
    <2>1. y \in x..Len(u)
        BY <1>1, <1>2
    <2>2. QED BY <1>1, <1>2, <2>1, SubSeqOf
<1>4. z \in Seq(S) /\ Len(z) = y - x /\ \A i \in 1..(y - x) : z[i] = t[(a + x) + i]
    <2>1. a + x \in Nat /\ a + y \in (a + x)..Len(t) /\ (a + y) - (a + x) = y - x
        BY <1>1
    <2> DEFINE c == a + x
               d == a + y
    <2> HIDE DEF c, d
    <2>2. c \in Nat /\ d \in c..Len(t) /\ d - c = y - x
        BY <2>1 DEF c, d
    <2>3. /\ SubSeq(t, c + 1, d) \in Seq(S)
          /\ Len(SubSeq(t, c + 1, d)) = d - c
          /\ \A i \in 1..(d - c) : SubSeq(t, c + 1, d)[i] = t[c + i]
        BY <2>2, SubSeqOf
    <2>4. QED BY <2>2, <2>3 DEF c, d
<1> HIDE DEF v, z
<1>5. \A i \in 1..(y - x) : v[i] = z[i]
    <2>1. ASSUME NEW i \in 1..(y - x) PROVE v[i] = z[i]
        <3>1. x + i \in 1..(b - a) /\ a + (x + i) = (a + x) + i
            BY <1>1
        <3>2. QED BY <1>2, <1>3, <1>4, <3>1
    <2>2. QED BY <2>1
<1>6. v = z
    BY <1>3, <1>4, <1>5, SeqEqual
<1>7. QED BY <1>6 DEF u, v, z

\* What was in a text before it grew.
LEMMA Grown ==
    ASSUME NEW S, NEW t \in Seq(S), NEW x \in Seq(S), NEW a \in Nat, NEW b \in a..Len(t)
    PROVE  /\ SubSeq(t \o x, a + 1, b) = SubSeq(t, a + 1, b)
           /\ SubSeq(t \o x, a + 1, Len(t \o x)) = SubSeq(t, a + 1, Len(t)) \o x
<1> DEFINE u == t \o x
<1>1. /\ u \in Seq(S) /\ Len(u) = Len(t) + Len(x) /\ Len(t) \in Nat /\ Len(x) \in Nat
      /\ \A i \in 1..(Len(t) + Len(x)) : u[i] = IF i <= Len(t) THEN t[i] ELSE x[i - Len(t)]
    BY ConcatProperties, LenProperties
<1> HIDE DEF u
<1>2. ASSUME NEW d \in a..Len(t) PROVE SubSeq(u, a + 1, d) = SubSeq(t, a + 1, d)
    <2>1. d \in a..Len(u) /\ d \in Nat /\ d <= Len(t)
        BY <1>1
    <2>2. /\ SubSeq(u, a + 1, d) \in Seq(S) /\ Len(SubSeq(u, a + 1, d)) = d - a
          /\ \A i \in 1..(d - a) : SubSeq(u, a + 1, d)[i] = u[a + i]
        BY <1>1, <2>1, SubSeqOf
    <2>3. /\ SubSeq(t, a + 1, d) \in Seq(S) /\ Len(SubSeq(t, a + 1, d)) = d - a
          /\ \A i \in 1..(d - a) : SubSeq(t, a + 1, d)[i] = t[a + i]
        BY SubSeqOf
    <2>4. \A i \in 1..(d - a) : u[a + i] = t[a + i]
        BY <1>1, <2>1
    <2>5. QED BY <2>2, <2>3, <2>4, SeqEqual
<1>3. SubSeq(u, Len(t) + 1, Len(u)) = x
    <2> DEFINE y == SubSeq(u, Len(t) + 1, Len(u))
    <2>1. y \in Seq(S) /\ Len(y) = Len(u) - Len(t) /\ \A i \in 1..(Len(u) - Len(t)) : y[i] = u[Len(t) + i]
        <3>1. Len(u) \in Len(t)..Len(u)
            BY <1>1
        <3>2. QED BY <1>1, <3>1, SubSeqOf
    <2> HIDE DEF y
    <2>2. \A i \in 1..Len(x) : y[i] = x[i]
        <3>1. ASSUME NEW i \in 1..Len(x) PROVE y[i] = x[i]
            <4>1. Len(t) + i \in 1..(Len(t) + Len(x)) /\ ~(Len(t) + i <= Len(t)) /\ (Len(t) + i) - Len(t) = i
                BY <1>1
            <4>2. i \in 1..(Len(u) - Len(t))
                BY <1>1
            <4>3. QED BY <1>1, <2>1, <4>1, <4>2
        <3>2. QED BY <3>1
    <2>3. Len(y) = Len(x)
        BY <1>1, <2>1
    <2>4. QED BY <2>1, <2>2, <2>3, SeqEqual DEF y
<1>4. SubSeq(u, a + 1, Len(u)) = SubSeq(u, a + 1, Len(t)) \o SubSeq(u, Len(t) + 1, Len(u))
    <2>1. Len(t) \in a..Len(u) /\ Len(u) \in Len(t)..Len(u)
        BY <1>1
    <2>2. QED BY <1>1, <2>1, SubSeqJoin
<1>5. Len(t) \in a..Len(t)
    BY <1>1
<1>6. SubSeq(u, a + 1, Len(t)) = SubSeq(t, a + 1, Len(t))
    BY <1>2, <1>5
<1>7. QED BY <1>2, <1>3, <1>4, <1>6 DEF u

\* A text of whole objects: every piece has its other half beside it.
Paired(w) ==
    \A k \in 1..Len(w) :
        /\ w[k].half = 1 => k < Len(w) /\ w[k + 1] = [obj |-> w[k].obj, half |-> 2]
        /\ w[k].half = 2 => k > 1 /\ w[k - 1].half = 1

LEMMA PairedGrows ==
    ASSUME NEW w \in Seq(Piece), Paired(w), NEW o \in Nat
    PROVE  w \o Pieces(o) \in Seq(Piece) /\ Paired(w \o Pieces(o))
<1> DEFINE x == Pieces(o)
           u == w \o x
           n == Len(w)
<1>1. /\ x \in Seq(Piece) /\ Len(x) = 2
      /\ x[1] = [obj |-> o, half |-> 1] /\ x[2] = [obj |-> o, half |-> 2]
    BY DEF Pieces, Piece
<1> HIDE DEF x
<1>2. /\ u \in Seq(Piece) /\ Len(u) = n + 2 /\ n \in Nat
      /\ \A i \in 1..(n + 2) : u[i] = IF i <= n THEN w[i] ELSE x[i - n]
    <2>1. /\ u \in Seq(Piece) /\ Len(u) = n + Len(x) /\ n \in Nat
          /\ \A i \in 1..(n + Len(x)) : u[i] = IF i <= n THEN w[i] ELSE x[i - n]
        BY <1>1, ConcatProperties, LenProperties
    <2>2. QED BY <1>1, <2>1
<1> HIDE DEF u
<1>3. \A i \in 1..n : u[i] = w[i]
    BY <1>2
<1>4. u[n + 1] = x[1] /\ u[n + 2] = x[2]
    <2>1. n + 1 \in 1..(n + 2) /\ n + 2 \in 1..(n + 2) /\ (n + 1) - n = 1 /\ (n + 2) - n = 2
          /\ ~(n + 1 <= n) /\ ~(n + 2 <= n)
        BY <1>2
    <2>2. QED BY <1>2, <2>1
<1>5. ASSUME NEW k \in 1..Len(u)
      PROVE  /\ u[k].half = 1 => k < Len(u) /\ u[k + 1] = [obj |-> u[k].obj, half |-> 2]
             /\ u[k].half = 2 => k > 1 /\ u[k - 1].half = 1
    <2>1. CASE k \in 1..n
        <3>1. w[k].half = 1 => k < n /\ w[k + 1] = [obj |-> w[k].obj, half |-> 2]
            BY <2>1 DEF Paired
        <3>2. w[k].half = 2 => k > 1 /\ w[k - 1].half = 1
            BY <2>1 DEF Paired
        <3>3. k < n => k + 1 \in 1..n
            BY <1>2, <2>1
        <3>4. k > 1 => k - 1 \in 1..n
            BY <1>2, <2>1
        <3>5. QED BY <1>2, <1>3, <2>1, <3>1, <3>2, <3>3, <3>4
    <2>2. CASE k = n + 1
        <3>1. k + 1 = n + 2 /\ k < Len(u)
            BY <1>2, <2>2
        <3>2. QED BY <1>1, <1>4, <2>2, <3>1
    <2>3. CASE k = n + 2
        <3>1. k - 1 = n + 1 /\ k > 1
            BY <1>2, <2>3
        <3>2. QED BY <1>1, <1>4, <2>3, <3>1
    <2>4. QED BY <1>2, <2>1, <2>2, <2>3
<1>6. QED BY <1>2, <1>5 DEF Paired, u, x

\* A part of such a text without a joint in it that may begin an object is an
\* object, or one half of one in Braced, or the end of the text cut it off.
LEMMA PartShape ==
    ASSUME NEW w \in Seq(Piece), Paired(w),
           NEW a \in Nat, NEW b \in Nat, a < b, b <= Len(w), BeginsBrace(w[a + 1]),
           \A k \in Nat : a < k /\ k < b => ~(EndsBrace(w[k]) /\ BeginsBrace(w[k + 1]))
    PROVE  /\ b = a + 1 \/ b = a + 2
           /\ b = a + 2 => IsObject(SubSeq(w, a + 1, b)) /\ w[b].half = 2
           /\ b = a + 1 /\ EndsBrace(w[b]) => w[b].obj \in Braced
<1>1. Len(w) \in Nat /\ \A k \in 1..Len(w) : w[k] \in Piece
    BY LenProperties, ElementOfSeq
<1>2. \A k \in 1..Len(w) : w[k].half \in {1, 2}
    BY <1>1 DEF Piece
<1>3. CASE b = a + 1
    <2>1. a + 1 \in 1..Len(w)
        BY <1>1, <1>3
    <2>2. QED BY <1>2, <1>3, <2>1 DEF EndsBrace, BeginsBrace
<1>4. CASE b > a + 1
    <2>1. a + 1 \in 1..Len(w) /\ a + 2 \in 1..Len(w) /\ (a + 1) + 1 = a + 2 /\ (a + 2) - 1 = a + 1
        BY <1>1, <1>4
    <2>2. w[a + 1].half = 1
        <3>1. SUFFICES ASSUME w[a + 1].half = 2 PROVE FALSE
            BY <1>2, <2>1
        <3>2. ~BeginsBrace(w[a + 2])
            BY <1>4, <2>1, <3>1 DEF EndsBrace
        <3>3. w[a + 2].half = 2
            BY <1>2, <2>1, <3>2 DEF BeginsBrace
        <3>4. w[a + 1].half = 1
            BY <2>1, <3>3 DEF Paired
        <3>5. QED BY <3>1, <3>4
    <2>3. w[a + 2] = [obj |-> w[a + 1].obj, half |-> 2]
        BY <2>1, <2>2 DEF Paired
    <2>4. ~(b > a + 2)
        <3>1. SUFFICES ASSUME b > a + 2 PROVE FALSE
            OBVIOUS
        <3>2. a + 3 \in 1..Len(w) /\ (a + 2) + 1 = a + 3 /\ (a + 3) - 1 = a + 2
            BY <1>1, <3>1
        <3>3. ~BeginsBrace(w[a + 3])
            BY <2>3, <3>1, <3>2 DEF EndsBrace
        <3>4. w[a + 3].half = 2
            BY <1>2, <3>2, <3>3 DEF BeginsBrace
        <3>5. w[a + 2].half = 1
            BY <3>2, <3>4 DEF Paired
        <3>6. QED BY <2>3, <3>5
    <2>5. b = a + 2
        BY <1>4, <2>4
    <2> DEFINE p == SubSeq(w, a + 1, b)
    <2>6. p \in Seq(Piece) /\ Len(p) = 2 /\ p[1] = w[a + 1] /\ p[2] = w[a + 2]
        <3>1. b \in a..Len(w) /\ b - a = 2 /\ 1 \in 1..(b - a) /\ 2 \in 1..(b - a)
            BY <1>1, <2>5
        <3>2. p \in Seq(Piece) /\ Len(p) = b - a /\ \A i \in 1..(b - a) : p[i] = w[a + i]
            BY <3>1, SubSeqOf
        <3>3. QED BY <3>1, <3>2
    <2> HIDE DEF p
    <2> DEFINE o == p[1].obj
    <2>7. p[1] = [obj |-> o, half |-> 1]
        <3>1. p[1] \in Piece /\ p[1].half = 1
            BY <1>1, <2>1, <2>2, <2>6
        <3>2. QED BY <3>1 DEF Piece
    <2>8. p[2] = [obj |-> o, half |-> 2]
        BY <2>3, <2>6
    <2> HIDE DEF o
    <2>9. p = Pieces(o)
        <3>1. p = <<p[1], p[2]>>
            BY <2>6
        <3>2. QED BY <2>7, <2>8, <3>1 DEF Pieces
    <2>10. IsObject(p)
        BY <2>6, <2>9 DEF IsObject, o
    <2>11. QED BY <2>3, <2>5, <2>10 DEF p
<1>5. QED BY <1>3, <1>4
=============================================================================
