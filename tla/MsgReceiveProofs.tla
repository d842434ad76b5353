-------------------------- MODULE MsgReceiveProofs --------------------------
(* Proofs about MsgReceive, for histories of every length and any stations *)
(* and messages, with and without failing allocations.                     *)
EXTENDS MsgReceive, TLAPS

\* The slot of the message saved a places before index x, without a modulus.
SlotAt(x, a) == IF x > a THEN x - 1 - a ELSE x + K - 1 - a

\* A remembered message was shown no longer ago than its place says.
Recorded == \A a \in Slots : Window[a] # None => age[Window[a]] <= a

\* A message shown a short time ago is remembered at its place.
Fresh == \A k \in Keys \ forgot : age[k] < K => Window[age[k]] = k

IInv == TypeOK /\ Recorded /\ Fresh /\ AckedIsShown

-----------------------------------------------------------------------------
(* Arithmetic of the ring.                                                 *)

LEMMA ModAbove ==
  ASSUME NEW x \in Nat, NEW n \in Nat \ {0}, n <= x, x < 2 * n
  PROVE  x % n = x - n
<1>1. x = n * (x \div n) + (x % n) /\ x \div n \in Int /\ x % n \in 0 .. n-1
  BY SMTT(20)
<1>2. x \div n >= 2 => n * (x \div n) >= n * 2
  BY <1>1, SMTT(20)
<1>3. x \div n <= 0 => n * (x \div n) <= 0
  BY <1>1, SMTT(20)
<1>4. x \div n = 1
  BY <1>1, <1>2, <1>3, SMTT(20)
<1>5. QED
  BY <1>1, <1>4, SMTT(20)

LEMMA ModTwice ==
  ASSUME NEW x \in Nat, x < 2 * K
  PROVE  x % K = IF x < K THEN x ELSE x - K
BY ModAbove, MsgReceiveAssumption

LEMMA SlotOfAge ==
  ASSUME NEW x \in Slots, NEW a \in Slots
  PROVE  (x + K - 1 - a) % K = SlotAt(x, a)
<1> DEFINE y == x + K - 1 - a
<1>1. y \in Nat /\ y < 2 * K /\ (y < K <=> ~(x > a)) /\ y - K = x - 1 - a
  BY MsgReceiveAssumption DEF Slots
<1>2. SlotAt(x, a) = IF x > a THEN x - 1 - a ELSE y
  BY DEF SlotAt
<1> HIDE DEF y
<1>3. y % K = IF y < K THEN y ELSE y - K
  BY <1>1, ModTwice
<1>4. QED
  BY <1>1, <1>2, <1>3 DEF y

LEMMA SlotType ==
  ASSUME NEW x \in Slots, NEW a \in Slots
  PROVE  /\ SlotAt(x, a) \in Slots
         /\ SlotAt(x, SlotAt(x, a)) = a
         /\ SlotAt(x, a) = x <=> a = K - 1
BY MsgReceiveAssumption DEF Slots, SlotAt

\* Advancing the index makes every message one place older.
LEMMA SlotsAdvance ==
  ASSUME NEW x \in Slots, NEW a \in Slots
  PROVE  /\ NextIdx(x) \in Slots
         /\ a = 0 => SlotAt(NextIdx(x), a) = x
         /\ a > 0 => a - 1 \in Slots /\ SlotAt(NextIdx(x), a) = SlotAt(x, a - 1)
<1>1. NextIdx(x) = IF x = K - 1 THEN 0 ELSE x + 1
  <2> DEFINE y == x + 1
  <2>1. y \in Nat /\ y < 2 * K /\ (y < K <=> x # K - 1) /\ (y >= K => y - K = 0)
    BY MsgReceiveAssumption DEF Slots
  <2>2. NextIdx(x) = y % K
    BY DEF NextIdx
  <2> HIDE DEF y
  <2>3. y % K = IF y < K THEN y ELSE y - K
    BY <2>1, ModTwice
  <2>4. QED
    BY <2>1, <2>2, <2>3, MsgReceiveAssumption DEF y
<1>2. QED
  BY <1>1, MsgReceiveAssumption DEF Slots, SlotAt

LEMMA WindowWithoutModulus ==
  ASSUME msghist_idx \in Slots
  PROVE  Window = [a \in Slots |-> msghist[SlotAt(msghist_idx, a)]]
BY SlotOfAge DEF Window

LEMMA NoneIsNoKey == None \notin Keys /\ None \notin Messages
BY MsgReceiveAssumption DEF Keys, Key

LEMMA KeyType ==
  ASSUME NEW m \in Messages
  PROVE  Key(m) \in Keys
BY DEF Keys

-----------------------------------------------------------------------------
(* A message is shown or left alone.                                       *)

LEMMA SaveShifts ==
  ASSUME TypeOK, NEW m \in Messages, Save(m)
  PROVE  /\ msghist' \in [Slots -> Maybe(Keys)] /\ msghist_idx' \in Slots
         /\ Window' = [a \in Slots |-> IF a = 0 THEN Key(m) ELSE Window[a-1]]
<1>1. /\ msghist_idx \in Slots /\ msghist_idx' = NextIdx(msghist_idx)
      /\ msghist' = [msghist EXCEPT ![msghist_idx] = Key(m)]
      /\ msghist \in [Slots -> Maybe(Keys)]
  BY DEF TypeOK, Save
<1>2. msghist' \in [Slots -> Maybe(Keys)] /\ msghist_idx' \in Slots
  BY <1>1, KeyType, SlotsAdvance DEF Maybe
<1>3. Window' = [a \in Slots |-> msghist'[SlotAt(msghist_idx', a)]]
  BY <1>2, SlotOfAge DEF Window
<1>4. ASSUME NEW a \in Slots
      PROVE  msghist'[SlotAt(msghist_idx', a)] = IF a = 0 THEN Key(m) ELSE Window[a-1]
  <2>1. CASE a = 0
    BY <1>1, <2>1, SlotsAdvance
  <2>2. CASE a # 0
    <3>1. a > 0 /\ a - 1 # K - 1
      BY <2>2, MsgReceiveAssumption DEF Slots
    <3>2. /\ a - 1 \in Slots
          /\ SlotAt(msghist_idx', a) = SlotAt(msghist_idx, a - 1)
      BY <1>1, <3>1, SlotsAdvance
    <3>3. SlotAt(msghist_idx, a - 1) \in Slots \ {msghist_idx}
      BY <1>1, <3>1, <3>2, SlotType
    <3>4. Window[a - 1] = msghist[SlotAt(msghist_idx, a - 1)]
      BY <1>1, <3>2, WindowWithoutModulus
    <3>5. QED
      BY <1>1, <2>2, <3>2, <3>3, <3>4
  <2>3. QED
    BY <2>1, <2>2
<1>5. QED
  BY <1>2, <1>3, <1>4

LEMMA FailureDisturbsOldest ==
  ASSUME TypeOK, NEW m \in Messages, SaveFails(m)
  PROVE  /\ msghist' \in [Slots -> Maybe(Keys)] /\ msghist_idx' \in Slots
         /\ \E old \in {None, Key(m)} : Window' = [Window EXCEPT ![K-1] = old]
         /\ msghist[msghist_idx] = Window[K-1]
<1>1. PICK old \in {None, Key(m)} : msghist' = [msghist EXCEPT ![msghist_idx] = old]
  BY DEF SaveFails, Maybe
<1>2. /\ msghist_idx \in Slots /\ msghist_idx' = msghist_idx
      /\ msghist \in [Slots -> Maybe(Keys)]
  BY DEF TypeOK, SaveFails
<1>3. msghist' \in [Slots -> Maybe(Keys)] /\ msghist_idx' \in Slots
  BY <1>1, <1>2, KeyType DEF Maybe
<1>4. /\ Window = [a \in Slots |-> msghist[SlotAt(msghist_idx, a)]]
      /\ Window' = [a \in Slots |-> msghist'[SlotAt(msghist_idx, a)]]
  BY <1>2, SlotOfAge DEF Window
<1>5. K - 1 \in Slots
  BY MsgReceiveAssumption DEF Slots
<1>6. ASSUME NEW a \in Slots
      PROVE  msghist'[SlotAt(msghist_idx, a)] = IF a = K - 1 THEN old ELSE Window[a]
  BY <1>1, <1>2, <1>4, SlotType
<1>7. Window' = [Window EXCEPT ![K-1] = old]
  BY <1>4, <1>6
<1>8. msghist[msghist_idx] = Window[K-1]
  BY <1>2, <1>4, <1>5, SlotType
<1>9. QED
  BY <1>3, <1>7, <1>8

\* A message is new if it stands nowhere in the window.
LEMMA NewByWindow ==
  ASSUME TypeOK, NEW m \in Messages
  PROVE  IsNew(m) <=> \A a \in Slots : Window[a] # Key(m)
<1>1. \A a \in Slots : /\ SlotAt(msghist_idx, a) \in Slots
                       /\ SlotAt(msghist_idx, SlotAt(msghist_idx, a)) = a
                       /\ Window[a] = msghist[SlotAt(msghist_idx, a)]
  BY SlotType, WindowWithoutModulus DEF TypeOK
<1>2. \A s \in Slots : msghist[s] = Window[SlotAt(msghist_idx, s)]
  BY <1>1
<1>3. QED
  BY <1>1, <1>2 DEF IsNew

HistoryOK ==
  /\ msghist \in [Slots -> Maybe(Keys)]
  /\ msghist_idx \in Slots
  /\ offered \in Maybe(Keys)
  /\ screen \in Maybe(Keys)
  /\ age \in [Keys -> 0 .. K]
  /\ forgot \subseteq Keys

WindowType == Window \in [Slots -> Maybe(Keys)]

LEMMA WindowTyped == TypeOK => WindowType
BY SlotType, WindowWithoutModulus DEF TypeOK, WindowType

LEMMA SavedMessage ==
  ASSUME IInv, NEW m \in Messages, IsNew(m), offered' = Key(m), screen' = Key(m), Save(m)
  PROVE  HistoryOK' /\ Recorded' /\ Fresh' /\ MW!Show(Key(m)) /\ age'[Key(m)] = 0
<1> DEFINE n == Key(m)
<1>1. n \in Keys /\ None \notin Keys
  BY KeyType, NoneIsNoKey
<1>2. /\ msghist' \in [Slots -> Maybe(Keys)] /\ msghist_idx' \in Slots
      /\ Window' = [a \in Slots |-> IF a = 0 THEN n ELSE Window[a-1]]
  BY SaveShifts DEF IInv
<1>3. /\ age \in [Keys -> 0 .. K] /\ forgot \subseteq Keys
      /\ age' = [k \in Keys |-> IF k = n THEN 0
                                ELSE IF age[k] = K THEN K ELSE age[k] + 1]
      /\ forgot' = forgot \ {n}
  BY DEF IInv, TypeOK, Save
<1>4. \A a \in Slots : Window[a] # n
  BY NewByWindow DEF IInv
<1>5. WindowType
  BY WindowTyped DEF IInv
<1> HIDE DEF n
<1>6. HistoryOK'
  BY <1>1, <1>2, <1>3, MsgReceiveAssumption DEF HistoryOK, n, Maybe
<1>7. Recorded'
  <2> SUFFICES ASSUME NEW a \in Slots, Window'[a] # None
               PROVE  age'[Window'[a]] <= a
    BY DEF Recorded
  <2>1. CASE a = 0
    BY <1>1, <1>2, <1>3, <2>1
  <2>2. CASE a # 0
    <3>1. a - 1 \in Slots /\ Window'[a] = Window[a - 1] /\ a \in Int /\ a < K /\ K \in Nat
      BY <1>2, <2>2, MsgReceiveAssumption DEF Slots
    <3>2. PICK k \in Keys : k = Window[a - 1]
      BY <1>5, <3>1 DEF WindowType, Maybe
    <3>3. k # n /\ age[k] <= a - 1
      BY <1>1, <1>4, <3>1, <3>2 DEF IInv, Recorded
    <3>4. age'[k] = age[k] + 1
      BY <1>3, <3>1, <3>3
    <3>5. QED
      BY <1>3, <3>1, <3>2, <3>3, <3>4
  <2>3. QED
    BY <2>1, <2>2
<1>8. Fresh'
  <2> SUFFICES ASSUME NEW k \in Keys \ forgot', age'[k] < K
               PROVE  Window'[age'[k]] = k
    BY DEF Fresh
  <2>1. CASE k = n
    BY <1>1, <1>2, <1>3, <2>1, MsgReceiveAssumption DEF Slots
  <2>2. CASE k # n
    <3>1. k \in Keys \ forgot /\ age[k] \in 0 .. K /\ age'[k] = age[k] + 1 /\ age[k] < K
      BY <1>3, <2>2, MsgReceiveAssumption
    <3>2. Window[age[k]] = k
      BY <3>1 DEF IInv, Fresh
    <3>3. age[k] + 1 \in Slots /\ age[k] + 1 # 0 /\ age[k] + 1 - 1 = age[k]
      BY <3>1, MsgReceiveAssumption DEF Slots
    <3>4. QED
      BY <1>2, <3>1, <3>2, <3>3
  <2>3. QED
    BY <2>1, <2>2
<1>9. MW!Show(n)
  BY <1>2, <1>3, <1>4 DEF MW!Show, MW!Remembered, MW!Ages, Slots, n
<1>10. QED
  BY <1>1, <1>3, <1>6, <1>7, <1>8, <1>9 DEF n

LEMMA UnsavedMessage ==
  ASSUME IInv, NEW m \in Messages, IsNew(m), offered' = Key(m), screen' = Key(m),
         SaveFails(m)
  PROVE  HistoryOK' /\ Recorded' /\ Fresh' /\ MW!ShowForgetful(Key(m))
         /\ age'[Key(m)] = 0
<1> DEFINE n == Key(m)
<1>1. n \in Keys /\ None \notin Keys
  BY KeyType, NoneIsNoKey
<1>2. /\ msghist' \in [Slots -> Maybe(Keys)] /\ msghist_idx' \in Slots
      /\ msghist[msghist_idx] = Window[K-1]
  BY FailureDisturbsOldest DEF IInv
<1>3. PICK old \in {None, n} : Window' = [Window EXCEPT ![K-1] = old]
  BY FailureDisturbsOldest DEF IInv
<1>4. /\ age \in [Keys -> 0 .. K] /\ forgot \subseteq Keys
      /\ age' = [age EXCEPT ![n] = 0]
      /\ forgot' = forgot \cup ({n, Window[K-1]} \ {None})
  BY <1>2 DEF IInv, TypeOK, SaveFails
<1>5. \A a \in Slots : Window[a] # n
  BY NewByWindow DEF IInv
<1>6. Window \in [Slots -> Maybe(Keys)] /\ K - 1 \in Slots
  BY WindowTyped, MsgReceiveAssumption DEF IInv, WindowType, Slots
<1> HIDE DEF n
<1>7. HistoryOK'
  BY <1>1, <1>2, <1>4, <1>6, MsgReceiveAssumption DEF HistoryOK, n, Maybe
<1>8. Recorded'
  <2> SUFFICES ASSUME NEW a \in Slots, Window'[a] # None
               PROVE  age'[Window'[a]] <= a
    BY DEF Recorded
  <2>1. CASE Window'[a] = n
    BY <1>1, <1>4, <2>1 DEF Slots
  <2>2. CASE Window'[a] # n
    <3>1. Window'[a] = Window[a] /\ Window[a] \in Keys
      BY <1>3, <1>6, <2>2 DEF Maybe
    <3>2. QED
      BY <1>4, <2>2, <3>1 DEF IInv, Recorded
  <2>3. QED
    BY <2>1, <2>2
<1>9. Fresh'
  <2> SUFFICES ASSUME NEW k \in Keys \ forgot', age'[k] < K
               PROVE  Window'[age'[k]] = k
    BY DEF Fresh
  <2>1. k \in Keys \ forgot /\ k # n /\ k # Window[K-1] /\ age'[k] = age[k]
    BY <1>1, <1>4
  <2>2. Window[age[k]] = k /\ age[k] \in Slots
    BY <1>4, <2>1, MsgReceiveAssumption DEF IInv, Fresh, Slots
  <2>3. QED
    BY <1>3, <1>6, <2>1, <2>2
<1>10. MW!ShowForgetful(n)
  <2>1. \A a \in MW!Ages : Window[a] # n
    BY <1>5 DEF MW!Ages, Slots
  <2>2. QED
    BY <1>3, <1>4, <2>1 DEF MW!ShowForgetful, MW!Remembered, n
<1>11. QED
  BY <1>1, <1>4, <1>7, <1>8, <1>9, <1>10 DEF n

\* What is shown a second time is old, or its record was lost.
ShownIsOld == \A k \in Keys : screen' = k => age[k] = K \/ k \in forgot

LEMMA DisplayStep ==
  ASSUME IInv, NEW m \in Maybe(Messages), DisplayMessage(m)
  PROVE  /\ HistoryOK' /\ Recorded' /\ Fresh'
         /\ [MW!MWNext]_(MW!mwvars)
         /\ ShownIsOld
         /\ m # None => screen' = Key(m) \/ age'[Key(m)] < K
<1>1. None \notin Keys /\ None \notin Messages
  BY NoneIsNoKey
<1>2. ASSUME m # None, IsNew(m)
      PROVE  /\ HistoryOK' /\ Recorded' /\ Fresh' /\ screen' = Key(m)
             /\ [MW!MWNext]_(MW!mwvars) /\ ShownIsOld
  <2>1. /\ m \in Messages /\ offered' = Key(m) /\ screen' = Key(m)
        /\ Save(m) \/ SaveFails(m)
    BY <1>2 DEF Maybe, DisplayMessage, ShowAndSave
  <2>2. Key(m) \in Keys
    BY <2>1, KeyType
  <2>3. /\ HistoryOK' /\ Recorded' /\ Fresh'
        /\ MW!Show(Key(m)) \/ MW!ShowForgetful(Key(m))
    BY <1>2, <2>1, SavedMessage, UnsavedMessage
  <2>4. Key(m) \in forgot \/ age[Key(m)] = K
    <3>1. \A a \in Slots : Window[a] # Key(m)
      BY <1>2, <2>1, NewByWindow DEF IInv
    <3>2. age[Key(m)] \in 0 .. K /\ (age[Key(m)] < K => age[Key(m)] \in Slots)
      BY <2>2, MsgReceiveAssumption DEF IInv, TypeOK, Slots
    <3>3. QED
      BY <2>2, <3>1, <3>2, MsgReceiveAssumption DEF IInv, Fresh
  <2>5. QED
    BY <2>1, <2>2, <2>3, <2>4 DEF MW!MWNext, ShownIsOld
<1>3. ASSUME ~(m # None /\ IsNew(m))
      PROVE  /\ HistoryOK' /\ Recorded' /\ Fresh' /\ [MW!MWNext]_(MW!mwvars)
             /\ ShownIsOld
             /\ m # None => age'[Key(m)] < K
  <2>1. screen' = None /\ UNCHANGED <<msghist, msghist_idx, age, forgot>>
    BY <1>3 DEF DisplayMessage, LeaveAlone
  <2>2. Window' = Window
    BY <2>1 DEF Window
  <2>0. offered' = (IF m = None THEN None ELSE Key(m)) /\ offered' \in Maybe(Keys)
    BY KeyType DEF DisplayMessage, Maybe
  <2>3. HistoryOK' /\ Recorded' /\ Fresh'
    BY <2>0, <2>1, <2>2 DEF IInv, TypeOK, HistoryOK, Recorded, Fresh, Maybe
  <2>4. m # None => age'[Key(m)] < K
    <3>1. SUFFICES ASSUME m # None
                   PROVE  age[Key(m)] < K
      BY <2>1
    <3>2. m \in Messages
      BY <3>1 DEF Maybe
    <3>3. PICK a \in Slots : Window[a] = Key(m)
      BY <1>3, <3>1, <3>2, NewByWindow DEF IInv
    <3>4. age[Key(m)] <= a /\ age[Key(m)] \in 0 .. K
      BY <1>1, <3>2, <3>3, KeyType DEF IInv, Recorded, TypeOK
    <3>5. QED
      BY <3>4, MsgReceiveAssumption DEF Slots
  <2>5. MW!MWNext
    <3>1. CASE m = None
      BY <2>0, <2>1, <2>2, <3>1 DEF MW!MWNext, MW!ShowNothing
    <3>2. CASE m # None
      <4>1. m \in Messages /\ Key(m) \in Keys
        BY <3>2, KeyType DEF Maybe
      <4>2. \E a \in Slots : Window[a] = Key(m)
        BY <1>3, <3>2, <4>1, NewByWindow DEF IInv
      <4>3. MW!HoldBack(Key(m))
        BY <2>0, <2>1, <2>2, <3>2, <4>2
           DEF MW!HoldBack, MW!Remembered, MW!Ages, Slots
      <4>4. QED
        BY <4>1, <4>3 DEF MW!MWNext
    <3>3. QED
      BY <3>1, <3>2
  <2>6. ShownIsOld
    BY <1>1, <2>1 DEF ShownIsOld
  <2>7. QED
    BY <2>3, <2>4, <2>5, <2>6
<1>4. QED
  BY <1>2, <1>3

LEMMA QuietStep ==
  ASSUME IInv, ShowNothing
  PROVE  /\ HistoryOK' /\ Recorded' /\ Fresh'
         /\ [MW!MWNext]_(MW!mwvars)
         /\ ShownIsOld
<1>1. DisplayMessage(None) /\ None \in Maybe(Messages)
  BY DEF DisplayMessage, ShowNothing, Maybe
<1>2. QED
  BY <1>1, DisplayStep

-----------------------------------------------------------------------------
(* The invariant.                                                          *)

LEMMA InitWindow == Init => Window = [a \in Slots |-> None]
<1> SUFFICES ASSUME Init
             PROVE  Window = [a \in Slots |-> None]
  OBVIOUS
<1>1. msghist_idx \in Slots /\ msghist = [s \in Slots |-> None]
  BY MsgReceiveAssumption DEF Init, Slots
<1>2. QED
  BY <1>1, SlotType, WindowWithoutModulus

LEMMA InitIInv == Init => IInv
<1> SUFFICES ASSUME Init
             PROVE  IInv
  OBVIOUS
<1>1. TypeOK
  <2>1. 0 \in Slots /\ K \in 0 .. K
    BY MsgReceiveAssumption DEF Slots
  <2>2. msghist \in [Slots -> Maybe(Keys)] /\ msghist_idx \in Slots
    BY <2>1 DEF Init, Maybe
  <2>3. age \in [Keys -> 0 .. K] /\ forgot \subseteq Keys
    BY <2>1 DEF Init
  <2>4. picked \in BOOLEAN /\ kept \in [Calls -> Maybe(Messages)]
    BY DEF Init, Maybe
  <2>5. /\ last \in Maybe(Calls) /\ ack \in Maybe(Messages)
        /\ offered \in Maybe(Keys) /\ screen \in Maybe(Keys)
    BY DEF Init, Maybe
  <2>6. QED
    BY <2>2, <2>3, <2>4, <2>5 DEF TypeOK
<1>2. Recorded
  BY InitWindow DEF Recorded
<1>3. Fresh
  BY MsgReceiveAssumption DEF Init, Fresh
<1>4. AckedIsShown
  BY DEF Init, AckedIsShown
<1>5. QED
  BY <1>1, <1>2, <1>3, <1>4 DEF IInv

\* What every step does, to the history and to the rest.
StepOK ==
  /\ IInv'
  /\ [MW!MWNext]_(MW!mwvars)
  /\ ShownIsOld

LEMMA KeptType ==
  ASSUME TypeOK, NEW c \in Calls
  PROVE  kept[c] \in Maybe(Messages)
BY DEF TypeOK

LEMMA HearStep ==
  ASSUME IInv, NEW p \in Packets, Hear(p)
  PROVE  StepOK
<1>1. /\ p.from \in Calls /\ p.msg \in Maybe(Messages)
      /\ p.direct => p.msg # None
  BY DEF Packets
<1>2. IF ~picked THEN DisplayMessage(p.msg) ELSE ShowNothing
  BY DEF Hear, Looking
<1>3. HistoryOK' /\ Recorded' /\ Fresh' /\ [MW!MWNext]_(MW!mwvars) /\ ShownIsOld
  BY <1>1, <1>2, DisplayStep, QuietStep
<1>4. /\ picked' = picked /\ picked' \in BOOLEAN
      /\ last' \in Maybe(Calls)
      /\ ack' \in Maybe(Messages)
      /\ ack' # None => ack' = p.msg
  BY <1>1 DEF Hear, IInv, TypeOK, Maybe
<1>5. kept' \in [Calls -> Maybe(Messages)]
  BY <1>1 DEF Hear, IInv, TypeOK, Maybe
<1>6. TypeOK'
  BY <1>3, <1>4, <1>5 DEF TypeOK, HistoryOK
<1>7. AckedIsShown'
  <2> SUFFICES ASSUME ack' # None, ~picked'
               PROVE  screen' = Key(ack') \/ age'[Key(ack')] < K
    BY DEF AckedIsShown, Key
  <2>1. ack' = p.msg /\ p.msg # None /\ DisplayMessage(p.msg)
    BY <1>2, <1>4
  <2>2. screen' = Key(p.msg) \/ age'[Key(p.msg)] < K
    BY <1>1, <2>1, DisplayStep
  <2>3. QED
    BY <2>1, <2>2
<1>8. QED
  BY <1>3, <1>6, <1>7 DEF StepOK, IInv

\* A choice of the user acks nothing.
LEMMA ChoiceStep ==
  ASSUME IInv, NEW m \in Maybe(Messages), DisplayMessage(m),
         picked' \in BOOLEAN, ack' = None, UNCHANGED <<last, kept>>
  PROVE  StepOK
<1>1. HistoryOK' /\ Recorded' /\ Fresh' /\ [MW!MWNext]_(MW!mwvars) /\ ShownIsOld
  BY DisplayStep
<1>2. TypeOK'
  BY <1>1 DEF IInv, TypeOK, HistoryOK, Maybe
<1>3. AckedIsShown'
  BY DEF AckedIsShown
<1>4. QED
  BY <1>1, <1>2, <1>3 DEF StepOK, IInv

LEMMA NextStep ==
  ASSUME IInv, Next
  PROVE  StepOK
<1>1. ASSUME NEW p \in Packets, Hear(p)
      PROVE  StepOK
  BY <1>1, HearStep
<1>2. ASSUME NEW c \in Calls, Pick(c)
      PROVE  StepOK
  <2>1. kept[c] \in Maybe(Messages)
    BY KeptType DEF IInv
  <2>2. /\ DisplayMessage(kept[c]) /\ picked' \in BOOLEAN
        /\ ack' = None /\ UNCHANGED <<last, kept>>
    BY <1>2 DEF Pick
  <2>3. QED
    BY <2>1, <2>2, ChoiceStep
<1>3. CASE PickEmpty
  <2>1. DisplayMessage(None) /\ None \in Maybe(Messages)
    BY <1>3 DEF PickEmpty, DisplayMessage, ShowNothing, Maybe
  <2>2. QED
    BY <1>3, <2>1, ChoiceStep DEF PickEmpty
<1>4. CASE PickLast
  <2> DEFINE m == IF last = None THEN None ELSE kept[last]
  <2>1. m \in Maybe(Messages)
    <3>1. CASE last = None
      BY <3>1 DEF Maybe
    <3>2. CASE last # None
      BY <3>2, KeptType DEF IInv, TypeOK, Maybe
    <3>3. QED
      BY <3>1, <3>2
  <2>2. /\ DisplayMessage(m) /\ picked' \in BOOLEAN
        /\ ack' = None /\ UNCHANGED <<last, kept>>
    BY <1>4 DEF PickLast
  <2> HIDE DEF m
  <2>3. QED
    BY <2>1, <2>2, ChoiceStep
<1>5. QED
  BY <1>1, <1>2, <1>3, <1>4 DEF Next

LEMMA StutterStep ==
  ASSUME IInv, UNCHANGED vars
  PROVE  IInv' /\ UNCHANGED MW!mwvars
<1>1. Window' = Window /\ UNCHANGED vars
  BY DEF Window, vars
<1>2. TypeOK'
  BY <1>1 DEF IInv, TypeOK, vars, Maybe
<1>3. Recorded' /\ Fresh'
  BY <1>1 DEF IInv, Recorded, Fresh, vars
<1>4. AckedIsShown'
  BY <1>1 DEF IInv, AckedIsShown, vars, Key
<1>5. UNCHANGED MW!mwvars
  BY <1>1 DEF MW!mwvars, vars
<1>6. QED
  BY <1>2, <1>3, <1>4, <1>5 DEF IInv

-----------------------------------------------------------------------------
(* The theorems.                                                           *)

\* A message that is remembered is as old as its place says, and a recent
\* one is remembered unless short memory has cost its record.
THEOREM Invariance == Spec => []IInv
<1>1. IInv /\ [Next]_vars => IInv'
  BY NextStep, StutterStep DEF StepOK
<1>2. QED
  BY InitIInv, <1>1, PTL DEF Spec

\* The index stays inside the ring and the ring holds messages.
THEOREM TypeCorrect == Spec => []TypeOK
<1>1. IInv => TypeOK
  BY DEF IInv
<1>2. QED
  BY Invariance, <1>1, PTL

\* handle_aprsMessages acks a message before display_packet is reached: it
\* is nevertheless on the screen or remembered as shown in the same step.
THEOREM AckedAreShown == Spec => []AckedIsShown
<1>1. IInv => AckedIsShown
  BY DEF IInv
<1>2. QED
  BY Invariance, <1>1, PTL

\* isnewmessage and save_message show a message again only after K others,
\* or when its record was lost to a failed allocation.
THEOREM RepeatsOnlyWhenOld == Spec => RepeatsAreOld
<1>1. IInv /\ [Next]_vars
      => [\A k \in Keys : screen' = k => age[k] = K \/ k \in forgot]_vars
  BY NextStep DEF StepOK, ShownIsOld
<1>2. QED
  BY Invariance, <1>1, PTL DEF Spec, RepeatsAreOld

\* The ring with its index behaves as the window of the last K messages: one
\* that stands in it is held back, any other is shown.
THEOREM RingImplementsWindow == Spec => ImplementsWindow
<1>1. Init => MW!MWInit
  BY InitWindow DEF Init, MW!MWInit, MW!Ages, Slots
<1>2. IInv /\ [Next]_vars => [MW!MWNext]_(MW!mwvars)
  BY NextStep, StutterStep DEF StepOK
<1>3. QED
  BY Invariance, <1>1, <1>2, PTL DEF Spec, ImplementsWindow, MW!MWSpec
=============================================================================
