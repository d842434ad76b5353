--------------------------- MODULE AckRetryProofs ---------------------------
(* Proofs about AckRetry, for every number of slots, retries, messages and *)
(* descriptors, with and without failing allocations.                      *)
EXTENDS AckRetry, FiniteSetTheorems, TLAPS

\* A used slot holds the latest number that maps to it.
SlotNumbers ==
  /\ \A s \in Slots :
       /\ ackout[s].ack_msgid <= ack_msgid
       /\ ackout[s].ack_msgid > 0 => ackout[s].ack_msgid % N = s
       /\ ackout[s].needs_ack => ackout[s].ack_msgid > 0
  /\ \A k \in 1 .. ack_msgid : ackout[k % N].ack_msgid >= k

\* A number not used yet has not been sent or heard; a waiting one has been
\* sent at most once more than its slot has counted.
SentCounts ==
  /\ \A k \in Ids : k > ack_msgid => tx[k] = 0 /\ k \notin heard
  /\ \A s \in Slots : ackout[s].needs_ack =>
       tx[ackout[s].ack_msgid] <= ackout[s].ack_retry_count + 1

IInv ==
  /\ TypeOK
  /\ SlotNumbers
  /\ SentCounts
  /\ TimersOwned
  /\ CountCoversWaiting
  /\ TransmissionsBounded
  /\ EarlyAckStops

-----------------------------------------------------------------------------
(* Numbers and slots.                                                      *)

LEMMA SlotOfNumber ==
  ASSUME NEW k \in Nat
  PROVE  /\ k % N \in Slots
         /\ k < N => k % N = k
BY AckRetryAssumption DEF Slots

(* How the set of waiting slots changes under the three ways to write it.  *)

LEMMA WaitingFinite ==
  ASSUME NEW S \in SUBSET Slots
  PROVE  IsFiniteSet(S) /\ Cardinality(S) \in Nat
<1>1. IsFiniteSet(Slots)
  BY AckRetryAssumption, FS_Interval DEF Slots
<1>2. QED
  BY <1>1, FS_Subset, FS_CardinalityType

LEMMA WaitingGrows ==
  ASSUME NEW S \in SUBSET Slots, NEW T \in SUBSET Slots, NEW x \in Slots,
         T \subseteq S \cup {x}
  PROVE  Cardinality(T) <= Cardinality(S) + 1
<1>1. IsFiniteSet(S \cup {x}) /\ Cardinality(S \cup {x}) <= Cardinality(S) + 1
  BY WaitingFinite, FS_AddElement
<1>2. Cardinality(T) <= Cardinality(S \cup {x})
  BY <1>1, FS_Subset
<1>3. Cardinality(S \cup {x}) \in Nat
  BY <1>1, FS_CardinalityType
<1>4. QED
  BY <1>1, <1>2, <1>3, WaitingFinite

LEMMA WaitingShrinks ==
  ASSUME NEW S \in SUBSET Slots, NEW x \in S
  PROVE  Cardinality(S \ {x}) = Cardinality(S) - 1
BY WaitingFinite, FS_RemoveElement

-----------------------------------------------------------------------------
LEMMA InitIInv == Init => IInv
<1> SUFFICES ASSUME Init PROVE IInv
  OBVIOUS
<1>1. TypeOK
  <2>1. 0 \in Slots /\ 0 \in Fds /\ 0 \in 0 .. MaxRetry /\ 0 \in 0 .. MaxId
    BY AckRetryAssumption DEF Slots, Fds
  <2>2. ackout \in [Slots -> AckOutstand]
    BY <2>1 DEF Init, ZeroAckOutstand, AckOutstand
  <2>3. fdtab \in [Fds -> FdState]
    BY DEF Init, FreshFds, FdState
  <2>4. tx \in [Ids -> Nat] /\ outstanding \in Int
    BY DEF Init
  <2>5. message_ack \in BOOLEAN /\ restarted \in BOOLEAN
    BY DEF Init
  <2>6. fds \subseteq Fds /\ heard \subseteq Ids
    BY DEF Init
  <2>7. ack_msgid \in 0 .. MaxId /\ i \in Slots
       /\ pc \in {"select", "tnc", "dsp", "timers", "dead"}
    BY <2>1 DEF Init
  <2>8. QED
    BY <2>2, <2>3, <2>4, <2>5, <2>6, <2>7 DEF TypeOK
<1>2. SlotNumbers /\ SentCounts /\ TimersOwned /\ TransmissionsBounded /\ EarlyAckStops
  BY AckRetryAssumption DEF Init, ZeroAckOutstand, SlotNumbers, SentCounts,
     TimersOwned, TransmissionsBounded, EarlyAckStops, Slots, Ids
<1>3. CountCoversWaiting
  <2>1. Waiting = {}
    BY DEF Init, ZeroAckOutstand, Waiting, Slots
  <2>2. QED
    BY <2>1, FS_EmptySet DEF Init, CountCoversWaiting
<1>4. QED
  BY <1>1, <1>2, <1>3 DEF IInv

-----------------------------------------------------------------------------
(* The steps that touch neither the table nor the descriptors.             *)

LEMMA QuietStep ==
  ASSUME IInv, TypeOK', pc # "dead",
         UNCHANGED <<ackout, ack_msgid, outstanding, fdtab, tx, heard>>
  PROVE  IInv'
<1>1. SlotNumbers' /\ SentCounts'
  BY DEF IInv, SlotNumbers, SentCounts
<1>2. TimersOwned' /\ TransmissionsBounded'
  BY DEF IInv, TimersOwned, TransmissionsBounded
<1>3. CountCoversWaiting'
  <2>1. Waiting' = Waiting
    BY DEF Waiting
  <2>2. QED
    BY <2>1 DEF IInv, CountCoversWaiting
<1>4. EarlyAckStops'
  BY DEF IInv, EarlyAckStops, Pending
<1>5. QED
  BY <1>1, <1>2, <1>3, <1>4 DEF IInv

LEMMA NextSlotType ==
  ASSUME TypeOK, NextSlot
  PROVE  i' \in Slots /\ fds' \subseteq Fds /\ AfterSlot \in {"select", "timers"}
<1>1. i + 1 \in Nat
  BY AckRetryAssumption DEF TypeOK, Slots
<1>2. i' \in Slots
  BY <1>1, SlotOfNumber DEF NextSlot
<1>3. QED
  BY <1>2 DEF TypeOK, NextSlot, AfterSlot

LEMMA SelectStep == IInv /\ Select => IInv'
<1> SUFFICES ASSUME IInv, Select PROVE IInv'
  OBVIOUS
<1>1. SlotFds \subseteq Fds
  BY DEF IInv, TypeOK, SlotFds, AckOutstand
<1>2. fds' \subseteq Fds
  BY <1>1 DEF Select
<1>3. TypeOK'
  BY <1>2 DEF IInv, TypeOK, Select
<1>4. QED
  BY <1>3, QuietStep DEF Select

LEMMA NoAckStep == IInv /\ NoAck => IInv'
<1> SUFFICES ASSUME IInv, NoAck PROVE IInv'
  OBVIOUS
<1>1. TypeOK'
  BY DEF IInv, TypeOK, NoAck
<1>2. QED
  BY <1>1, QuietStep DEF NoAck

LEMMA SetConfigStep == IInv /\ SetConfig => IInv'
<1> SUFFICES ASSUME IInv, SetConfig PROVE IInv'
  OBVIOUS
<1>1. TypeOK'
  BY DEF IInv, TypeOK, SetConfig
<1>2. QED
  BY <1>1, QuietStep DEF SetConfig

LEMMA SkipTimersStep == IInv /\ SkipTimers => IInv'
<1> SUFFICES ASSUME IInv, SkipTimers PROVE IInv'
  OBVIOUS
<1>1. TypeOK'
  BY DEF IInv, TypeOK, SkipTimers
<1>2. QED
  BY <1>1, QuietStep DEF SkipTimers

LEMMA PassSlotStep == IInv /\ PassSlot => IInv'
<1> SUFFICES ASSUME IInv, PassSlot PROVE IInv'
  OBVIOUS
<1>1. TypeOK'
  BY NextSlotType DEF IInv, TypeOK, PassSlot
<1>2. QED
  BY <1>1, QuietStep DEF PassSlot, InTimers

-----------------------------------------------------------------------------
(* Sending, acking, resending and giving up.                               *)

LEMMA ClearType ==
  ASSUME TypeOK, NEW s \in Slots, NEW next, ClearAckRequest(s, next)
  PROVE  /\ ackout' \in [Slots -> AckOutstand]
         /\ fdtab' \in [Fds -> FdState]
         /\ outstanding' \in Int
         /\ pc' \in {next, "dead"}
<1>1. CASE UNCHANGED <<ackout, fdtab, outstanding>> /\ pc' = "dead"
  BY <1>1 DEF TypeOK
<1>2. CASE /\ ackout' = [ackout EXCEPT ![s].needs_ack = FALSE,
                           ![s].timer_fd = 0, ![s].itimerspec = "freed"]
           /\ fdtab' = [fdtab EXCEPT ![ackout[s].timer_fd] = "free"]
           /\ outstanding' = outstanding - 1
           /\ pc' = next
  <2>1. ackout[s] \in AckOutstand /\ 0 \in Fds
    BY AckRetryAssumption DEF TypeOK, Fds
  <2>2. ackout' \in [Slots -> AckOutstand]
    BY <1>2, <2>1 DEF TypeOK, AckOutstand
  <2>3. fdtab' \in [Fds -> FdState]
    BY <1>2, <2>1 DEF TypeOK, AckOutstand, FdState
  <2>4. QED
    BY <1>2, <2>2, <2>3 DEF TypeOK
<1>3. QED
  BY <1>1, <1>2 DEF ClearAckRequest

\* Clearing a slot that waits keeps the parts of the invariant that speak of
\* the table: the closed descriptor is no other slot's.
LEMMA ClearKeeps ==
  ASSUME IInv, NEW s \in Waiting, NEW next, ClearAckRequest(s, next),
         UNCHANGED <<ack_msgid, tx>>
  PROVE  /\ TimersOwned'
         /\ CountCoversWaiting'
         /\ SlotNumbers'
         /\ \A t \in Slots : ackout'[t].needs_ack =>
              /\ ackout[t].needs_ack
              /\ ackout'[t] = ackout[t]
<1>0. s \in Slots /\ ackout \in [Slots -> AckOutstand] /\ fdtab \in [Fds -> FdState]
  BY DEF Waiting, IInv, TypeOK
<1>1. CASE UNCHANGED <<ackout, fdtab, outstanding>>
  <2>1. Waiting' = Waiting
    BY <1>1 DEF Waiting
  <2>2. TimersOwned' /\ SlotNumbers'
    BY <1>1 DEF IInv, TimersOwned, SlotNumbers
  <2>3. QED
    BY <1>1, <2>1, <2>2 DEF IInv, CountCoversWaiting
<1>2. CASE /\ ackout' = [ackout EXCEPT ![s].needs_ack = FALSE,
                           ![s].timer_fd = 0, ![s].itimerspec = "freed"]
           /\ fdtab' = [fdtab EXCEPT ![ackout[s].timer_fd] = "free"]
           /\ outstanding' = outstanding - 1
  <2>1. \A t \in Slots \ {s} : ackout'[t] = ackout[t]
    BY <1>0, <1>2
  <2>2. /\ ackout'[s].needs_ack = FALSE
        /\ ackout'[s].timer_fd = 0
        /\ ackout'[s].ack_msgid = ackout[s].ack_msgid
    BY <1>0, <1>2 DEF AckOutstand
  <2>3. TimersOwned'
    <3> SUFFICES ASSUME NEW t \in Slots, ackout'[t].timer_fd > 0
                 PROVE  /\ ackout'[t].needs_ack
                        /\ ackout'[t].itimerspec = "live"
                        /\ fdtab'[ackout'[t].timer_fd] \in {"armed", "expired"}
                        /\ \A u \in Slots \ {t} :
                             ackout'[u].timer_fd # ackout'[t].timer_fd
      BY DEF TimersOwned
    <3>1. t # s /\ ackout'[t] = ackout[t]
      BY <2>1, <2>2
    <3>2. ackout[t].timer_fd # ackout[s].timer_fd
      BY <1>0, <3>1 DEF IInv, TimersOwned
    <3>3. fdtab'[ackout[t].timer_fd] = fdtab[ackout[t].timer_fd]
      BY <1>0, <1>2, <3>2
    <3>4. QED
      BY <1>0, <2>1, <2>2, <3>1, <3>3 DEF IInv, TimersOwned
  <2>4. Waiting' = Waiting \ {s}
    BY <2>1, <2>2 DEF Waiting
  <2>5. CountCoversWaiting'
    <3>1. Waiting \subseteq Slots
      BY DEF Waiting
    <3>2. Cardinality(Waiting') = Cardinality(Waiting) - 1
      BY <2>4, <3>1, WaitingShrinks
    <3>3. QED
      BY <1>2, <3>1, <3>2, WaitingFinite DEF IInv, TypeOK, CountCoversWaiting
  <2>6. \A t \in Slots : ackout'[t].ack_msgid = ackout[t].ack_msgid
    BY <2>1, <2>2
  <2>7. SlotNumbers'
    <3>1. \A k \in 1 .. ack_msgid : k % N \in Slots
      BY SlotOfNumber DEF IInv, TypeOK
    <3>2. QED
      BY <2>1, <2>2, <2>6, <3>1 DEF IInv, SlotNumbers
  <2>8. QED
    BY <2>1, <2>2, <2>3, <2>5, <2>7
<1>3. QED
  BY <1>1, <1>2 DEF ClearAckRequest

LEMMA RecvAckStep == IInv /\ (\E k \in Ids : RecvAck(k)) => IInv'
<1> SUFFICES ASSUME IInv, NEW k \in Ids, RecvAck(k) PROVE IInv'
  OBVIOUS
<1> DEFINE s == k % N
<1>1. k \in Nat /\ s \in Slots
  BY SlotOfNumber DEF Ids
<1>2. \A n \in Ids : n % N \in Slots
  BY SlotOfNumber DEF Ids
<1>3. heard' \subseteq Ids /\ TransmissionsBounded'
      /\ \A n \in Ids : n > ack_msgid => tx[n] = 0 /\ n \notin heard'
  BY DEF RecvAck, IInv, TypeOK, SentCounts, TransmissionsBounded
<1>4. CASE ~AckMatches(s)
  <2>1. UNCHANGED <<ackout, fdtab, outstanding>> /\ pc' = "dsp" /\ pc = "tnc"
    BY <1>4 DEF RecvAck, AckSlot
  <2>2. TypeOK'
    BY <1>3, <2>1 DEF IInv, TypeOK, RecvAck
  <2>3. SlotNumbers' /\ TimersOwned' /\ SentCounts'
    BY <1>3, <2>1 DEF IInv, SlotNumbers, TimersOwned, SentCounts, RecvAck
  <2>4. CountCoversWaiting'
    BY <2>1 DEF IInv, CountCoversWaiting, Waiting
  <2>5. EarlyAckStops'
    <3> SUFFICES ASSUME NEW n \in heard', n < N, Pending(n)' PROVE FALSE
      BY DEF EarlyAckStops
    <3>1. Pending(n)
      BY <2>1 DEF Pending
    <3>2. n = k
      BY <3>1 DEF IInv, EarlyAckStops, RecvAck
    <3>3. s = n
      BY <1>1, <3>2, SlotOfNumber
    <3>4. QED
      BY <1>4, <3>1, <3>2, <3>3 DEF Pending, AckMatches
  <2>6. QED
    BY <1>3, <2>2, <2>3, <2>4, <2>5 DEF IInv
<1>5. CASE AckMatches(s)
  <2>1. s \in Waiting /\ ClearAckRequest(s, "dsp") /\ pc = "tnc"
    BY <1>1, <1>5 DEF RecvAck, AckSlot, AckMatches, Waiting
  <2>2. TypeOK'
    BY <1>1, <1>3, <2>1, ClearType DEF IInv, TypeOK, RecvAck
  <2>3. /\ TimersOwned' /\ CountCoversWaiting' /\ SlotNumbers'
        /\ \A t \in Slots : ackout'[t].needs_ack =>
              ackout[t].needs_ack /\ ackout'[t] = ackout[t]
    BY <2>1, ClearKeeps DEF RecvAck
  <2>4. SentCounts'
    BY <1>3, <2>3 DEF IInv, SentCounts, RecvAck
  <2>5. EarlyAckStops'
    <3> SUFFICES ASSUME NEW n \in heard', n < N, Pending(n)' PROVE FALSE
      BY DEF EarlyAckStops
    <3>1. n \in Ids /\ n % N \in Slots
      BY <1>2, <1>3
    <3>2. Pending(n) /\ ackout'[n % N].needs_ack /\ pc' # "dead"
      BY <2>1, <2>3, <3>1 DEF Pending
    <3>3. n = k
      BY <3>2 DEF IInv, EarlyAckStops, RecvAck
    <3>4. ~ackout'[s].needs_ack
      BY <1>1, <2>1, <3>2 DEF ClearAckRequest, IInv, TypeOK, AckOutstand
    <3>5. QED
      BY <3>2, <3>3, <3>4
  <2>6. QED
    BY <1>3, <2>2, <2>3, <2>4, <2>5 DEF IInv
<1>6. QED
  BY <1>4, <1>5

LEMMA GiveUpStep == IInv /\ GiveUp => IInv'
<1> SUFFICES ASSUME IInv, GiveUp PROVE IInv'
  OBVIOUS
<1>1. i \in Waiting /\ i \in Slots
  BY DEF GiveUp, TimerBit, IInv, TypeOK, TimersOwned, Waiting
<1>2. ClearAckRequest(i, AfterSlot) /\ pc = "timers"
  BY DEF GiveUp, InTimers
<1>3. TypeOK'
  BY <1>1, <1>2, ClearType, NextSlotType DEF IInv, TypeOK, GiveUp
<1>4. /\ TimersOwned' /\ CountCoversWaiting' /\ SlotNumbers'
      /\ \A t \in Slots : ackout'[t].needs_ack =>
            ackout[t].needs_ack /\ ackout'[t] = ackout[t]
  BY <1>1, <1>2, ClearKeeps DEF GiveUp
<1>5. SentCounts' /\ TransmissionsBounded'
  BY <1>4 DEF IInv, SentCounts, TransmissionsBounded, GiveUp
<1>6. EarlyAckStops'
  <2>1. \A n \in Ids : n % N \in Slots
    BY SlotOfNumber DEF Ids
  <2>2. \A n \in Ids : Pending(n)' => Pending(n)
    BY <1>2, <1>4, <2>1 DEF Pending
  <2>3. QED
    BY <2>2 DEF IInv, TypeOK, EarlyAckStops, GiveUp
<1>7. QED
  BY <1>3, <1>4, <1>5, <1>6 DEF IInv

LEMMA ResendStep == IInv /\ Resend => IInv'
<1> SUFFICES ASSUME IInv, Resend PROVE IInv'
  OBVIOUS
<1> DEFINE k == ackout[i].ack_msgid
<1>1. /\ i \in Slots /\ ackout[i].timer_fd > 0 /\ ackout[i].needs_ack
      /\ ackout[i] \in AckOutstand /\ ackout[i].ack_retry_count < MaxRetry
  BY DEF Resend, TimerBit, RetriesLeft, IInv, TypeOK, TimersOwned
<1>2. k \in Ids /\ k <= ack_msgid /\ k % N = i
  BY <1>1 DEF IInv, SlotNumbers, AckOutstand, Ids
<1>3. ackout[i].ack_retry_count \in Nat /\ ackout[i].ack_retry_count + 1 \in 0 .. MaxRetry
  BY <1>1, AckRetryAssumption DEF AckOutstand
<1>4. tx' = [tx EXCEPT ![k] = @ + 1] /\ tx' \in [Ids -> Nat] /\ tx'[k] = tx[k] + 1
  BY <1>2 DEF Resend, IInv, TypeOK
<1>5. /\ ackout' \in [Slots -> AckOutstand]
      /\ ackout'[i].ack_retry_count = ackout[i].ack_retry_count + 1
      /\ \A t \in Slots \ {i} : ackout'[t] = ackout[t]
      /\ \A t \in Slots : /\ ackout'[t].needs_ack = ackout[t].needs_ack
                          /\ ackout'[t].ack_msgid = ackout[t].ack_msgid
                          /\ ackout'[t].timer_fd = ackout[t].timer_fd
                          /\ ackout'[t].itimerspec = ackout[t].itimerspec
  BY <1>1, <1>3 DEF Resend, IInv, TypeOK, AckOutstand
<1>6. fdtab' \in [Fds -> FdState]
      /\ \A f \in Fds : fdtab[f] \in {"armed", "expired"} =>
                          fdtab'[f] \in {"armed", "expired"}
  BY <1>1 DEF Resend, IInv, TypeOK, AckOutstand, FdState
<1>7. TypeOK'
  BY <1>4, <1>5, <1>6, NextSlotType DEF IInv, TypeOK, Resend
<1>8. SlotNumbers'
  <2>1. \A n \in 1 .. ack_msgid : n % N \in Slots
    BY SlotOfNumber DEF IInv, TypeOK
  <2>2. QED
    BY <1>5, <2>1 DEF IInv, SlotNumbers, Resend
<1>9. TimersOwned'
  <2>1. \A t \in Slots : ackout[t].timer_fd \in Fds
    BY DEF IInv, TypeOK, AckOutstand
  <2>2. QED
    BY <1>5, <1>6, <2>1 DEF IInv, TimersOwned
<1>10. CountCoversWaiting'
  <2>1. Waiting' = Waiting
    BY <1>5 DEF Waiting
  <2>2. QED
    BY <2>1 DEF IInv, CountCoversWaiting, Resend
<1>11. tx'[k] <= ackout'[i].ack_retry_count + 1 /\ tx'[k] <= MaxRetry + 1
  <2>1. tx[k] <= ackout[i].ack_retry_count + 1
    BY <1>1 DEF IInv, SentCounts
  <2>2. tx[k] \in Nat
    BY <1>2 DEF IInv, TypeOK
  <2>3. QED
    BY <1>1, <1>3, <1>4, <1>5, <2>1, <2>2, AckRetryAssumption
<1>12. SentCounts'
  <2>1. \A n \in Ids : n > ack_msgid => tx'[n] = 0 /\ n \notin heard'
    BY <1>2, <1>4 DEF IInv, TypeOK, SentCounts, Resend, Ids
  <2>2. ASSUME NEW t \in Slots \ {i}, ackout'[t].needs_ack
        PROVE  tx'[ackout'[t].ack_msgid] <= ackout'[t].ack_retry_count + 1
    <3>1. ackout[t].needs_ack /\ ackout[t].ack_msgid \in Ids
          /\ ackout[t].ack_msgid % N = t
      BY <1>5, <2>2 DEF IInv, TypeOK, SlotNumbers, AckOutstand, Ids
    <3>2. ackout[t].ack_msgid # k
      BY <1>2, <3>1
    <3>3. QED
      BY <1>4, <1>5, <3>1, <3>2 DEF IInv, TypeOK, SentCounts
  <2>3. QED
    BY <1>5, <1>11, <2>1, <2>2 DEF SentCounts, Resend
<1>13. TransmissionsBounded'
  BY <1>4, <1>11 DEF IInv, TypeOK, TransmissionsBounded
<1>14. EarlyAckStops'
  <2>1. \A n \in Ids : n % N \in Slots
    BY SlotOfNumber DEF Ids
  <2>2. \A n \in Ids : Pending(n)' => Pending(n)
    BY <1>5, <2>1 DEF Pending, Resend, InTimers
  <2>3. QED
    BY <2>2 DEF IInv, TypeOK, EarlyAckStops, Resend
<1>15. QED
  BY <1>7, <1>8, <1>9, <1>10, <1>12, <1>13, <1>14 DEF IInv

\* What send_message does to the slot it takes, with a timer or without one:
\* the slot waits for the new number, and its timer, if it has one, is open
\* and in no other slot.
LEMMA TakeSlot ==
  ASSUME IInv, NEW s \in Slots, NEW k \in Ids,
         StartTimer(s, k) \/ TimerFails(s, k)
  PROVE  /\ ackout' \in [Slots -> AckOutstand]
         /\ fdtab' \in [Fds -> FdState]
         /\ ackout'[s].needs_ack /\ ackout'[s].ack_msgid = k
         /\ \A t \in Slots \ {s} : ackout'[t] = ackout[t]
         /\ TimersOwned'
<1>0. /\ ackout \in [Slots -> AckOutstand] /\ fdtab \in [Fds -> FdState]
      /\ \A t \in Slots : ackout[t].timer_fd \in Fds
      /\ k \in 0 .. MaxId /\ 0 \in 0 .. MaxRetry
  BY AckRetryAssumption DEF IInv, TypeOK, AckOutstand, Ids
<1>1. CASE StartTimer(s, k)
  <2>1. PICK f \in FreeFds :
          /\ fdtab' = [fdtab EXCEPT ![f] = "armed"]
          /\ ackout' = [ackout EXCEPT ![s] =
               [ack_msgid |-> k, needs_ack |-> TRUE, timer_fd |-> f,
                itimerspec |-> "live", ack_retry_count |-> 0]]
    BY <1>1 DEF StartTimer
  <2>2. f \in Fds /\ fdtab[f] = "free"
    BY DEF FreeFds
  <2>3. /\ ackout' \in [Slots -> AckOutstand] /\ fdtab' \in [Fds -> FdState]
        /\ ackout'[s].needs_ack /\ ackout'[s].ack_msgid = k
        /\ ackout'[s].timer_fd = f /\ ackout'[s].itimerspec = "live"
        /\ \A t \in Slots \ {s} : ackout'[t] = ackout[t]
    BY <1>0, <2>1, <2>2 DEF AckOutstand, FdState
  <2>4. \A t \in Slots \ {s} : ackout[t].timer_fd > 0 =>
           ackout[t].timer_fd # f /\ fdtab'[ackout[t].timer_fd] = fdtab[ackout[t].timer_fd]
    BY <1>0, <2>1, <2>2 DEF IInv, TimersOwned
  <2>5. fdtab'[f] = "armed"
    BY <1>0, <2>1, <2>2
  <2>6. TimersOwned'
    <3> SUFFICES ASSUME NEW t \in Slots, ackout'[t].timer_fd > 0
                 PROVE  /\ ackout'[t].needs_ack
                        /\ ackout'[t].itimerspec = "live"
                        /\ fdtab'[ackout'[t].timer_fd] \in {"armed", "expired"}
                        /\ \A u \in Slots \ {t} :
                             ackout'[u].timer_fd # ackout'[t].timer_fd
      BY DEF TimersOwned
    <3>1. CASE t = s
      <4>1. \A u \in Slots \ {s} : ackout[u].timer_fd # f
        BY <1>0, <2>3, <2>4, <3>1
      <4>2. QED
        BY <2>3, <2>5, <3>1, <4>1
    <3>2. CASE t # s
      BY <1>0, <2>3, <2>4, <3>2 DEF IInv, TimersOwned
    <3>3. QED
      BY <3>1, <3>2
  <2>7. QED
    BY <2>3, <2>6
<1>2. CASE TimerFails(s, k)
  <2>1. /\ ackout' \in [Slots -> AckOutstand] /\ fdtab' = fdtab
        /\ ackout'[s].needs_ack /\ ackout'[s].ack_msgid = k
        /\ \A t \in Slots \ {s} : ackout'[t] = ackout[t]
        /\ \A t \in Slots : /\ ackout'[t].timer_fd = ackout[t].timer_fd
                            /\ ackout'[t].itimerspec = ackout[t].itimerspec
    BY <1>0, <1>2 DEF TimerFails, AckOutstand
  <2>2. TimersOwned'
    BY <1>0, <2>1 DEF IInv, TimersOwned
  <2>3. QED
    BY <1>0, <2>1, <2>2
<1>3. QED
  BY <1>1, <1>2

LEMMA SendMessageStep == IInv /\ SendMessage => IInv'
<1> SUFFICES ASSUME IInv, SendMessage PROVE IInv'
  OBVIOUS
<1> DEFINE k == ack_msgid'
           s == ack_msgid' % N
<1>1. /\ k = ack_msgid + 1 /\ k \in Ids /\ k \in Nat /\ s \in Slots
      /\ ack_msgid \in Nat /\ k \in 0 .. MaxId
  BY AckRetryAssumption, SlotOfNumber DEF SendMessage, IInv, TypeOK, Ids
<1>2. /\ ackout' \in [Slots -> AckOutstand] /\ fdtab' \in [Fds -> FdState]
      /\ ackout'[s].needs_ack /\ ackout'[s].ack_msgid = k
      /\ \A t \in Slots \ {s} : ackout'[t] = ackout[t]
      /\ TimersOwned'
  <2>1. StartTimer(s, k) \/ TimerFails(s, k)
    BY DEF SendMessage
  <2> HIDE DEF k, s
  <2>2. QED
    BY <1>1, <2>1, TakeSlot
<1>3. /\ tx' = [tx EXCEPT ![k] = @ + 1] /\ tx[k] = 0 /\ tx' \in [Ids -> Nat]
      /\ tx'[k] = 1
  BY <1>1 DEF SendMessage, IInv, TypeOK, SentCounts
<1>4. \A n \in Ids : n # k => tx'[n] = tx[n]
  BY <1>3 DEF IInv, TypeOK
<1>5. outstanding' = outstanding + 1 /\ outstanding' \in Int
  BY DEF SendMessage, CountSent, IInv, TypeOK
<1>6. TypeOK'
  BY <1>1, <1>2, <1>3, <1>5 DEF IInv, TypeOK, SendMessage
<1>7. SlotNumbers'
  <2>1. ASSUME NEW t \in Slots
        PROVE  /\ ackout'[t].ack_msgid <= k
               /\ ackout'[t].ack_msgid > 0 => ackout'[t].ack_msgid % N = t
               /\ ackout'[t].needs_ack => ackout'[t].ack_msgid > 0
    <3>1. CASE t = s
      BY <1>1, <1>2, <3>1
    <3>2. CASE t # s
      BY <1>1, <1>2, <3>2 DEF IInv, TypeOK, AckOutstand, SlotNumbers
    <3>3. QED
      BY <3>1, <3>2
  <2>2. ASSUME NEW n \in 1 .. k
        PROVE  ackout'[n % N].ack_msgid >= n
    <3>1. n % N \in Slots
      BY <1>1, SlotOfNumber
    <3>2. CASE n % N = s
      BY <1>1, <1>2, <3>2
    <3>3. CASE n % N # s
      <4>1. n \in 1 .. ack_msgid
        BY <1>1, <3>3
      <4>2. QED
        BY <1>2, <3>1, <3>3, <4>1 DEF IInv, SlotNumbers
    <3>4. QED
      BY <3>2, <3>3
  <2>3. QED
    BY <2>1, <2>2 DEF SlotNumbers
<1>8. SentCounts'
  <2>1. \A n \in Ids : n > k => tx'[n] = 0 /\ n \notin heard'
    BY <1>1, <1>4 DEF IInv, SentCounts, SendMessage, Ids
  <2>2. ASSUME NEW t \in Slots, ackout'[t].needs_ack
        PROVE  tx'[ackout'[t].ack_msgid] <= ackout'[t].ack_retry_count + 1
    <3>1. CASE t = s
      BY <1>2, <1>3, <3>1 DEF AckOutstand
    <3>2. CASE t # s
      <4>1. /\ ackout'[t] = ackout[t] /\ ackout[t].ack_msgid \in Ids
            /\ ackout[t].ack_msgid # k
        BY <1>1, <1>2, <2>2, <3>2 DEF IInv, TypeOK, AckOutstand, SlotNumbers, Ids
      <4>2. QED
        BY <1>4, <2>2, <4>1 DEF IInv, SentCounts
    <3>3. QED
      BY <3>1, <3>2
  <2>3. QED
    BY <2>1, <2>2 DEF SentCounts
<1>9. CountCoversWaiting'
  <2>1. Waiting' \subseteq Waiting \cup {s}
    BY <1>2 DEF Waiting
  <2>2. Waiting \subseteq Slots /\ Waiting' \subseteq Slots
    BY DEF Waiting
  <2>3. Cardinality(Waiting') <= Cardinality(Waiting) + 1
    BY <1>1, <2>1, <2>2, WaitingGrows
  <2>4. Cardinality(Waiting) \in Nat /\ Cardinality(Waiting') \in Nat
    BY <2>2, WaitingFinite
  <2>5. QED
    BY <1>5, <2>3, <2>4 DEF IInv, TypeOK, CountCoversWaiting
<1>10. TransmissionsBounded'
  BY <1>3, <1>4, AckRetryAssumption DEF IInv, TransmissionsBounded
<1>11. EarlyAckStops'
  <2> SUFFICES ASSUME NEW n \in heard', n < N, Pending(n)' PROVE FALSE
    BY DEF EarlyAckStops
  <2>1. n \in Ids /\ n \in heard /\ n \in Nat /\ n <= ack_msgid
    BY <1>1 DEF IInv, TypeOK, SentCounts, SendMessage, Ids
  <2>2. n % N \in Slots
    BY <2>1, SlotOfNumber
  <2>3. n % N # s
    BY <1>1, <1>2, <2>1 DEF Pending
  <2>4. Pending(n)
    BY <1>2, <2>2, <2>3 DEF Pending, SendMessage
  <2>5. QED
    BY <2>1, <2>4 DEF IInv, EarlyAckStops
<1>12. QED
  BY <1>2, <1>6, <1>7, <1>8, <1>9, <1>10, <1>11 DEF IInv

LEMMA ExpireStep == IInv /\ (\E f \in Fds : Expire(f)) => IInv'
<1> SUFFICES ASSUME IInv, NEW f \in Fds, Expire(f) PROVE IInv'
  OBVIOUS
<1>1. fdtab' \in [Fds -> FdState]
  BY DEF Expire, IInv, TypeOK, FdState
<1>2. TypeOK'
  BY <1>1 DEF Expire, IInv, TypeOK
<1>3. SlotNumbers' /\ SentCounts' /\ TransmissionsBounded'
  BY DEF Expire, IInv, SlotNumbers, SentCounts, TransmissionsBounded
<1>4. TimersOwned'
  <2>1. \A t \in Slots : ackout[t].timer_fd \in Fds
    BY DEF IInv, TypeOK, AckOutstand
  <2>2. QED
    BY <2>1 DEF Expire, IInv, TypeOK, TimersOwned
<1>5. CountCoversWaiting'
  <2>1. Waiting' = Waiting
    BY DEF Expire, Waiting
  <2>2. QED
    BY <2>1 DEF Expire, IInv, CountCoversWaiting
<1>6. EarlyAckStops'
  BY DEF Expire, IInv, EarlyAckStops, Pending
<1>7. QED
  BY <1>2, <1>3, <1>4, <1>5, <1>6 DEF IInv

LEMMA RestartStep == Restart => IInv'
<1> SUFFICES ASSUME Restart PROVE IInv'
  OBVIOUS
<1>1. 0 \in Slots /\ 0 \in Fds /\ 0 \in 0 .. MaxRetry /\ 0 \in 0 .. MaxId
  BY AckRetryAssumption DEF Slots, Fds
<1>2. TypeOK'
  <2>1. ackout' \in [Slots -> AckOutstand]
    BY <1>1 DEF Restart, ZeroAckOutstand, AckOutstand
  <2>2. fdtab' \in [Fds -> FdState]
    BY DEF Restart, FreshFds, FdState
  <2>3. tx' \in [Ids -> Nat] /\ outstanding' \in Int
    BY DEF Restart
  <2>4. message_ack' \in BOOLEAN /\ restarted' \in BOOLEAN
    BY DEF Restart
  <2>5. fds' \subseteq Fds /\ heard' \subseteq Ids
    BY DEF Restart
  <2>6. ack_msgid' \in 0 .. MaxId /\ i' \in Slots
       /\ pc' \in {"select", "tnc", "dsp", "timers", "dead"}
    BY <1>1 DEF Restart
  <2>7. QED
    BY <2>1, <2>2, <2>3, <2>4, <2>5, <2>6 DEF TypeOK
<1>3. /\ SlotNumbers' /\ SentCounts' /\ TimersOwned'
      /\ TransmissionsBounded' /\ EarlyAckStops'
  BY <1>1, AckRetryAssumption DEF Restart, ZeroAckOutstand, SlotNumbers, SentCounts,
     TimersOwned, TransmissionsBounded, EarlyAckStops, Slots, Ids
<1>4. CountCoversWaiting'
  <2>1. Waiting' = {}
    BY DEF Restart, ZeroAckOutstand, Waiting, Slots
  <2>2. QED
    BY <2>1, FS_EmptySet DEF Restart, CountCoversWaiting
<1>5. QED
  BY <1>2, <1>3, <1>4 DEF IInv

LEMMA StutterStep == IInv /\ UNCHANGED vars => IInv'
<1> SUFFICES ASSUME IInv, UNCHANGED vars PROVE IInv'
  OBVIOUS
<1>1. TypeOK' /\ SlotNumbers' /\ SentCounts'
  BY DEF vars, IInv, TypeOK, SlotNumbers, SentCounts
<1>2. TimersOwned' /\ TransmissionsBounded' /\ EarlyAckStops'
  BY DEF vars, IInv, TimersOwned, TransmissionsBounded, EarlyAckStops, Pending
<1>3. CountCoversWaiting'
  BY DEF vars, IInv, CountCoversWaiting, Waiting
<1>4. QED
  BY <1>1, <1>2, <1>3 DEF IInv

LEMMA StepIInv == IInv /\ [Next]_vars => IInv'
<1> SUFFICES ASSUME IInv, [Next]_vars PROVE IInv'
  OBVIOUS
<1>1. CASE Select
  BY <1>1, SelectStep
<1>2. CASE \E k \in Ids : RecvAck(k)
  BY <1>2, RecvAckStep
<1>3. CASE NoAck
  BY <1>3, NoAckStep
<1>4. CASE SendMessage
  BY <1>4, SendMessageStep
<1>5. CASE SetConfig
  BY <1>5, SetConfigStep
<1>6. CASE SkipTimers
  BY <1>6, SkipTimersStep
<1>7. CASE PassSlot
  BY <1>7, PassSlotStep
<1>8. CASE Resend
  BY <1>8, ResendStep
<1>9. CASE GiveUp
  BY <1>9, GiveUpStep
<1>10. CASE \E f \in Fds : Expire(f)
  BY <1>10, ExpireStep
<1>11. CASE Restart
  BY <1>11, RestartStep
<1>12. CASE UNCHANGED vars
  BY <1>12, StutterStep
<1>13. QED
  BY <1>1, <1>2, <1>3, <1>4, <1>5, <1>6, <1>7, <1>8, <1>9, <1>10, <1>11, <1>12
     DEF Next, Loop, Timers

\* The inductive invariant holds in every reachable state.
THEOREM Invariance == Spec => []IInv
BY InitIInv, StepIInv, PTL DEF Spec

-----------------------------------------------------------------------------
(* The results.                                                            *)

\* Every variable keeps its type: in particular the retry counter stays an
\* index into retry_interval_mult (aprs-msg.c:215).
THEOREM TypeCorrect == Spec => []TypeOK
<1>1. IInv => TypeOK
  BY DEF IInv
<1>2. QED
  BY <1>1, Invariance, PTL

\* The fd_set main builds holds no closed number, and clear_ack_request never
\* closes another message's timer.
THEOREM TimersAreOwned == Spec => []TimersOwned
<1>1. IInv => TimersOwned
  BY DEF IInv
<1>2. QED
  BY <1>1, Invariance, PTL

\* outstanding_ack_timer_count is never too low to have the timers watched.
THEOREM CountIsEnough == Spec => []CountCoversWaiting
<1>1. IInv => CountCoversWaiting
  BY DEF IInv
<1>2. QED
  BY <1>1, Invariance, PTL

\* handle_ack_timer sends no message more often than its retry limit allows.
THEOREM SendsAreBounded == Spec => []TransmissionsBounded
<1>1. IInv => TransmissionsBounded
  BY DEF IInv
<1>2. QED
  BY <1>1, Invariance, PTL

\* An ack for one of the first N-1 numbers that handle_aprsMessages takes
\* leaves no retry behind.
THEOREM EarlyAcksStop == Spec => []EarlyAckStops
<1>1. IInv => EarlyAckStops
  BY DEF IInv
<1>2. QED
  BY <1>1, Invariance, PTL

\* A step other than Resend sends no number a second time.
LEMMA OnlyResendRepeats ==
  ASSUME IInv, [Next]_vars, ~Resend, NEW k \in Ids, tx[k] > 0
  PROVE  ~(tx'[k] > tx[k])
<1>1. tx \in [Ids -> Nat] /\ tx[k] \in Nat
  BY DEF IInv, TypeOK
<1>2. CASE SendMessage
  <2>1. ack_msgid' \in Ids /\ tx[ack_msgid'] = 0
    BY <1>2, AckRetryAssumption DEF SendMessage, IInv, TypeOK, SentCounts, Ids
  <2>2. QED
    BY <1>1, <1>2, <2>1 DEF SendMessage
<1>3. CASE Restart
  BY <1>1, <1>3 DEF Restart
<1>4. CASE UNCHANGED tx
  BY <1>1, <1>4
<1>5. QED
  BY <1>2, <1>3, <1>4 DEF Next, Loop, Timers, Select, RecvAck, NoAck, SetConfig,
     SkipTimers, PassSlot, GiveUp, Expire, vars

\* handle_ack_timer repeats only a message that still waits and whose own
\* timer has expired, whatever bits are left in the fd_set.
THEOREM ResendsOnlyWhenDue == Spec => ResendsAreDue
<1>1. IInv /\ [Next]_vars => [ResendsDue]_vars
  <2> SUFFICES ASSUME IInv, [Next]_vars PROVE ResendsDue
    OBVIOUS
  <2> SUFFICES ASSUME NEW k \in Ids, tx[k] > 0, tx'[k] > tx[k]
               PROVE  Pending(k) /\ fdtab[ackout[k % N].timer_fd] = "expired"
    BY DEF ResendsDue
  <2>1. Resend
    BY OnlyResendRepeats
  <2>2. i \in Slots /\ ackout[i].needs_ack /\ ackout[i].ack_msgid \in Ids
        /\ ackout[i].ack_msgid % N = i
    BY <2>1 DEF Resend, TimerBit, IInv, TypeOK, TimersOwned, SlotNumbers, AckOutstand, Ids
  <2>3. k = ackout[i].ack_msgid
    BY <2>1, <2>2 DEF Resend, IInv, TypeOK
  <2>4. QED
    BY <2>1, <2>2, <2>3 DEF Resend, InTimers, TimerRead, Pending
<1>2. QED
  BY <1>1, Invariance, PTL DEF Spec, ResendsAreDue

\* handle_aprsMessages never takes an ack for another message's, as long as
\* no acks of an earlier life of the daemon are about.
THEOREM OnlyOwnAcksSettle == Spec => OnlyOwnAckSettles
<1>1. IInv /\ [Next]_vars => [SettledByOwnAck]_vars
  <2> SUFFICES ASSUME IInv, [Next]_vars PROVE SettledByOwnAck
    OBVIOUS
  <2> SUFFICES ASSUME NEW s \in Slots, ackout[s].needs_ack, ~ackout'[s].needs_ack,
                      ackout[s].ack_retry_count < MaxRetry, ~restarted'
               PROVE  ackout[s].ack_msgid \in heard'
    BY DEF SettledByOwnAck
  <2>0. ackout \in [Slots -> AckOutstand] /\ ackout[s] \in AckOutstand
    BY DEF IInv, TypeOK
  <2>1. CASE \E k \in Ids : RecvAck(k)
    <3>1. PICK k \in Ids : RecvAck(k)
      BY <2>1
    <3>2. k \in Nat /\ k % N \in Slots
      BY SlotOfNumber DEF Ids
    <3>3. s = k % N /\ ackout[s].ack_msgid = s
      <4>1. AckMatches(k % N) /\ ClearAckRequest(k % N, "dsp")
        BY <3>1 DEF RecvAck, AckSlot
      <4>2. s = k % N
        BY <2>0, <3>2, <4>1 DEF ClearAckRequest
      <4>3. QED
        BY <4>1, <4>2 DEF AckMatches
    <3>4. k \in heard' /\ k \in 1 .. ack_msgid
      BY <3>1, AckRetryAssumption DEF RecvAck, IInv, TypeOK, SentCounts, Ids
    <3>5. s >= k /\ s < N
      <4>1. ackout[k % N].ack_msgid >= k
        BY <3>4 DEF IInv, SlotNumbers
      <4>2. s < N
        BY AckRetryAssumption DEF Slots
      <4>3. QED
        BY <3>3, <4>1, <4>2
    <3>6. k % N = k
      <4>1. k < N
        BY <3>2, <3>5, AckRetryAssumption DEF Slots
      <4>2. QED
        BY <3>2, <4>1, SlotOfNumber
    <3>7. QED
      BY <3>3, <3>4, <3>6
  <2>2. CASE GiveUp
    <3>1. i \in Slots /\ ~(ackout[i].ack_retry_count < MaxRetry)
      BY <2>2 DEF GiveUp, RetriesLeft, IInv, TypeOK
    <3>2. s # i
      BY <3>1
    <3>3. ackout'[s] = ackout[s]
      <4>1. ClearAckRequest(i, AfterSlot)
        BY <2>2 DEF GiveUp
      <4>2. QED
        BY <2>0, <3>1, <3>2, <4>1 DEF ClearAckRequest
    <3>4. QED
      BY <3>3
  <2>3. CASE SendMessage
    <3>1. ack_msgid' \in Ids /\ ack_msgid' % N \in Slots
      BY <2>3, AckRetryAssumption, SlotOfNumber DEF SendMessage, IInv, TypeOK, Ids
    <3>2. ackout'[s].needs_ack
      <4>1. /\ ackout'[ack_msgid' % N].needs_ack
            /\ \A t \in Slots \ {ack_msgid' % N} : ackout'[t] = ackout[t]
        BY <2>3, <3>1, TakeSlot DEF SendMessage
      <4>2. QED
        BY <4>1
    <3>3. QED
      BY <3>2
  <2>4. CASE Resend
    <3>1. i \in Slots /\ ackout[i] \in AckOutstand
      BY <2>0 DEF IInv, TypeOK
    <3>2. ackout'[s].needs_ack = ackout[s].needs_ack
      BY <2>0, <2>4, <3>1 DEF Resend, AckOutstand
    <3>3. QED
      BY <3>2
  <2>5. CASE Restart
    BY <2>5 DEF Restart
  <2>6. CASE UNCHANGED ackout
    BY <2>6
  <2>7. QED
    BY <2>1, <2>2, <2>3, <2>4, <2>5, <2>6 DEF Next, Loop, Timers, Select, NoAck,
       SetConfig, SkipTimers, PassSlot, Expire, vars
<1>2. QED
  BY <1>1, Invariance, PTL DEF Spec, OnlyOwnAckSettles
=============================================================================
