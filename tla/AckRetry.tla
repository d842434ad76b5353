------------------------------ MODULE AckRetry ------------------------------
(***************************************************************************)
(* Acknowledged APRS messages in the tracker daemon (aprs-msg.c) inside    *)
(* the single-threaded select loop of main (aprs.c).                       *)
(*                                                                         *)
(* A message sent with acknowledgements on takes the next message number   *)
(* and the slot ackout[number mod N] of a table of outstanding requests;   *)
(* a timerfd of its own drives the resends until an ack is heard or the    *)
(* retries are used up.  The loop watches those descriptors, by number,    *)
(* and a number freed by one handler can be taken again by the next one    *)
(* before the loop looks at the bits select returned.  The model therefore *)
(* keeps descriptor numbers, the fd_set and the order of the handlers.     *)
(*                                                                         *)
(* Time is abstract: an armed timer may expire at any moment.  Acks may be *)
(* lost, repeated and delayed without limit, also over a restart.          *)
(*                                                                         *)
(* X_Faulty is a plausible wrong version of X.  The specification does not *)
(* use it: it shows that the properties can tell the two apart.            *)
(***************************************************************************)
EXTENDS Integers, FiniteSets

CONSTANTS
  N,             \* MAX_OUTSTANDING_MSGS, the slots of the table
  MaxRetry,      \* MAX_ACK_RETRY_COUNT
  MaxId,         \* bound: messages sent between two starts of the daemon
  MaxFd,         \* the highest descriptor number the process may have open
  WatchLimit,    \* select's first argument: it looks at numbers below this
  AllocMayFail   \* whether calloc of a timer record may fail

ASSUME AckRetryAssumption ==
  /\ N \in Nat \ {0}
  /\ MaxRetry \in Nat
  /\ MaxId \in Nat
  /\ MaxFd \in Nat
  /\ WatchLimit \in Nat
  /\ AllocMayFail \in BOOLEAN

Slots == 0 .. N-1
Ids   == 1 .. MaxId
Fds   == 0 .. MaxFd

VARIABLES
  ackout,        \* state.ackout
  ack_msgid,     \* state.ack_msgid, the last message number used
  outstanding,   \* state.outstanding_ack_timer_count
  message_ack,   \* state.conf.aprs_message_ack
  fdtab,         \* kernel: what each descriptor number is open on
  fds,           \* the fd_set select returned, timers only
  pc,            \* the handler main runs next
  i,             \* main's loop index over the slots
  tx,            \* history: times each number was handed to send_beacon
  heard,         \* history: numbers sent since start whose ack was handled
  restarted      \* history: an earlier life's acks may still be on their way

vars == <<ackout, ack_msgid, outstanding, message_ack, fdtab, fds, pc, i,
          tx, heard, restarted>>

\* aprs_msg is not kept: it is non-NULL exactly while needs_ack holds, and
\* its text is the message numbered ack_msgid.
AckOutstand ==
  [ack_msgid : 0 .. MaxId, needs_ack : BOOLEAN, timer_fd : Fds,
   itimerspec : {"null", "live", "freed"}, ack_retry_count : 0 .. MaxRetry]

ZeroAckOutstand ==
  [ack_msgid |-> 0, needs_ack |-> FALSE, timer_fd |-> 0,
   itimerspec |-> "null", ack_retry_count |-> 0]

\* Number 0 is standard input; the other numbers are those left once the
\* sockets of the daemon are open.
FdState == {"free", "other", "armed", "expired"}
FreshFds == [f \in Fds |-> IF f = 0 THEN "other" ELSE "free"]

TypeOK ==
  /\ ackout \in [Slots -> AckOutstand]
  /\ ack_msgid \in 0 .. MaxId
  /\ outstanding \in Int
  /\ message_ack \in BOOLEAN
  /\ fdtab \in [Fds -> FdState]
  /\ fds \subseteq Fds
  /\ pc \in {"select", "tnc", "dsp", "timers", "dead"}
  /\ i \in Slots
  /\ tx \in [Ids -> Nat]
  /\ heard \subseteq Ids
  /\ restarted \in BOOLEAN

Init ==
  /\ ackout = [s \in Slots |-> ZeroAckOutstand]
  /\ ack_msgid = 0
  /\ outstanding = 0
  /\ message_ack = FALSE
  /\ fdtab = FreshFds
  /\ fds = {}
  /\ pc = "select"
  /\ i = 0
  /\ tx = [k \in Ids |-> 0]
  /\ heard = {}
  /\ restarted = FALSE

Waiting   == {s \in Slots : ackout[s].needs_ack}
FreeFds   == {f \in Fds : fdtab[f] = "free"}
SlotFds   == {ackout[s].timer_fd : s \in Slots} \ {0}

\* Message k still waits for its ack: its slot is taken and was not reused.
Pending(k) ==
  pc # "dead" /\ ackout[k % N].needs_ack /\ ackout[k % N].ack_msgid = k

-----------------------------------------------------------------------------
(* pending_ack_timer.  A new descriptor gets the lowest free number.       *)

StartTimer(s, k) ==
  \E f \in FreeFds :
    /\ \A g \in FreeFds : f <= g
    /\ fdtab' = [fdtab EXCEPT ![f] = "armed"]
    /\ ackout' = [ackout EXCEPT ![s] =
         [ack_msgid |-> k, needs_ack |-> TRUE, timer_fd |-> f,
          itimerspec |-> "live", ack_retry_count |-> 0]]

\* An early return leaves the timer fields as the slot's last user left them.
TimerFails(s, k) ==
  /\ AllocMayFail \/ FreeFds = {}
  /\ ackout' = [ackout EXCEPT ![s].ack_msgid = k, ![s].needs_ack = TRUE]
  /\ UNCHANGED fdtab

\* send_message counts the request whether or not a timer was started.
CountSent_Faulty == outstanding' = IF fdtab' = fdtab THEN outstanding ELSE outstanding + 1
CountSent == outstanding' = outstanding + 1

(* clear_ack_request and the decrement that follows each call of it.       *)
(* itimerspec is dereferenced and freed unconditionally: NULL faults, and  *)
(* freed memory either aborts in free() or goes unnoticed.                 *)

ClearAckRequest_Faulty(s, next) ==
  /\ ackout' = [ackout EXCEPT ![s].needs_ack = FALSE, ![s].itimerspec = "freed"]
  /\ fdtab' = [fdtab EXCEPT ![ackout[s].timer_fd] = "free"]
  /\ outstanding' = outstanding - 1
  /\ pc' = next

ClearAckRequest(s, next) ==
  \/ /\ ackout[s].itimerspec # "null"
     /\ ackout' = [ackout EXCEPT ![s].needs_ack = FALSE, ![s].timer_fd = 0,
                                 ![s].itimerspec = "freed"]
     /\ fdtab' = [fdtab EXCEPT ![ackout[s].timer_fd] = "free"]
     /\ outstanding' = outstanding - 1
     /\ pc' = next
  \/ /\ ackout[s].itimerspec # "live"
     /\ pc' = "dead"
     /\ UNCHANGED <<ackout, fdtab, outstanding>>

-----------------------------------------------------------------------------
(* One iteration of main's loop: select, then the TNC, the display and the *)
(* timers, in this order.                                                  *)

\* Timers are put in the set, and looked at, only while the count is positive.
TimersOn_Faulty == outstanding > 1
TimersOn == outstanding > 0

\* select
\* clears the bits of the timers below WatchLimit that have not expired;
\* beyond it a bit may come back as it was set or cleared.
Select ==
  /\ pc = "select"
  /\ LET asked == IF TimersOn THEN SlotFds ELSE {}
         seen  == {f \in asked : f < WatchLimit /\ fdtab[f] = "expired"}
     IN \E beyond \in SUBSET {f \in asked : f >= WatchLimit} :
          fds' = seen \cup beyond
  /\ pc' = "tnc"
  /\ UNCHANGED <<ackout, ack_msgid, outstanding, message_ack, fdtab, i,
                 tx, heard, restarted>>

\* The slot of an ack is its number modulo N; it counts only if the number
\* kept in the slot equals that INDEX.
AckSlot_Faulty(k) == (k + 1) % N
AckSlot(k) == k % N
AckMatches_Faulty(s) == ackout[s].needs_ack
AckMatches(s) == ackout[s].ack_msgid = s /\ ackout[s].needs_ack

\* handle_aprsMessages on an ack addressed to this station.
RecvAck(k) ==
  /\ pc = "tnc"
  /\ tx[k] > 0 \/ restarted
  /\ heard' = IF tx[k] > 0 THEN heard \cup {k} ELSE heard
  /\ LET s == AckSlot(k) IN
       IF AckMatches(s)
         THEN ClearAckRequest(s, "dsp")
         ELSE pc' = "dsp" /\ UNCHANGED <<ackout, fdtab, outstanding>>
  /\ UNCHANGED <<ack_msgid, message_ack, fds, i, tx, restarted>>

\* No frame, or one that is not an ack for this station.
NoAck ==
  /\ pc = "tnc"
  /\ pc' = "dsp"
  /\ UNCHANGED <<ackout, ack_msgid, outstanding, message_ack, fdtab, fds, i,
                 tx, heard, restarted>>

\* send_message with acknowledgements on.  The slot is taken whether or not
\* an earlier message still waits in it; that message's timer stays open.
SendMessage ==
  /\ pc = "dsp"
  /\ message_ack
  /\ ack_msgid < MaxId
  /\ ack_msgid' = ack_msgid + 1
  /\ StartTimer(ack_msgid' % N, ack_msgid') \/ TimerFails(ack_msgid' % N, ack_msgid')
  /\ CountSent
  /\ tx' = [tx EXCEPT ![ack_msgid'] = @ + 1]
  /\ pc' = "timers"
  /\ UNCHANGED <<message_ack, fds, i, heard, restarted>>

\* "setconfig": acknowledgements on or off.  Setting what is set already also
\* stands for an idle display and for a message sent without an ack request.
SetConfig ==
  /\ pc = "dsp"
  /\ message_ack' \in BOOLEAN
  /\ pc' = "timers"
  /\ UNCHANGED <<ackout, ack_msgid, outstanding, fdtab, fds, i, tx, heard,
                 restarted>>

\* The index advances; the next iteration starts with an empty fd_set.
NextSlot ==
  /\ i' = (i + 1) % N
  /\ fds' = IF i = N-1 THEN {} ELSE fds
AfterSlot == IF i = N-1 THEN "select" ELSE "timers"

\* The count is looked at once, before the first slot.
SkipTimers ==
  /\ pc = "timers" /\ i = 0 /\ ~TimersOn
  /\ pc' = "select"
  /\ fds' = {}
  /\ UNCHANGED <<ackout, ack_msgid, outstanding, message_ack, fdtab, i,
                 tx, heard, restarted>>

InTimers  == pc = "timers" /\ (i > 0 \/ TimersOn)
TimerBit  == ackout[i].timer_fd > 0 /\ ackout[i].timer_fd \in fds
TimerRead_Faulty == TRUE
TimerRead == fdtab[ackout[i].timer_fd] = "expired"
RetriesLeft_Faulty == ackout[i].ack_retry_count <= MaxRetry
RetriesLeft  == ackout[i].ack_retry_count < MaxRetry

\* No bit, or a bit of a timer that has nothing to read: the descriptor is
\* non-blocking and handle_ack_timer returns.
PassSlot ==
  /\ InTimers
  /\ ~(TimerBit /\ TimerRead)
  /\ NextSlot
  /\ pc' = AfterSlot
  /\ UNCHANGED <<ackout, ack_msgid, outstanding, message_ack, fdtab, tx,
                 heard, restarted>>

Resend ==
  /\ InTimers /\ TimerBit /\ TimerRead
  /\ RetriesLeft
  /\ tx' = [tx EXCEPT ![ackout[i].ack_msgid] = @ + 1]
  /\ ackout' = [ackout EXCEPT ![i].ack_retry_count = @ + 1]
  /\ fdtab' = [fdtab EXCEPT ![ackout[i].timer_fd] = "armed"]
  /\ NextSlot
  /\ pc' = AfterSlot
  /\ UNCHANGED <<ack_msgid, outstanding, message_ack, heard, restarted>>

GiveUp ==
  /\ InTimers /\ TimerBit /\ TimerRead
  /\ ~RetriesLeft
  /\ ClearAckRequest(i, AfterSlot)
  /\ NextSlot
  /\ UNCHANGED <<ack_msgid, message_ack, tx, heard, restarted>>

-----------------------------------------------------------------------------
(* The kernel and the operator.                                            *)

Expire(f) ==
  /\ fdtab[f] = "armed"
  /\ fdtab' = [fdtab EXCEPT ![f] = "expired"]
  /\ UNCHANGED <<ackout, ack_msgid, outstanding, message_ack, fds, pc, i,
                 tx, heard, restarted>>

\* The daemon dies or is killed and is started again: its memory is zeroed,
\* its descriptors are gone, acks of the earlier life may still arrive.
Restart ==
  /\ ackout' = [s \in Slots |-> ZeroAckOutstand]
  /\ ack_msgid' = 0
  /\ outstanding' = 0
  /\ message_ack' = FALSE
  /\ fdtab' = FreshFds
  /\ fds' = {}
  /\ pc' = "select"
  /\ i' = 0
  /\ tx' = [k \in Ids |-> 0]
  /\ heard' = {}
  /\ restarted' = TRUE

Timers == SkipTimers \/ PassSlot \/ Resend \/ GiveUp

Loop ==
  \/ Select
  \/ \E k \in Ids : RecvAck(k)
  \/ NoAck
  \/ SendMessage
  \/ SetConfig
  \/ Timers

Next == Loop \/ (\E f \in Fds : Expire(f)) \/ Restart

Spec == Init /\ [][Next]_vars

\* select has a timeout of one second, so the loop never stops; the kernel
\* expires every armed timer.
FairSpec ==
  /\ Spec
  /\ WF_vars(Loop)
  /\ \A f \in Fds : WF_vars(Expire(f))

-----------------------------------------------------------------------------
(* Properties.                                                             *)

\* A descriptor kept in a slot is an open timer of that slot alone, and the
\* slot waits for an ack.  A closed number in the set would make select fail
\* with EBADF, on which main leaves its loop (aprs.c:2733); a shared one
\* would make clear_ack_request close another message's timer.
TimersOwned ==
  \A s \in Slots : ackout[s].timer_fd > 0 =>
    /\ ackout[s].needs_ack
    /\ ackout[s].itimerspec = "live"
    /\ fdtab[ackout[s].timer_fd] \in {"armed", "expired"}
    /\ \A t \in Slots \ {s} : ackout[t].timer_fd # ackout[s].timer_fd

\* The counter that gates both the fd_set and the timer loop of main never
\* falls below the number of messages that wait, whatever was overwritten,
\* acked late or failed to get a timer: no waiting message is starved by it.
CountCoversWaiting == Cardinality(Waiting) <= outstanding

\* No message goes out more than once plus MAX_ACK_RETRY_COUNT times, so
\* retry_interval_mult is never indexed past its end, also when a slot keeps
\* its last user's timer.
TransmissionsBounded == \A k \in Ids : tx[k] <= MaxRetry + 1

\* Only a message that still waits in its slot, and whose own timer has run
\* out, is sent again.  A bit left over from a descriptor that was closed
\* and reused earlier in the iteration must not cause a resend.
ResendsDue ==
  \A k \in Ids : tx[k] > 0 /\ tx'[k] > tx[k] =>
    Pending(k) /\ fdtab[ackout[k % N].timer_fd] = "expired"
ResendsAreDue == [][ResendsDue]_vars

\* Within one life of the daemon a message whose retries are not used up
\* stops waiting only when its own ack is handled, never on another's.
SettledByOwnAck ==
  \A s \in Slots :
    /\ ackout[s].needs_ack /\ ~ackout'[s].needs_ack
    /\ ackout[s].ack_retry_count < MaxRetry
    /\ ~restarted'
    => ackout[s].ack_msgid \in heard'
OnlyOwnAckSettles == [][SettledByOwnAck]_vars

\* An ack handled for one of the first N-1 numbers ends that message's wait.
EarlyAckStops == \A k \in heard : k < N => ~Pending(k)

\* "mark message as acked & stop retrys" (aprs-msg.c:357): an ack handled
\* for ANY number ends that message's wait.
AckStops == \A k \in heard : ~Pending(k)

\* Every message stops waiting: acked, given up or pushed out of its slot.
PendingSettles == \A k \in Ids : Pending(k) ~> ~Pending(k)
=============================================================================
