---------------------------- MODULE MsgReceive -----------------------------
(***************************************************************************)
(* Messages the tracker receives (aprs-msg.c, and display_packet and       *)
(* parse_incoming_packet in aprs.c): which are acked, which are shown in   *)
(* the message panel, and the history that tells repeats from new ones.    *)
(*                                                                         *)
(* A packet shows its message when it arrives, unless the user looks at    *)
(* another station, and again whenever its station is looked at.  The list *)
(* of stations is PacketStore's; here it only says which packet is still   *)
(* the last one kept of a station, and loses one at a time.  The packet of *)
(* this station itself is never put on the list.                           *)
(*                                                                         *)
(* X_Faulty is a plausible wrong version of X that the specification does  *)
(* not use.                                                                *)
(***************************************************************************)
EXTENDS Integers

CONSTANTS
  K,            \* KEEP_MESSAGES
  Calls,        \* callsigns
  Me,           \* mycall
  Alike,        \* callsigns that begin with mycall, itself included
  Texts,
  AckTexts,     \* texts with ":ack" in them
  Messages,     \* the messages that may be heard
  Relays,       \* the stations that send what third parties said
  AllocMayFail, \* whether malloc and calloc may fail
  None          \* NULL

\* How the id of a message was found: by the parser, as a "{" left in the
\* text, or not at all.
Requests == {"id", "brace", "no"}

ASSUME MsgReceiveAssumption ==
  /\ K \in Nat \ {0}
  /\ Me \in Alike /\ Alike \subseteq Calls
  /\ AckTexts \subseteq Texts /\ Relays \subseteq Calls
  /\ Messages \subseteq [src : Calls, dst : Calls, text : Texts, req : Requests]
  /\ AllocMayFail \in BOOLEAN
  /\ None \notin Calls
  /\ None \notin [src : Calls, dst : Calls, text : Texts, req : Requests]
  /\ None \notin [src : Calls, dst : Calls, text : Texts]

Slots == 0 .. K-1
Maybe(S) == S \cup {None}

\* What isnewmessage compares.
Key(m) == [src |-> m.src, dst |-> m.dst, text |-> m.text]
Keys   == {Key(m) : m \in Messages}

\* A packet has a message of its own, carries a third party's, or has none.
Packets ==
  {p \in [from : Calls, msg : Maybe(Messages), direct : BOOLEAN] :
     IF p.direct THEN p.msg # None /\ p.msg.src = p.from
                 ELSE p.msg = None \/ p.from \in Relays}

VARIABLES
  msghist, msghist_idx,
  picked,   \* state.disp_idx >= 0
  last,     \* the station of state.last_packet
  kept,     \* the message in the last packet kept of each station
  offered,  \* history: the message display_packet was given in the last step
  screen,   \* what the last step showed
  ack,      \* the message the last step acked
  age,      \* history: messages saved since one was shown, K for K or more
  forgot    \* history: messages whose record short memory has cost

vars ==
  <<msghist, msghist_idx, picked, last, kept, offered, screen, ack, age, forgot>>

TypeOK ==
  /\ msghist \in [Slots -> Maybe(Keys)]
  /\ msghist_idx \in Slots
  /\ picked \in BOOLEAN
  /\ last \in Maybe(Calls)
  /\ kept \in [Calls -> Maybe(Messages)]
  /\ offered \in Maybe(Keys)
  /\ screen \in Maybe(Keys)
  /\ ack \in Maybe(Messages)
  /\ age \in [Keys -> 0 .. K]
  /\ forgot \subseteq Keys

Init ==
  /\ msghist = [s \in Slots |-> None]
  /\ msghist_idx = 0
  /\ picked = FALSE
  /\ last = None
  /\ kept = [c \in Calls |-> None]
  /\ offered = None
  /\ screen = None
  /\ ack = None
  /\ age = [k \in Keys |-> K]
  /\ forgot = {}

-----------------------------------------------------------------------------
(* The history.                                                            *)

\* isnewmessage
IsNew_Faulty(m) == \A s \in Slots \ {msghist_idx} : msghist[s] # Key(m)
IsNew_FaultySource(m) ==
  \A s \in Slots : msghist[s] = None \/ msghist[s].src # m.src
IsNew(m) == \A s \in Slots : msghist[s] # Key(m)

NextIdx_Faulty(x) == x + 1
NextIdx(x) == (x + 1) % K

\* save_message
Save(m) ==
  /\ msghist' = [msghist EXCEPT ![msghist_idx] = Key(m)]
  /\ msghist_idx' = NextIdx(msghist_idx)
  /\ age' = [k \in Keys |-> IF k = Key(m) THEN 0
                            ELSE IF age[k] = K THEN K ELSE age[k] + 1]
  /\ forgot' = forgot \ {Key(m)}

\* One of its allocations fails: that of a new entry, of the text, which
\* frees the entry, or of the id, after which the index does not advance.
SaveFails(m) ==
  /\ AllocMayFail
  /\ \E entry \in Maybe({Key(m)}) :
       /\ entry = None \/ m.req = "id"
       /\ msghist' = [msghist EXCEPT ![msghist_idx] = entry]
  /\ age' = [age EXCEPT ![Key(m)] = 0]
  /\ forgot' = forgot \cup ({Key(m), msghist[msghist_idx]} \ {None})
  /\ UNCHANGED msghist_idx

\* display_packet and webdisplay_thirdparty show a message and save it, or
\* leave a repeat alone.
ShowAndSave(m) ==
  /\ screen' = Key(m)
  /\ Save(m) \/ SaveFails(m)
LeaveAlone ==
  /\ screen' = None
  /\ UNCHANGED <<msghist, msghist_idx, age, forgot>>
DisplayMessage(m) ==
  /\ offered' = IF m = None THEN None ELSE Key(m)
  /\ IF m # None /\ IsNew(m) THEN ShowAndSave(m) ELSE LeaveAlone

\* No packet is displayed.
ShowNothing == offered' = None /\ LeaveAlone

-----------------------------------------------------------------------------
(* handle_aprsMessages on what is not an ack: calls are compared over the  *)
(* length of mycall only.                                                  *)

Acks(m) ==
  /\ m.src \notin Alike
  /\ m.dst \in Alike
  /\ m.text \notin AckTexts
  /\ m.req # "no"

\* parse_incoming_packet
Looking_Faulty == picked
Looking == ~picked

Hear(p) ==
  /\ ack' = IF p.direct /\ Acks(p.msg) THEN p.msg ELSE None
  /\ \E lost \in Maybe(Calls) \ {p.from} :
       kept' = [c \in Calls |-> IF c = p.from THEN p.msg
                                ELSE IF c \in {lost, Me} THEN None ELSE kept[c]]
  /\ last' = p.from
  /\ IF Looking THEN DisplayMessage(p.msg) ELSE ShowNothing
  /\ UNCHANGED picked

\* handle_display_showinfo for a line of the list ...
Pick(c) ==
  /\ c # last
  /\ picked' = TRUE
  /\ DisplayMessage(kept[c])
  /\ ack' = None
  /\ UNCHANGED <<last, kept>>

\* ... for an empty line ...
PickEmpty ==
  /\ picked' = TRUE
  /\ ShowNothing
  /\ ack' = None
  /\ UNCHANGED <<last, kept>>

\* ... and for the station heard last.
PickLast ==
  /\ picked' = FALSE
  /\ DisplayMessage(IF last = None THEN None ELSE kept[last])
  /\ ack' = None
  /\ UNCHANGED <<last, kept>>

Next ==
  \/ \E p \in Packets : Hear(p)
  \/ \E c \in Calls : Pick(c)
  \/ PickEmpty
  \/ PickLast

Spec == Init /\ [][Next]_vars

-----------------------------------------------------------------------------
(* Properties.                                                             *)

\* The message saved a places before the index.
Window == [a \in Slots |-> msghist[(msghist_idx + K - 1 - a) % K]]

\* The ring of messages is the window of the last K: wrapping around,
\* overwriting and failing allocations change what is remembered only as the
\* abstract window does, and of the messages given to the panel to show, those
\* that are remembered are held back and no others.
MW == INSTANCE MsgWindow WITH window <- Window
ImplementsWindow == MW!MWSpec

\* A message is shown a second time only after K others were saved in
\* between, however often it is repeated, relayed by third parties or looked
\* up again, unless memory was short when it was saved or overwritten.
RepeatsAreOld ==
  [][\A k \in Keys : screen' = k => age[k] = K \/ k \in forgot]_vars

\* Whoever gets an ack while the user looks at the latest packet can rely on
\* the message having been on the screen: it is shown by then or is one of
\* those remembered.
AckedIsShown ==
  ack # None /\ ~picked => screen = Key(ack) \/ age[Key(ack)] < K
=============================================================================
