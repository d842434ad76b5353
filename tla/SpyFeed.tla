------------------------------- MODULE SpyFeed -------------------------------
(***************************************************************************)
(* The packet spy: the capture program aprs-ax25 (aprs-ax25.c built with   *)
(* MAIN) and the web server it feeds (spy-server.js).                      *)
(*                                                                         *)
(* The capture opens a socket on the AX.25 stack, connects to the server's *)
(* Unix socket and then turns each frame it receives into one numbered     *)
(* object.  The server has no buffer: what a read returns is one object,   *)
(* or is cut at every "}{" and the rest passed on as it is.  What is       *)
(* passed on goes to every listed page and into a history that a new page  *)
(* is sent.  A page is listed at the end and removed at the index it had   *)
(* then.                                                                   *)
(*                                                                         *)
(* X_Faulty is a plausible wrong version of X that the specification does  *)
(* not use.                                                                *)
(***************************************************************************)
EXTENDS DisplaySocket, FiniteSets

CONSTANTS
    Viewers,        \* browser pages
    Frames,         \* what the AX.25 socket may deliver
    MaxMsgStore,    \* spy_maxMsgStore
    MaxFrame,       \* the longest frame that qualifies, 512 bytes
    MaxSpied,       \* bound: frames passed on in all
    MaxListed       \* bound: entries in the list, which may keep closed pages

ASSUME SpyAssumption ==
    /\ MaxMsgStore \in Nat \ {0}
    /\ MaxSpied \in Nat /\ MaxListed \in Nat

VARIABLES
    capture,        \* "off", "link" (in ui_connect for the first time), "loop"
    tncfd,          \* what aprsax25_connect returned: "none", "stdout", "rx"
    pktcount,       \* number of the last object of this run of the capture
    spied,          \* frames passed on in all
    spyClients,     \* the pages listed
    index,          \* where a page was put in the list
    spy_Message,    \* the history
    spy_totMsg,     \* how many messages it was given
    viewing,        \* pages whose connection is open
    \* only read by properties
    latest          \* the last MaxMsgStore it passed on while a page was listed

captureVars == <<capture, tncfd, pktcount, spied>>
spyVars == <<spyClients, index, spy_Message, spy_totMsg, viewing, latest>>
feedVars == <<socketVars, captureVars, spyVars>>

SpyTypeOK ==
    /\ SocketTypeOK
    /\ capture \in {"off", "link", "loop"}
    /\ tncfd \in {"none", "stdout", "rx"}
    /\ pktcount \in 0..spied /\ spied \in 0..MaxSpied
    /\ spyClients \in Seq(Viewers) /\ viewing \subseteq Viewers
    /\ index \in [Viewers -> Nat]
    /\ spy_Message \in Seq(Seq(Piece)) /\ spy_totMsg \in Nat
    /\ Len(spy_Message) <= MaxMsgStore
    /\ latest \in Seq(Seq(Piece))

ServerBlank ==
    /\ spyClients = <<>> /\ index = [v \in Viewers |-> 0]
    /\ spy_Message = <<>> /\ spy_totMsg = 0
    /\ viewing = {}
    /\ latest = <<>>

SpyInit ==
    /\ SocketInit
    /\ capture = "off" /\ tncfd = "none" /\ pktcount = 0 /\ spied = 0
    /\ ServerBlank

-----------------------------------------------------------------------------
(* The capture program.                                                    *)

\* aprsax25_connect: which step of its set-up fails first decides what it
\* returns; a transmit socket that cannot be bound returns 1, not -1.
SetupFaults == {"ports", "device", "receive", "callsign", "source", "path",
                "destination", "transmit"}

Aprsax25Connect(fault) ==
    CASE fault \in SetupFaults -> "none"
      [] fault = "bind" -> "stdout"
      [] OTHER -> "rx"

\* live_packets until its loop: without a socket the program ends.
StartCapture ==
    /\ capture = "off"
    /\ \E fault \in SetupFaults \cup {"bind", "no"} :
         /\ Aprsax25Connect(fault) # "none"
         /\ tncfd' = Aprsax25Connect(fault)
    /\ capture' = "link" /\ pktcount' = 0
    /\ UNCHANGED <<socketVars, spied, spyVars>>

\* ui_connect, whoever calls it: ui_unix_sock_wait removes the file ...
CaptureWaits == capture = "link" /\ StartWaiting /\ UNCHANGED <<captureVars, spyVars>>

\* ... and waits for another ...
CaptureSees == FileSeen /\ UNCHANGED <<captureVars, spyVars>>

\* ... to connect to; send_ui_sock then sends, live_packets starts to read.
CaptureConnects ==
    /\ Connect(IF capture = "link" THEN <<>> ELSE Pieces(pktcount))
    /\ capture' = "loop"
    /\ UNCHANGED <<tncfd, pktcount, spied, spyVars>>

\* packet_qualify: promiscuous, so the protocol is looked at.
Qualifies(f) == f.proto = "AX25" /\ f.size - 1 <= MaxFrame /\ f.address

\* handle_ax25_pkt: the frame is decoded, dumped and counted, and its object
\* sent by send_ui_sock, which connects first if it has to.  Whether the dump
\* calls the header bad makes no difference to the rest.
HandlePkt ==
    /\ spied < MaxSpied
    /\ pktcount' = pktcount + 1 /\ spied' = spied + 1
    /\ IF dspfd = NoFd
         THEN StartWaiting
         ELSE /\ Put(pktcount + 1)
              /\ UNCHANGED <<daemon, path, server, life, unlinking, accepted>>

\* live_packets: a frame of eight bytes or more loses its KISS byte and is
\* handled; a shorter one is a KISS parameter, which is only printed.
Receive(f) ==
    /\ capture = "loop" /\ daemon = "loop" /\ tncfd = "rx"
    /\ f.size >= 8 /\ Qualifies(f)
    /\ HandlePkt
    /\ UNCHANGED <<capture, tncfd, spyVars>>

\* The loop ends: an error or nothing read, a record file that cannot be
\* written; on standard output at its first read.  Or the program is killed.
CaptureEnds ==
    /\ capture # "off"
    /\ capture' = "off" /\ tncfd' = "none"
    /\ DaemonRestart
    /\ UNCHANGED <<pktcount, spied, spyVars>>

CaptureNext ==
    \/ StartCapture \/ CaptureWaits \/ CaptureSees \/ CaptureConnects
    \/ \E f \in Frames : Receive(f)
    \/ CaptureEnds

-----------------------------------------------------------------------------
(* The server.                                                             *)

Forget ==
    /\ spyClients' = <<>> /\ index' = [v \in Viewers |-> 0]
    /\ spy_Message' = <<>> /\ spy_totMsg' = 0
    /\ viewing' = {}
    /\ latest' = <<>>

SpyLives ==
    \/ (ServerStart \/ UnlinkDone \/ Listen) /\ UNCHANGED <<captureVars, spyVars>>
    \/ ServerDies /\ Forget /\ UNCHANGED captureVars

\* The data handler: one object, or all the parts between "}{", the last one
\* whether it is complete or not.
Emissions(data) == IF IsObject(data) THEN <<data>> ELSE Segments(data)

\* The spy_display handler, when a page is listed.
Store_Faulty(st, message) ==
    [tot |-> st.tot + 1,
     msgs |-> Append(IF st.tot > MaxMsgStore THEN Tail(st.msgs) ELSE st.msgs, message)]

Store(st, message) ==
    [tot |-> st.tot + 1,
     msgs |-> Append(IF st.tot + 1 > MaxMsgStore THEN Tail(st.msgs) ELSE st.msgs,
                     message)]

\* ... which it is for each message of a read, in turn.
Stored(st, out) ==
    LET after[i \in 0..Len(out)] == IF i = 0 THEN st ELSE Store(after[i - 1], out[i])
    IN  after[Len(out)]

LastOf(msgs) == SubSeq(msgs, Max({1, Len(msgs) - MaxMsgStore + 1}), Len(msgs))

SpyData ==
    /\ server = "up"
    /\ \E n \in 1..Len(toUi) :
         LET data == SubSeq(toUi, 1, n)
             out == Emissions(data)
             st == Stored([tot |-> spy_totMsg, msgs |-> spy_Message], out)
         IN  /\ toUi' = SubSeq(toUi, n + 1, Len(toUi))
             /\ IF spyClients # <<>>
                  THEN /\ spy_totMsg' = st.tot /\ spy_Message' = st.msgs
                       /\ latest' = LastOf(latest \o out)
                  ELSE UNCHANGED <<spy_totMsg, spy_Message, latest>>
    /\ UNCHANGED <<daemon, dspfd, path, server, life, unlinking, accepted>>
    /\ UNCHANGED <<captureVars, spyClients, index, viewing>>

\* A page connects; refreshBrowser sends it the history.
ViewerComes(v) ==
    /\ server = "up" /\ v \notin viewing
    /\ Len(spyClients) < MaxListed
    /\ spyClients' = Append(spyClients, v)
    /\ index' = [index EXCEPT ![v] = Len(spyClients)]
    /\ viewing' = viewing \cup {v}
    /\ UNCHANGED <<socketVars, captureVars, spy_Message, spy_totMsg, latest>>

\* splice(index, 1): nothing when the list has become shorter than that.
Splice(list, i) == IF i + 1 \in DOMAIN list THEN RemoveAt(list, i + 1) ELSE list

ViewerGoes(v) ==
    /\ v \in viewing
    /\ spyClients' = Splice(spyClients, index[v])
    /\ viewing' = viewing \ {v}
    /\ index' = [index EXCEPT ![v] = 0]
    /\ UNCHANGED <<socketVars, captureVars, spy_Message, spy_totMsg, latest>>

SpyNext ==
    \/ CaptureNext \/ SpyLives \/ SpyData
    \/ \E v \in Viewers : ViewerComes(v) \/ ViewerGoes(v)

SpySpec == SpyInit /\ [][SpyNext]_feedVars

-----------------------------------------------------------------------------
(* Properties.                                                             *)

\* The history is the latest messages: the count kept beside the array says
\* how many of it a new page is sent (spy-server.js:43,141-144).
HistoryIsRecent ==
    /\ spy_Message = latest
    /\ Len(spy_Message) = Min({spy_totMsg, MaxMsgStore})

\* The objects in the history have increasing numbers, although the count
\* starts anew with the capture: a capture that was restarted cannot reach the
\* server it fed before (aprs-ax25.c:576-583, 685).
CountsIncrease ==
    \A i, j \in DOMAIN spy_Message :
        i < j /\ IsObject(spy_Message[i]) /\ IsObject(spy_Message[j])
            => spy_Message[i][1].obj < spy_Message[j][1].obj
=============================================================================
