------------------------------- MODULE UiLink -------------------------------
(***************************************************************************)
(* The tracker's display link: the daemon (aprs.c, uiclient.c), the web    *)
(* server (tracker-server.js) and the pages connected to it.               *)
(*                                                                         *)
(* The daemon writes display objects; the server puts what it reads back   *)
(* together and passes it on to every page.  A page's commands go the      *)
(* other way: the server keeps the chat messages among them in its         *)
(* history, tells every page, and writes the command to the socket of      *)
(* every connection it ever accepted.  The daemon reads all that has       *)
(* arrived and acts on the first command of it.                            *)
(*                                                                         *)
(* The daemon's work is in its other modules: here it sends an object now  *)
(* and then, which may be refused, and sends nothing while it waits.       *)
(*                                                                         *)
(* X_Faulty is a plausible wrong version of X that the specification does  *)
(* not use.                                                                *)
(***************************************************************************)
EXTENDS DisplaySocket, FiniteSets

CONSTANTS
    Pages,          \* browser pages
    Calls,          \* callsigns a user may enter as addressee
    NoCall,         \* false, before one is entered
    HistoryLen,     \* history.slice(-5)
    MaxObjects,     \* bound: objects the daemon sends
    MaxCommands     \* bound: commands all pages send

ASSUME UiLinkAssumption ==
    /\ HistoryLen \in Nat \ {0}
    /\ MaxObjects \in Nat /\ MaxCommands \in Nat
    /\ NoCall \notin Calls

VARIABLES
    made,           \* objects made so far; the last one may wait to be sent
    toDaemon,       \* commands written by the server, not read by the daemon
    jchunk,         \* the server's buffer for the connection
    shown,          \* what this life passed on to the pages, in order
    trkClients,     \* pages the server knows, in the order they came
    history,        \* the latest chat messages
    destName,       \* server: addressee of the page's next message
    chosen,         \* page: addressee the user entered for the next message
    commands,       \* commands sent by pages so far
    \* only read by properties
    open,           \* pages whose connection is open
    told,           \* messages each page was told of
    written,        \* pieces written on the connection of this life
    executed        \* commands the daemon acted on, in order

pageVars == <<trkClients, history, destName, chosen, commands, open, told>>
streamVars == <<jchunk, shown, written>>
vars == <<socketVars, made, toDaemon, streamVars, pageVars, executed>>

Kinds == {"message", "getconfig", "setconfig", "sysctrl"}
Command == [id : 1..MaxCommands, kind : Kinds]
Message == [id : 1..MaxCommands, to : Calls \cup {NoCall}, meant : Calls \cup {NoCall}]

TypeOK ==
    /\ SocketTypeOK
    /\ made \in 0..MaxObjects
    /\ toDaemon \in Seq(Command)
    /\ jchunk \in Seq(Piece) /\ written \in Seq(Piece)
    /\ shown \in Seq(Seq(Piece))
    /\ trkClients \in Seq(Pages)
    /\ history \in Seq(Message) /\ Len(history) <= HistoryLen
    /\ destName \in [Pages -> Calls \cup {NoCall}]
    /\ chosen \in [Pages -> Calls \cup {NoCall}]
    /\ commands \in 0..MaxCommands
    /\ open \in SUBSET Pages
    /\ told \in [Pages -> SUBSET (1..MaxCommands)]
    /\ executed \in Seq(1..MaxCommands)

Init ==
    /\ SocketInit
    /\ made = 0 /\ toDaemon = <<>>
    /\ jchunk = <<>> /\ shown = <<>> /\ written = <<>>
    /\ trkClients = <<>> /\ history = <<>> /\ open = {}
    /\ destName = [p \in Pages |-> NoCall] /\ chosen = [p \in Pages |-> NoCall]
    /\ told = [p \in Pages |-> {}]
    /\ commands = 0 /\ executed = <<>>

-----------------------------------------------------------------------------
(* The daemon.                                                             *)

\* _ui_send without a connection: the object waits in ui_connect.
SendWaits ==
    /\ made < MaxObjects
    /\ StartWaiting
    /\ made' = made + 1
    /\ UNCHANGED <<toDaemon, streamVars, pageVars, executed>>

WaitEnds == FileSeen /\ UNCHANGED <<made, toDaemon, streamVars, pageVars, executed>>

\* ui_connect returns and _ui_send goes on with what it was called for.
ConnectAndSend ==
    /\ Connect(Pieces(made))
    /\ written' = IF dspfd' = NoFd THEN written ELSE Pieces(made)
    /\ jchunk' = IF dspfd' = NoFd THEN jchunk ELSE <<>>
    /\ toDaemon' = <<>>
    /\ UNCHANGED <<made, shown, pageVars, executed>>

\* ui_send of the next object on a valid descriptor.
PutNext ==
    /\ made < MaxObjects
    /\ Put(made + 1)
    /\ made' = made + 1
    /\ written' = IF Linked THEN written \o Pieces(made + 1) ELSE written

UiSend ==
    /\ daemon = "loop" /\ dspfd # NoFd
    /\ PutNext
    /\ UNCHANGED <<daemon, path, server, life, unlinking, accepted>>
    /\ UNCHANGED <<toDaemon, jchunk, shown, pageVars, executed>>

\* handle_display: everything that has arrived is read as one string, of which
\* the first command is taken.  A message is sent over the air with I_TX to the
\* display, a getconfig answered with CF_CALL.
HandleDisplay_Faulty ==
    /\ daemon = "loop" /\ dspfd # NoFd /\ toDaemon # <<>>
    /\ executed' = Append(executed, Head(toDaemon).id)
    /\ IF Head(toDaemon).kind \in {"message", "getconfig"}
         THEN PutNext
         ELSE UNCHANGED <<dspfd, toUi, made, written>>
    /\ Len(executed) < MaxCommands
    /\ UNCHANGED <<daemon, path, server, life, unlinking, accepted>>
    /\ UNCHANGED <<jchunk, shown, pageVars, toDaemon>>

HandleDisplay ==
    /\ daemon = "loop" /\ dspfd # NoFd /\ toDaemon # <<>>
    /\ toDaemon' = <<>>
    /\ executed' = Append(executed, Head(toDaemon).id)
    /\ IF Head(toDaemon).kind \in {"message", "getconfig"}
         THEN PutNext
         ELSE UNCHANGED <<dspfd, toUi, made, written>>
    /\ UNCHANGED <<daemon, path, server, life, unlinking, accepted>>
    /\ UNCHANGED <<jchunk, shown, pageVars>>

\* handle_display reads the end of the connection, or its reset.
HandleHangup ==
    /\ daemon = "loop" /\ dspfd # NoFd /\ ~Linked
    /\ dspfd' = NoFd /\ toDaemon' = <<>>
    /\ UNCHANGED <<daemon, path, server, life, unlinking, accepted, toUi>>
    /\ UNCHANGED <<made, streamVars, pageVars, executed>>

Restart ==
    /\ DaemonRestart
    /\ toDaemon' = <<>>
    /\ UNCHANGED <<made, streamVars, pageVars, executed>>

-----------------------------------------------------------------------------
(* The server.                                                             *)

\* What a server that ends, or begins, knows.
Forgotten ==
    /\ jchunk' = <<>> /\ shown' = <<>> /\ written' = <<>>
    /\ trkClients' = <<>> /\ history' = <<>> /\ open' = {}
    /\ destName' = [p \in Pages |-> NoCall] /\ chosen' = [p \in Pages |-> NoCall]
    /\ told' = [p \in Pages |-> {}]

Start == ServerStart /\ UNCHANGED <<made, toDaemon, streamVars, pageVars, executed>>
Unlinked == UnlinkDone /\ UNCHANGED <<made, toDaemon, streamVars, pageVars, executed>>
Listens == Listen /\ UNCHANGED <<made, toDaemon, streamVars, pageVars, executed>>
Dies == ServerDies /\ Forgotten /\ UNCHANGED <<made, toDaemon, commands, executed>>

\* sock.on('data'): the buffer is cut at every "}{"; the parts before one are
\* passed on as they are, the last when it is a complete object.
Reassemble_Faulty(buf) ==
    LET parts == Segments(buf)
        whole == IsObject(Last(parts))
    IN  [out |-> IF whole THEN parts ELSE Front(parts), keep |-> <<>>]

Reassemble(buf) ==
    LET parts == Segments(buf)
        whole == IsObject(Last(parts))
    IN  [out |-> IF whole THEN parts ELSE Front(parts),
         keep |-> IF whole THEN <<>> ELSE Last(parts)]

Data ==
    /\ server = "up"
    /\ \E n \in 1..Len(toUi) :
         LET r == Reassemble(jchunk \o SubSeq(toUi, 1, n))
         IN  /\ toUi' = SubSeq(toUi, n + 1, Len(toUi))
             /\ shown' = shown \o r.out
             /\ jchunk' = r.keep
    /\ UNCHANGED <<daemon, dspfd, path, server, life, unlinking, accepted>>
    /\ UNCHANGED <<made, toDaemon, written, pageVars, executed>>

\* msg_emitter.emit: the listeners of every connection of this life write the
\* command.  A write to a socket that is closed is an 'error' event without a
\* listener: depending on the node version it is dropped or ends the process.
Emit(kind) ==
    LET cmd == [id |-> commands + 1, kind |-> kind]
    IN  /\ commands' = commands + 1
        /\ toDaemon' = IF Linked THEN Append(toDaemon, cmd) ELSE toDaemon
        /\ UNCHANGED <<made, streamVars, executed, socketVars>>

EmitFails ==
    /\ commands < MaxCommands /\ open # {}
    /\ accepted > (IF Linked THEN 1 ELSE 0)
    /\ commands' = commands + 1
    /\ ServerDies /\ Forgotten
    /\ UNCHANGED <<made, toDaemon, executed>>

-----------------------------------------------------------------------------
(* The pages.                                                              *)

Ids(msgs) == {msgs[i].id : i \in DOMAIN msgs}

\* wsServer.on('request'): a new page is appended and sent the history.
Request(p) ==
    /\ server = "up" /\ p \notin open
    /\ trkClients' = Append(trkClients, p)
    /\ open' = open \cup {p}
    /\ told' = [told EXCEPT ![p] = Ids(history)]
    /\ destName' = [destName EXCEPT ![p] = NoCall]
    /\ chosen' = [chosen EXCEPT ![p] = NoCall]
    /\ UNCHANGED <<socketVars, made, toDaemon, streamVars, history, commands, executed>>

\* connection.on('close'): the first entry with the connection's id is taken
\* out.
RemoveClient_Faulty(p) == Front(trkClients)

RemoveClient(p) == RemoveAt(trkClients, Min({i \in DOMAIN trkClients : trkClients[i] = p}))

Close(p) ==
    /\ p \in open
    /\ trkClients' = RemoveClient(p)
    /\ open' = open \ {p}
    /\ UNCHANGED <<socketVars, made, toDaemon, streamVars, history, destName,
                   chosen, commands, told, executed>>

\* The user enters an addressee; the page remembers it and tells the server.
SendTo(p, c) ==
    /\ p \in open
    /\ chosen' = [chosen EXCEPT ![p] = c]
    /\ destName' = [destName EXCEPT ![p] = c]
    /\ UNCHANGED <<socketVars, made, toDaemon, streamVars, trkClients, history,
                   commands, open, told, executed>>

\* The page sends a message only after an addressee was entered for it.
MayMessage_Faulty(p) == TRUE

MayMessage(p) == chosen[p] # NoCall

\* history.slice(-5)
Latest_Faulty(msgs) == msgs

Latest(msgs) == SubSeq(msgs, Max({1, Len(msgs) - HistoryLen + 1}), Len(msgs))

\* A chat message: kept, told to every known page and emitted.
ChatMessage(p) ==
    /\ p \in open /\ commands < MaxCommands /\ MayMessage(p)
    /\ LET obj == [id |-> commands + 1, to |-> destName[p], meant |-> chosen[p]]
           all == Append(history, obj)
       IN  history' = Latest(all)
    /\ told' = [q \in Pages |-> IF q \in Range(trkClients)
                                THEN told[q] \cup {commands + 1} ELSE told[q]]
    /\ destName' = [destName EXCEPT ![p] = NoCall]
    /\ chosen' = [chosen EXCEPT ![p] = NoCall]
    /\ Emit("message")
    /\ UNCHANGED <<trkClients, open>>

\* A page's getconfig (sent when it opens), setconfig or sysctrl.
Control(p, kind) ==
    /\ p \in open /\ commands < MaxCommands
    /\ Emit(kind)
    /\ UNCHANGED <<trkClients, history, destName, chosen, open, told>>

-----------------------------------------------------------------------------
DaemonNext == SendWaits \/ WaitEnds \/ ConnectAndSend \/ UiSend
                \/ HandleDisplay \/ HandleHangup
ServerNext == Unlinked \/ Listens \/ Data
PageNext ==
    \E p \in Pages :
        \/ Request(p) \/ Close(p) \/ ChatMessage(p)
        \/ \E c \in Calls : SendTo(p, c)
        \/ \E k \in Kinds \ {"message"} : Control(p, k)
Next == DaemonNext \/ ServerNext \/ PageNext \/ Start \/ Dies \/ Restart \/ EmitFails

\* A daemon inside ui_connect goes on when it can: nothing else runs in its
\* process.  That a program is started or killed, that the daemon has news or a
\* user does something, is not promised.
Spec == Init /\ [][Next]_vars /\ WF_vars(WaitEnds \/ ConnectAndSend)

-----------------------------------------------------------------------------
(* Properties.                                                             *)

\* A life of the server never accepts a second connection: the daemon removes
\* the socket file before it looks for one, so a daemon that lost or left its
\* server is served only by a server started later (uiclient.c:54).  The
\* listeners of tracker-server.js:426-439 rely on it: they are never removed.
OneConnectionPerLife == accepted <= 1

\* Nothing the daemon wrote is lost, doubled or reordered between its send and
\* the pages, however the reads cut the stream, and what is passed on is one
\* object each, or a part of one whose own text holds "}{"
\* (tracker-server.js:390-419).
StreamIntact ==
    /\ server = "up" => FlattenSeq(shown) \o jchunk \o toUi = written
    /\ \A i \in DOMAIN shown :
         \/ IsObject(shown[i])
         \/ Len(shown[i]) = 1 /\ shown[i][1].obj \in Braced

\* A command is acted on at most once and never after a later one, though it
\* is written once for every connection there has been and may wait in a
\* socket while the daemon or the server restarts (uiclient.c:220-231).
CommandsInOrder ==
    \A i, j \in DOMAIN executed : i < j => executed[i] < executed[j]

\* A page that is open has been told of every message in the history, also
\* after others left in any order (tracker-server.js:339-350).
EveryPageTold == \A p \in open : Ids(history) \subseteq told[p]

\* A message goes to the station its own page entered last, and was entered:
\* the server forgets the addressee after each message and would send the next
\* to "FALSE" (tracker-server.js:327, uiclient.c:277).
AddressedAsMeant ==
    \A i \in DOMAIN history : history[i].to = history[i].meant /\ history[i].to # NoCall

\* A daemon that waits finds a server that comes up after it began to wait, if
\* the server removed the old file before it bound its own (uiclient.c:64).
ServerFound ==
    (daemon = "wait" /\ server = "up" /\ path = life /\ ~unlinking)
        ~> (daemon = "loop" \/ server # "up")

\* "Wait for the socket to be created by the node script" (uiclient.c:62): a
\* daemon that waits while the node script runs gets its connection.
WaitIsAnswered ==
    (daemon = "wait" /\ server = "up") ~> (daemon = "loop" \/ server # "up")
=============================================================================
