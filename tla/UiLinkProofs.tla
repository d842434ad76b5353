---------------------------- MODULE UiLinkProofs ----------------------------
(* The daemon and its web server, for any number of lives, pages, objects  *)
(* and commands: one connection for each life, a stream that arrives as it *)
(* was written, messages that go where their page meant them to and are    *)
(* told to every page, and commands carried out in their order.            *)

EXTENDS UiLink, DisplaySocketProofs

-----------------------------------------------------------------------------
(* Connections.                                                            *)

LEMMA LinkInvariance == Spec => []LinkInv
<1>1. Init => LinkInv
    BY DEF Init, SocketInit, LinkInv, NoFile
<1>2. ASSUME LinkInv, [Next]_vars PROVE LinkInv'
    <2>1. CASE DaemonNext
        <3>1. \/ StartWaiting \/ FileSeen \/ (\E pieces : Connect(pieces)) \/ Quiet
            BY <2>1 DEF DaemonNext, SendWaits, WaitEnds, ConnectAndSend, UiSend,
                        HandleDisplay, HandleHangup, Quiet
        <3>2. QED BY <1>2, <3>1, SocketKeeps
    <2>2. CASE ServerNext
        <3>1. UnlinkDone \/ Listen \/ Quiet
            BY <2>2 DEF ServerNext, Unlinked, Listens, Data, Quiet
        <3>2. QED BY <1>2, <3>1, SocketKeeps
    <2>3. CASE PageNext
        <3>1. Quiet
            BY <2>3 DEF PageNext, Request, Close, ChatMessage, SendTo, Control, Emit,
                        socketVars, Quiet
        <3>2. QED BY <1>2, <3>1, SocketKeeps
    <2>4. CASE Start \/ Dies \/ Restart \/ EmitFails
        <3>1. ServerStart \/ ServerDies \/ DaemonRestart
            BY <2>4 DEF Start, Dies, Restart, EmitFails
        <3>2. QED BY <1>2, <3>1, SocketKeeps
    <2>5. CASE UNCHANGED vars
        <3>1. Quiet
            BY <2>5 DEF vars, socketVars, Quiet
        <3>2. QED BY <1>2, <3>1, SocketKeeps
    <2>6. QED BY <1>2, <2>1, <2>2, <2>3, <2>4, <2>5 DEF Next
<1>3. QED BY <1>1, <1>2, PTL DEF Spec

\* No life of the server accepts a second connection, however often the daemon
\* and the server are killed and started: the listeners that tracker-server.js
\* never removes are one set (tracker-server.js:426-439).
THEOREM OneConnection == Spec => []OneConnectionPerLife
<1>1. LinkInv => OneConnectionPerLife
    BY DEF LinkInv, OneConnectionPerLife
<1>2. QED BY <1>1, LinkInvariance, PTL

-----------------------------------------------------------------------------
(* Addressees.                                                             *)

\* Page and server know the same addressee for the page's next message.
Good == {m \in [id : Nat, to : Calls, meant : Calls] : m.to = m.meant}
DestInv ==
    /\ commands \in Nat
    /\ destName \in [Pages -> Calls \cup {NoCall}] /\ destName = chosen
    /\ history \in Seq(Good)

\* history.slice(-5) takes only what is there.
LEMMA LatestOnly ==
    ASSUME NEW S, NEW msgs \in Seq(S)
    PROVE  Latest(msgs) \in Seq(S)
<1> DEFINE m == Max({1, Len(msgs) - HistoryLen + 1})
<1>1. m \in Int /\ m >= 1
    BY MaxOfTwo, UiLinkAssumption
<1>2. Latest(msgs) = SubSeq(msgs, m, Len(msgs))
    BY DEF Latest
<1> HIDE DEF m
<1>3. \A i \in m..Len(msgs) : msgs[i] \in S
    BY <1>1
<1>4. QED BY <1>1, <1>2, <1>3, SubSeqProperties

LEMMA DestInvariance == Spec => []DestInv
<1> USE UiLinkAssumption
<1>1. Init => DestInv
    BY DEF Init, DestInv
<1>2. ASSUME DestInv, [Next]_vars PROVE DestInv'
    <2>1. ASSUME UNCHANGED <<destName, chosen, history>>, commands' \in Nat PROVE DestInv'
        BY <1>2, <2>1 DEF DestInv
    <2>2. ASSUME NEW p \in Pages, NEW c \in Calls, SendTo(p, c) PROVE DestInv'
        BY <1>2, <2>2 DEF DestInv, SendTo
    <2>3. ASSUME NEW p \in Pages, Request(p) PROVE DestInv'
        BY <1>2, <2>3 DEF DestInv, Request
    <2>4. ASSUME NEW p \in Pages, ChatMessage(p) PROVE DestInv'
        <3> DEFINE obj == [id |-> commands + 1, to |-> destName[p], meant |-> chosen[p]]
                   all == Append(history, obj)
        <3>1. obj \in Good
            BY <1>2, <2>4 DEF Good, DestInv, ChatMessage, MayMessage
        <3>2. all \in Seq(Good)
            <4> HIDE DEF obj
            <4>1. QED BY <1>2, <3>1 DEF DestInv
        <3>3. history' = Latest(all) /\ commands' = commands + 1
            BY <2>4 DEF ChatMessage, Emit
        <3>4. destName' = [destName EXCEPT ![p] = NoCall] /\ chosen' = [chosen EXCEPT ![p] = NoCall]
            BY <2>4 DEF ChatMessage
        <3> HIDE DEF all
        <3>5. history' \in Seq(Good)
            BY <3>2, <3>3, LatestOnly
        <3>6. QED BY <1>2, <3>3, <3>4, <3>5 DEF DestInv
    <2>5. ASSUME Forgotten, commands' \in Nat PROVE DestInv'
        BY <2>5 DEF DestInv, Forgotten
    <2>6. CASE PageNext
        <3>1. PICK p \in Pages :
                \/ Request(p) \/ Close(p) \/ ChatMessage(p)
                \/ \E c \in Calls : SendTo(p, c)
                \/ \E k \in Kinds \ {"message"} : Control(p, k)
            BY <2>6 DEF PageNext
        <3>2. CASE Close(p)
            BY <1>2, <2>1, <3>2 DEF Close, DestInv
        <3>3. ASSUME NEW k, Control(p, k) PROVE DestInv'
            <4>1. UNCHANGED <<destName, chosen, history>> /\ commands' = commands + 1
                BY <3>3 DEF Control, Emit
            <4>2. QED BY <1>2, <2>1, <4>1 DEF DestInv
        <3>4. QED BY <2>2, <2>3, <2>4, <3>1, <3>2, <3>3
    <2>7. CASE DaemonNext \/ ServerNext \/ Start \/ Restart
        BY <1>2, <2>1, <2>7 DEF DaemonNext, SendWaits, WaitEnds, ConnectAndSend, UiSend,
              HandleDisplay, HandleHangup, ServerNext, Unlinked, Listens, Data, Start,
              Restart, pageVars, DestInv
    <2>8. CASE Dies \/ EmitFails
        BY <1>2, <2>5, <2>8 DEF Dies, EmitFails, DestInv
    <2>9. CASE UNCHANGED vars
        BY <1>2, <2>1, <2>9 DEF vars, pageVars, DestInv
    <2>10. QED BY <1>2, <2>6, <2>7, <2>8, <2>9 DEF Next
<1>3. QED BY <1>1, <1>2, PTL DEF Spec

\* Every message in the history is for the station its page entered last
\* (tracker-server.js:293-327, tracker-frontend.js:693-717).
THEOREM MessagesAddressed == Spec => []AddressedAsMeant
<1>1. DestInv => AddressedAsMeant
    <2> SUFFICES ASSUME DestInv, NEW i \in DOMAIN history
                 PROVE  history[i].to = history[i].meant /\ history[i].to # NoCall
        BY DEF AddressedAsMeant
    <2>1. history[i] \in Good
        BY DEF DestInv
    <2>2. QED BY <2>1, UiLinkAssumption DEF Good
<1>2. QED BY <1>1, DestInvariance, PTL

-----------------------------------------------------------------------------
(* Commands.                                                               *)

\* The commands on their way are newer than all that were executed, and in the
\* order in which they were given.
CommandInv ==
    /\ commands \in 0..MaxCommands
    /\ toDaemon \in Seq(Command)
    /\ executed \in Seq(1..MaxCommands)
    /\ CommandsInOrder
    /\ \A i, j \in DOMAIN toDaemon : i < j => toDaemon[i].id < toDaemon[j].id
    /\ \A i \in DOMAIN toDaemon :
         /\ toDaemon[i].id <= commands
         /\ \A j \in DOMAIN executed : executed[j] < toDaemon[i].id
    /\ \A j \in DOMAIN executed : executed[j] <= commands

LEMMA CommandTypes ==
    ASSUME CommandInv
    PROVE  /\ commands \in Nat
           /\ Len(toDaemon) \in Nat /\ DOMAIN toDaemon = 1..Len(toDaemon)
           /\ Len(executed) \in Nat /\ DOMAIN executed = 1..Len(executed)
           /\ \A i \in DOMAIN toDaemon : toDaemon[i] \in Command /\ toDaemon[i].id \in Nat
           /\ \A j \in DOMAIN executed : executed[j] \in Nat
<1>1. commands \in Nat /\ 1..MaxCommands \subseteq Nat
    BY UiLinkAssumption DEF CommandInv
<1>2. /\ Len(toDaemon) \in Nat /\ DOMAIN toDaemon = 1..Len(toDaemon)
      /\ Len(executed) \in Nat /\ DOMAIN executed = 1..Len(executed)
    BY LenProperties DEF CommandInv
<1>3. \A i \in DOMAIN toDaemon : toDaemon[i] \in Command
    BY <1>2, ElementOfSeq DEF CommandInv
<1>4. \A j \in DOMAIN executed : executed[j] \in 1..MaxCommands
    BY <1>2, ElementOfSeq DEF CommandInv
<1>5. \A c \in Command : c.id \in Nat
    BY <1>1 DEF Command
<1>6. QED BY <1>1, <1>2, <1>3, <1>4, <1>5

LEMMA EmitKeepsOrder ==
    ASSUME CommandInv, NEW k \in Kinds, commands < MaxCommands, Emit(k)
    PROVE  CommandInv'
<1> DEFINE cmd == [id |-> commands + 1, kind |-> k]
<1>1. /\ commands' = commands + 1 /\ executed' = executed
      /\ toDaemon' = Append(toDaemon, cmd) \/ toDaemon' = toDaemon
    BY DEF Emit
<1>2. commands \in Nat /\ cmd \in Command /\ cmd.id = commands + 1
    BY UiLinkAssumption DEF CommandInv, Command
<1> HIDE DEF cmd
<1>3. CASE toDaemon' = toDaemon
    <2>1. /\ commands' \in 0..MaxCommands
          /\ \A i \in DOMAIN toDaemon : toDaemon[i].id <= commands + 1
          /\ \A j \in DOMAIN executed : executed[j] <= commands + 1
        BY <1>1, <1>2, CommandTypes, UiLinkAssumption DEF CommandInv
    <2>2. QED BY <1>1, <1>3, <2>1 DEF CommandInv, CommandsInOrder
<1>4. CASE toDaemon' = Append(toDaemon, cmd)
    <2>1. /\ toDaemon' \in Seq(Command)
          /\ DOMAIN toDaemon = 1..Len(toDaemon) /\ Len(toDaemon) \in Nat
          /\ DOMAIN toDaemon' = 1..(Len(toDaemon) + 1)
          /\ \A i \in 1..Len(toDaemon) : toDaemon'[i] = toDaemon[i]
          /\ toDaemon'[Len(toDaemon) + 1] = cmd
        BY <1>2, <1>4 DEF CommandInv
    <2>2. \A i \in DOMAIN toDaemon : toDaemon[i].id \in Nat
        BY CommandTypes
    <2>3. \A j \in DOMAIN executed : executed[j] \in Nat
        BY CommandTypes
    <2>4. \A i, j \in DOMAIN toDaemon' : i < j => toDaemon'[i].id < toDaemon'[j].id
        BY <1>2, <2>1, <2>2 DEF CommandInv
    <2>5. \A i \in DOMAIN toDaemon' :
            /\ toDaemon'[i].id <= commands + 1
            /\ \A j \in DOMAIN executed : executed[j] < toDaemon'[i].id
        BY <1>2, <2>1, <2>2, <2>3 DEF CommandInv
    <2>6. \A j \in DOMAIN executed : executed[j] <= commands + 1
        BY <1>2, <2>3 DEF CommandInv
    <2>7. QED BY <1>1, <1>2, <2>1, <2>4, <2>5, <2>6, UiLinkAssumption
              DEF CommandInv, CommandsInOrder
<1>5. QED BY <1>1, <1>3, <1>4

LEMMA ReadKeepsOrder ==
    ASSUME CommandInv, toDaemon # <<>>, toDaemon' = <<>>,
           executed' = Append(executed, Head(toDaemon).id), commands' = commands
    PROVE  CommandInv'
<1> DEFINE h == Head(toDaemon).id
           e == executed
<1>1. /\ 1 \in DOMAIN toDaemon /\ h = toDaemon[1].id
      /\ h \in 1..MaxCommands
    <2>1. toDaemon \in Seq(Command) /\ Len(toDaemon) \in Nat /\ Len(toDaemon) # 0
        BY CommandTypes, EmptySeq DEF CommandInv
    <2>2. 1 \in DOMAIN toDaemon /\ Head(toDaemon) = toDaemon[1]
        BY <2>1, CommandTypes DEF Head
    <2>3. toDaemon[1] \in Command
        BY <2>2, CommandTypes
    <2>4. QED BY <2>2, <2>3 DEF Command
<1>2. h <= commands /\ \A j \in DOMAIN e : e[j] < h
    BY <1>1 DEF CommandInv
<1>3. executed' = Append(e, h)
    OBVIOUS
<1> HIDE DEF h
<1>4. /\ executed' \in Seq(1..MaxCommands)
      /\ DOMAIN e = 1..Len(e) /\ Len(e) \in Nat
      /\ DOMAIN executed' = 1..(Len(e) + 1)
      /\ \A i \in 1..Len(e) : executed'[i] = e[i]
      /\ executed'[Len(e) + 1] = h
    BY <1>1, <1>3 DEF CommandInv
<1>5. \A i, j \in DOMAIN executed' : i < j => executed'[i] < executed'[j]
    BY <1>2, <1>4 DEF CommandInv, CommandsInOrder
<1>6. \A j \in DOMAIN executed' : executed'[j] <= commands
    BY <1>2, <1>4 DEF CommandInv
<1>7. toDaemon' \in Seq(Command) /\ DOMAIN toDaemon' = {}
    OBVIOUS
<1>8. QED BY <1>4, <1>5, <1>6, <1>7 DEF CommandInv, CommandsInOrder

LEMMA CommandInvariance == Spec => []CommandInv
<1>1. Init => CommandInv
    BY UiLinkAssumption DEF Init, CommandInv, CommandsInOrder
<1>2. ASSUME CommandInv, [Next]_vars PROVE CommandInv'
    <2>1. ASSUME UNCHANGED <<commands, executed>>, toDaemon' = toDaemon \/ toDaemon' = <<>>
          PROVE  CommandInv'
        <3>1. CASE toDaemon' = toDaemon
            BY <1>2, <2>1, <3>1 DEF CommandInv, CommandsInOrder
        <3>2. CASE toDaemon' = <<>>
            <4>1. toDaemon' \in Seq(Command) /\ DOMAIN toDaemon' = {}
                BY <3>2
            <4>2. QED BY <1>2, <2>1, <4>1 DEF CommandInv, CommandsInOrder
        <3>3. QED BY <2>1, <3>1, <3>2
    <2>2. CASE DaemonNext
        <3>1. CASE HandleDisplay
            BY <1>2, <3>1, ReadKeepsOrder DEF HandleDisplay, pageVars
        <3>2. CASE SendWaits \/ WaitEnds \/ ConnectAndSend \/ UiSend \/ HandleHangup
            <4>1. UNCHANGED pageVars /\ UNCHANGED executed
                BY <3>2 DEF SendWaits, WaitEnds, ConnectAndSend, UiSend, HandleHangup
            <4>2. toDaemon' = toDaemon \/ toDaemon' = <<>>
                BY <3>2 DEF SendWaits, WaitEnds, ConnectAndSend, UiSend, HandleHangup
            <4>3. QED BY <2>1, <4>1, <4>2 DEF pageVars
        <3>3. QED BY <2>2, <3>1, <3>2 DEF DaemonNext
    <2>3. CASE ServerNext \/ Start \/ Dies \/ Restart
        BY <2>1, <2>3 DEF ServerNext, Unlinked, Listens, Data, Start, Dies, Restart, pageVars
    <2>4. CASE EmitFails
        <3>1. commands < MaxCommands /\ commands' = commands + 1
              /\ UNCHANGED <<toDaemon, executed>>
            BY <2>4 DEF EmitFails
        <3>2. /\ commands' \in 0..MaxCommands
              /\ \A i \in DOMAIN toDaemon : toDaemon[i].id <= commands + 1
              /\ \A j \in DOMAIN executed : executed[j] <= commands + 1
            BY <1>2, <3>1, CommandTypes, UiLinkAssumption DEF CommandInv
        <3>3. QED BY <1>2, <3>1, <3>2 DEF CommandInv, CommandsInOrder
    <2>5. CASE PageNext
        <3>1. PICK p \in Pages :
                \/ Request(p) \/ Close(p) \/ ChatMessage(p)
                \/ \E c \in Calls : SendTo(p, c)
                \/ \E k \in Kinds \ {"message"} : Control(p, k)
            BY <2>5 DEF PageNext
        <3>2. CASE Request(p) \/ Close(p) \/ \E c \in Calls : SendTo(p, c)
            BY <2>1, <3>2 DEF Request, Close, SendTo
        <3>3. CASE ChatMessage(p) \/ \E k \in Kinds \ {"message"} : Control(p, k)
            BY <1>2, <3>3, EmitKeepsOrder DEF ChatMessage, Control, Kinds
        <3>4. QED BY <3>1, <3>2, <3>3
    <2>6. CASE UNCHANGED vars
        BY <2>1, <2>6 DEF vars, pageVars
    <2>7. QED BY <1>2, <2>2, <2>3, <2>4, <2>5, <2>6 DEF Next
<1>3. QED BY <1>1, <1>2, PTL DEF Spec

\* No command is acted on twice or after a later one, for any number of pages,
\* commands, restarts and of commands lost behind the first of a read
\* (uiclient.c:220-231).
THEOREM CommandOrder == Spec => []CommandsInOrder
<1>1. CommandInv => CommandsInOrder
    BY DEF CommandInv
<1>2. QED BY <1>1, CommandInvariance, PTL

-----------------------------------------------------------------------------
(* Pages.                                                                  *)

\* The server knows the pages that are open, each of them once.
TellInv ==
    /\ commands \in Nat
    /\ history \in Seq([id : Nat, to : Calls \cup {NoCall}, meant : Calls \cup {NoCall}])
    /\ told \in [Pages -> SUBSET Nat]
    /\ destName \in [Pages -> Calls \cup {NoCall}]
    /\ chosen \in [Pages -> Calls \cup {NoCall}]
    /\ trkClients \in Seq(Pages)
    /\ \A i, j \in DOMAIN trkClients : i # j => trkClients[i] # trkClients[j]
    /\ open = Range(trkClients)
    /\ EveryPageTold

LEMMA CloseKeeps ==
    ASSUME TellInv, NEW p \in Pages, Close(p)
    PROVE  TellInv'
<1> DEFINE s == trkClients
           D == {i \in DOMAIN s : s[i] = p}
<1>1. Len(s) \in Nat /\ DOMAIN s = 1..Len(s)
    BY LenProperties DEF TellInv
<1>2. PICK n \in 1..Len(s) : s[n] = p
    BY <1>1 DEF TellInv, Close, Range
<1>3. D = {n}
    BY <1>1, <1>2 DEF TellInv
<1>4. Min(D) = n
    BY <1>3 DEF Min
<1>5. trkClients' = RemoveAt(s, n)
    BY <1>4 DEF Close, RemoveClient
<1>6. /\ trkClients' \in Seq(Pages) /\ Len(trkClients') = Len(s) - 1
      /\ \A i \in 1..(Len(s) - 1) : trkClients'[i] = IF i < n THEN s[i] ELSE s[i + 1]
    BY <1>5, RemovedAt DEF TellInv
<1>7. DOMAIN trkClients' = 1..(Len(s) - 1)
    BY <1>6, LenProperties
<1> DEFINE From(i) == IF i < n THEN i ELSE i + 1
<1>8. \A i \in 1..(Len(s) - 1) :
         From(i) \in 1..Len(s) /\ From(i) # n /\ trkClients'[i] = s[From(i)]
    BY <1>1, <1>6
<1>9. \A i, j \in 1..(Len(s) - 1) : i # j => From(i) # From(j)
    BY <1>1
<1> HIDE DEF From
<1>10. \A i, j \in DOMAIN trkClients' : i # j => trkClients'[i] # trkClients'[j]
    BY <1>1, <1>7, <1>8, <1>9 DEF TellInv
<1>11. Range(trkClients') = Range(s) \ {p}
    <2>1. ASSUME NEW i \in 1..(Len(s) - 1) PROVE trkClients'[i] \in Range(s) \ {p}
        <3>1. From(i) \in DOMAIN s /\ From(i) # n /\ trkClients'[i] = s[From(i)]
            BY <1>1, <1>8
        <3>2. s[From(i)] # p
            BY <1>1, <1>2, <3>1 DEF TellInv
        <3>3. QED BY <3>1, <3>2 DEF Range
    <2>2. ASSUME NEW i \in 1..Len(s), i # n PROVE s[i] \in Range(trkClients')
        <3>1. CASE i < n
            <4>1. i \in 1..(Len(s) - 1) /\ trkClients'[i] = s[i]
                BY <1>1, <1>6, <3>1
            <4>2. QED BY <1>7, <4>1 DEF Range
        <3>2. CASE ~(i < n)
            <4>1. i - 1 \in 1..(Len(s) - 1) /\ ~(i - 1 < n) /\ (i - 1) + 1 = i
                BY <1>1, <2>2, <3>2
            <4>2. trkClients'[i - 1] = s[i]
                BY <1>6, <4>1
            <4>3. QED BY <1>7, <4>1, <4>2 DEF Range
        <3>3. QED BY <3>1, <3>2
    <2>3. QED BY <1>1, <1>2, <1>7, <2>1, <2>2 DEF Range
<1>12. open' = Range(trkClients')
    BY <1>11 DEF Close, TellInv
<1>13. UNCHANGED <<commands, history, told, destName, chosen>> /\ open' \subseteq open
    BY DEF Close
<1>14. QED BY <1>6, <1>10, <1>12, <1>13 DEF TellInv, EveryPageTold

\* The history keeps messages it had, or the new one.
LEMMA LatestIds ==
    ASSUME NEW S, NEW msgs \in Seq(S)
    PROVE  Ids(Latest(msgs)) \subseteq Ids(msgs)
<1> DEFINE R == {msgs[i] : i \in DOMAIN msgs}
<1>1. msgs \in Seq(R)
    <2>1. DOMAIN msgs = 1..Len(msgs) /\ Len(msgs) \in Nat /\ msgs = [i \in 1..Len(msgs) |-> msgs[i]]
        BY LenProperties, SeqDef
    <2>2. \A i \in 1..Len(msgs) : msgs[i] \in R
        BY <2>1
    <2> HIDE DEF R
    <2>3. msgs \in [1..Len(msgs) -> R]
        BY <2>1, <2>2
    <2>4. QED BY <2>1, <2>3, SeqDef
<1> HIDE DEF R
<1>2. Latest(msgs) \in Seq(R)
    BY <1>1, LatestOnly
<1>3. ASSUME NEW i \in DOMAIN Latest(msgs) PROVE Latest(msgs)[i] \in R
    BY <1>2, <1>3, LenProperties, ElementOfSeq
<1>4. QED BY <1>3 DEF Ids, R

LEMMA RequestKeeps ==
    ASSUME TellInv, NEW p \in Pages, Request(p)
    PROVE  TellInv'
<1> DEFINE s == trkClients
<1>1. Len(s) \in Nat /\ DOMAIN s = 1..Len(s) /\ s \in Seq(Pages)
    BY LenProperties DEF TellInv
<1>2. trkClients' = Append(s, p)
    BY DEF Request
<1>3. /\ trkClients' \in Seq(Pages) /\ DOMAIN trkClients' = 1..(Len(s) + 1)
      /\ \A i \in 1..Len(s) : trkClients'[i] = s[i]
      /\ trkClients'[Len(s) + 1] = p
    BY <1>1, <1>2
<1>4. \A i \in 1..Len(s) : s[i] # p
    BY <1>1 DEF TellInv, Request, Range
<1>5. \A i, j \in DOMAIN trkClients' : i # j => trkClients'[i] # trkClients'[j]
    <2>1. \A i, j \in 1..Len(s) : i # j => s[i] # s[j]
        BY <1>1 DEF TellInv
    <2> DEFINE t == trkClients'
    <2>2. /\ DOMAIN t = 1..(Len(s) + 1) /\ t[Len(s) + 1] = p
          /\ \A i \in 1..Len(s) : t[i] = s[i]
        BY <1>3
    <2>3. ASSUME NEW i \in 1..(Len(s) + 1), NEW j \in 1..(Len(s) + 1), i # j
          PROVE  t[i] # t[j]
        <3> HIDE DEF t
        <3>1. CASE i = Len(s) + 1
            BY <1>1, <1>4, <2>2, <2>3, <3>1
        <3>2. CASE j = Len(s) + 1
            BY <1>1, <1>4, <2>2, <2>3, <3>2
        <3>3. CASE i # Len(s) + 1 /\ j # Len(s) + 1
            <4>1. i \in 1..Len(s) /\ j \in 1..Len(s)
                BY <1>1, <3>3
            <4>2. QED BY <2>1, <2>2, <2>3, <4>1
        <3>4. QED BY <3>1, <3>2, <3>3
    <2>4. QED BY <2>2, <2>3
<1>6. Range(trkClients') = Range(s) \cup {p}
    BY <1>1, <1>3 DEF Range
<1>7. open' = Range(trkClients')
    BY <1>6 DEF Request, TellInv
<1>8. /\ UNCHANGED <<commands, history>>
      /\ open' = open \cup {p} /\ told' = [told EXCEPT ![p] = Ids(history)]
    BY DEF Request
<1>9. Ids(history) \subseteq Nat
    <2> DEFINE M == [id : Nat, to : Calls \cup {NoCall}, meant : Calls \cup {NoCall}]
    <2>1. history \in Seq(M) /\ \A m \in M : m.id \in Nat
        BY DEF TellInv
    <2> HIDE DEF M
    <2>2. \A i \in DOMAIN history : history[i] \in M
        BY <2>1, LenProperties, ElementOfSeq
    <2>3. QED BY <2>1, <2>2 DEF Ids
<1>10. told' \in [Pages -> SUBSET Nat]
    BY <1>8, <1>9 DEF TellInv
<1>11. \A q \in open' : Ids(history) \subseteq told'[q]
    <2>1. open \subseteq Pages
        BY <1>1, ElementOfSeq DEF TellInv, Range
    <2>2. \A q \in Pages : told'[q] = IF q = p THEN Ids(history) ELSE told[q]
        BY <1>8 DEF TellInv
    <2>3. QED BY <1>8, <2>1, <2>2 DEF TellInv, EveryPageTold
<1>12. Ids(history') = Ids(history)
    BY <1>8
<1>13. destName' = [destName EXCEPT ![p] = NoCall] /\ chosen' = [chosen EXCEPT ![p] = NoCall]
    BY DEF Request
<1>14. /\ destName' \in [Pages -> Calls \cup {NoCall}]
       /\ chosen' \in [Pages -> Calls \cup {NoCall}]
    BY <1>13 DEF TellInv
<1>15. QED BY <1>3, <1>5, <1>7, <1>8, <1>10, <1>11, <1>12, <1>14 DEF TellInv, EveryPageTold

LEMMA ChatKeeps ==
    ASSUME TellInv, NEW p \in Pages, ChatMessage(p)
    PROVE  TellInv'
<1> DEFINE M == [id : Nat, to : Calls \cup {NoCall}, meant : Calls \cup {NoCall}]
           obj == [id |-> commands + 1, to |-> destName[p], meant |-> chosen[p]]
           all == Append(history, obj)
<1>1. history \in Seq(M) /\ commands \in Nat
    BY DEF TellInv
<1>2. obj \in M /\ obj.id = commands + 1
    BY <1>1 DEF TellInv
<1>3. history' = Latest(all)
    BY DEF ChatMessage
<1> HIDE DEF obj, M
<1>4. all \in Seq(M) /\ Ids(all) = Ids(history) \cup {commands + 1}
    <2>1. /\ all \in Seq(M) /\ Len(history) \in Nat /\ DOMAIN history = 1..Len(history)
          /\ DOMAIN all = 1..(Len(history) + 1)
          /\ \A i \in 1..Len(history) : all[i] = history[i]
          /\ all[Len(history) + 1] = obj
        BY <1>1, <1>2
    <2> HIDE DEF all
    <2>2. QED BY <1>2, <2>1 DEF Ids
<1> HIDE DEF all
<1>5. history' \in Seq(M) /\ Ids(history') \subseteq Ids(history) \cup {commands + 1}
    BY <1>3, <1>4, LatestOnly, LatestIds
<1>6. /\ told' = [q \in Pages |-> IF q \in Range(trkClients)
                                 THEN told[q] \cup {commands + 1} ELSE told[q]]
      /\ UNCHANGED <<trkClients, open>> /\ commands' = commands + 1
    BY DEF ChatMessage, Emit
<1>7. told' \in [Pages -> SUBSET Nat]
    BY <1>1, <1>6 DEF TellInv
<1>8. Range(trkClients) \subseteq Pages
    BY LenProperties, ElementOfSeq DEF TellInv, Range
<1>9. \A q \in open' : Ids(history') \subseteq told'[q]
    BY <1>5, <1>6, <1>8 DEF TellInv, EveryPageTold
<1>10. destName' = [destName EXCEPT ![p] = NoCall] /\ chosen' = [chosen EXCEPT ![p] = NoCall]
    BY DEF ChatMessage
<1>11. /\ destName' \in [Pages -> Calls \cup {NoCall}]
       /\ chosen' \in [Pages -> Calls \cup {NoCall}]
    BY <1>10 DEF TellInv
<1>12. /\ trkClients' \in Seq(Pages)
       /\ \A i, j \in DOMAIN trkClients' : i # j => trkClients'[i] # trkClients'[j]
       /\ open' = Range(trkClients')
    BY <1>6 DEF TellInv
<1>13. commands' \in Nat
    BY <1>1, <1>6
<1>14. EveryPageTold'
    BY <1>9 DEF EveryPageTold
<1>15. history' \in Seq([id : Nat, to : Calls \cup {NoCall}, meant : Calls \cup {NoCall}])
    BY <1>5 DEF M
<1>16. QED BY <1>7, <1>11, <1>12, <1>13, <1>14, <1>15 DEF TellInv

LEMMA TellInvariance == Spec => []TellInv
<1>1. Init => TellInv
    <2> SUFFICES ASSUME Init PROVE TellInv
        OBVIOUS
    <2>1. /\ trkClients = <<>> /\ history = <<>> /\ open = {} /\ commands = 0 /\ told = [p \in Pages |-> {}]
          /\ destName = [p \in Pages |-> NoCall] /\ chosen = [p \in Pages |-> NoCall]
        BY DEF Init
    <2>2. Range(trkClients) = {}
        BY <2>1 DEF Range
    <2>3. QED BY <2>1, <2>2 DEF TellInv, EveryPageTold
<1>2. ASSUME TellInv, [Next]_vars PROVE TellInv'
    <2>1. ASSUME UNCHANGED <<trkClients, history, open, told>>, commands' \in Nat,
                 destName' \in [Pages -> Calls \cup {NoCall}],
                 chosen' \in [Pages -> Calls \cup {NoCall}]
          PROVE TellInv'
        BY <1>2, <2>1 DEF TellInv, EveryPageTold
    <2>2. ASSUME Forgotten, commands' \in Nat PROVE TellInv'
        <3>1. /\ trkClients' = <<>> /\ history' = <<>> /\ open' = {} /\ told' = [p \in Pages |-> {}]
              /\ destName' = [p \in Pages |-> NoCall] /\ chosen' = [p \in Pages |-> NoCall]
            BY <2>2 DEF Forgotten
        <3>2. Range(trkClients') = {}
            BY <3>1 DEF Range
        <3>3. QED BY <2>2, <3>1, <3>2 DEF TellInv, EveryPageTold
    <2>3. CASE PageNext
        <3>1. PICK p \in Pages :
                \/ Request(p) \/ Close(p) \/ ChatMessage(p)
                \/ \E c \in Calls : SendTo(p, c)
                \/ \E k \in Kinds \ {"message"} : Control(p, k)
            BY <2>3 DEF PageNext
        <3>2. CASE \E c \in Calls : SendTo(p, c)
            BY <1>2, <2>1, <3>2 DEF SendTo, TellInv
        <3>3. CASE \E k \in Kinds \ {"message"} : Control(p, k)
            BY <1>2, <2>1, <3>3 DEF Control, Emit, TellInv
        <3>4. QED BY <1>2, <3>1, <3>2, <3>3, RequestKeeps, CloseKeeps, ChatKeeps
    <2>4. CASE DaemonNext \/ ServerNext \/ Start \/ Restart
        BY <1>2, <2>1, <2>4 DEF DaemonNext, SendWaits, WaitEnds, ConnectAndSend, UiSend,
              HandleDisplay, HandleHangup, ServerNext, Unlinked, Listens, Data, Start,
              Restart, pageVars, TellInv
    <2>5. CASE Dies \/ EmitFails
        BY <1>2, <2>2, <2>5 DEF Dies, EmitFails, TellInv
    <2>6. CASE UNCHANGED vars
        BY <1>2, <2>1, <2>6 DEF vars, pageVars, TellInv
    <2>7. QED BY <1>2, <2>3, <2>4, <2>5, <2>6 DEF Next
<1>3. QED BY <1>1, <1>2, PTL DEF Spec

\* An open page has been told of every message the history holds, whoever left
\* in which order (tracker-server.js:339-350).
THEOREM EveryPageIsTold == Spec => []EveryPageTold
<1>1. TellInv => EveryPageTold
    BY DEF TellInv
<1>2. QED BY <1>1, TellInvariance, PTL

-----------------------------------------------------------------------------
(* The stream.                                                             *)

\* What a page may be given: an object, or a half of one in Braced.
GoodPart(p) == IsObject(p) \/ (Len(p) = 1 /\ p[1].obj \in Braced)

\* Of the text w, the parts in sh were passed on, up to place e, chunk is kept up
\* to place j, and rest is still in the socket.
OnWay(w, sh, chunk, rest) ==
    \E at, j :
        /\ LieIn(w, sh, at)
        /\ j \in at[Len(sh) + 1]..Len(w)
        /\ chunk = SubSeq(w, at[Len(sh) + 1] + 1, j)
        /\ rest = SubSeq(w, j + 1, Len(w))
        /\ at[Len(sh) + 1] < Len(w) => BeginsBrace(w[at[Len(sh) + 1] + 1])

\* Of what lies between the places c and e of the text w, out is passed on part
\* by part, and keep is left.
TakenOff(w, c, e, out, keep) ==
    /\ out \in Seq(Seq(Piece))
    /\ \A i \in 1..Len(out) : GoodPart(out[i])
    /\ \E cut :
         /\ cut \in [0..Len(out) -> 0..(e - c)] /\ cut[0] = 0
         /\ \A i \in 1..Len(out) :
              /\ cut[i - 1] < cut[i]
              /\ out[i] = SubSeq(w, (c + cut[i - 1]) + 1, c + cut[i])
         /\ keep = SubSeq(w, (c + cut[Len(out)]) + 1, e)
         /\ c + cut[Len(out)] < Len(w) => BeginsBrace(w[(c + cut[Len(out)]) + 1])

\* A read: the parts of what was kept and what came are taken off.
LEMMA ReadsOn ==
    ASSUME NEW w \in Seq(Piece), Paired(w), NEW c \in Nat, NEW e \in Nat, c < e, e <= Len(w),
           BeginsBrace(w[c + 1])
    PROVE  LET r == Reassemble(SubSeq(w, c + 1, e)) IN TakenOff(w, c, e, r.out, r.keep)
<1> DEFINE buf == SubSeq(w, c + 1, e)
           parts == Segments(buf)
           whole == IsObject(Last(parts))
           out == IF whole THEN parts ELSE Front(parts)
           keep == IF whole THEN <<>> ELSE Last(parts)
<1>1. /\ buf \in Seq(Piece) /\ Len(buf) = e - c
      /\ \A i \in 1..(e - c) : buf[i] = w[c + i]
    BY SubSeqOf
<1>2. Len(w) \in Nat /\ \A k \in 1..Len(w) : w[k] \in Piece /\ w[k].half \in {1, 2}
    <2>1. Len(w) \in Nat /\ \A k \in 1..Len(w) : w[k] \in Piece
        BY LenProperties, ElementOfSeq
    <2>2. QED BY <2>1 DEF Piece
<1> HIDE DEF buf
<1>3. PICK n \in Nat \ {0} : \E cut : IsCutting(buf, parts, n, cut)
    BY <1>1, SegmentsOf
<1>4. PICK cut : IsCutting(buf, parts, n, cut)
    BY <1>3
<1> HIDE DEF parts
<1>5. /\ cut \in [0..n -> 0..(e - c)] /\ cut[0] = 0 /\ cut[n] = e - c
      /\ parts = [i \in 1..n |-> SubSeq(buf, cut[i - 1] + 1, cut[i])]
      /\ \A i \in 1..n : cut[i - 1] < cut[i]
    BY <1>1, <1>4 DEF IsCutting
<1>6. \A i \in 0..n : cut[i] \in 0..(e - c)
    BY <1>5
<1>7. ASSUME NEW k \in 1..(e - c - 1)
      PROVE  k \in Joints(buf) <=> EndsBrace(w[c + k]) /\ BeginsBrace(w[(c + k) + 1])
    <2>1. k \in 1..(e - c) /\ k + 1 \in 1..(e - c) /\ c + (k + 1) = (c + k) + 1
        BY <1>7
    <2>2. k \in 1..(Len(buf) - 1)
        BY <1>1
    <2>3. QED BY <1>1, <2>1, <2>2 DEF Joints
<1>8. ASSUME NEW i \in 1..n
      PROVE  /\ parts[i] = SubSeq(w, (c + cut[i - 1]) + 1, c + cut[i])
             /\ c + cut[i - 1] \in Nat /\ c + cut[i] \in Nat
             /\ c + cut[i - 1] < c + cut[i] /\ c + cut[i] <= e
    <2>1. i \in 0..n /\ i - 1 \in 0..n
        OBVIOUS
    <2>2. cut[i] \in 0..(e - c) /\ cut[i - 1] \in 0..(e - c) /\ cut[i - 1] < cut[i]
        BY <1>5, <2>1
    <2> DEFINE x == cut[i - 1]
               y == cut[i]
    <2> HIDE DEF x, y
    <2>3. x \in 0..(e - c) /\ y \in x..(e - c) /\ x < y
        BY <2>2 DEF x, y
    <2>4. SubSeq(buf, x + 1, y) = SubSeq(w, (c + x) + 1, c + y)
        BY <2>3, PieceOfPiece DEF buf
    <2>5. parts[i] = SubSeq(buf, x + 1, y)
        BY <1>5 DEF x, y
    <2>6. c + x \in Nat /\ c + y \in Nat /\ c + x < c + y /\ c + y <= e
        BY <2>3
    <2>7. QED BY <2>4, <2>5, <2>6 DEF x, y
<1>9. parts \in Seq(Seq(Piece)) /\ Len(parts) = n /\ DOMAIN parts = 1..n
    <2>1. ASSUME NEW i \in 1..n PROVE parts[i] \in Seq(Piece)
        <3> DEFINE a == c + cut[i - 1]
                   b == c + cut[i]
        <3>1. parts[i] = SubSeq(w, a + 1, b) /\ a \in Nat /\ b \in a..Len(w)
            BY <1>2, <1>8
        <3> HIDE DEF a, b
        <3>2. QED BY <3>1, SubSeqOf
    <2>2. parts \in [1..n -> Seq(Piece)]
        <3>1. parts = [i \in 1..n |-> parts[i]]
            BY <1>5
        <3>2. QED BY <2>1, <3>1
    <2>3. QED BY <2>2, SeqDef
\* Behind a joint, and at the beginning, an object may begin.
<1>10. ASSUME NEW i \in 0..(n - 1)
       PROVE  BeginsBrace(w[(c + cut[i]) + 1])
    <2>1. CASE i = 0
        <3>1. c + cut[i] = c
            BY <1>5, <2>1
        <3>2. QED BY <3>1
    <2>2. CASE i # 0
        <3>1. i \in 1..n /\ i < n
            BY <2>2
        <3>2. cut[i] \in Joints(buf)
            BY <1>4, <3>1 DEF IsCutting
        <3>3. cut[i] \in 1..(e - c - 1)
            BY <1>1, <3>2 DEF Joints
        <3>4. QED BY <1>7, <3>2, <3>3
    <2>3. QED BY <2>1, <2>2
<1>11. ASSUME NEW i \in 1..n
       PROVE  LET a == c + cut[i - 1]
                  b == c + cut[i]
              IN  /\ b = a + 1 \/ b = a + 2
                  /\ b = a + 2 => IsObject(SubSeq(w, a + 1, b)) /\ w[b].half = 2
                  /\ b = a + 1 /\ EndsBrace(w[b]) => w[b].obj \in Braced
    <2> DEFINE a == c + cut[i - 1]
               b == c + cut[i]
    <2>1. a \in Nat /\ b \in Nat /\ a < b /\ b <= e
        BY <1>8
    <2>2. BeginsBrace(w[a + 1])
        <3>1. i - 1 \in 0..(n - 1)
            OBVIOUS
        <3>2. QED BY <1>10, <3>1
    <2>3. ASSUME NEW k \in Nat, a < k, k < b
          PROVE  ~(EndsBrace(w[k]) /\ BeginsBrace(w[k + 1]))
        <3>0. i - 1 \in 0..n /\ i \in 0..n
            OBVIOUS
        <3>1. cut[i - 1] \in Int /\ cut[i] \in Int /\ cut[i] <= e - c /\ 0 <= cut[i - 1]
            BY <1>6, <3>0
        <3> DEFINE l == k - c
        <3>2. l \in 1..(e - c - 1) /\ c + l = k /\ cut[i - 1] < l /\ l < cut[i]
            BY <2>3, <3>1
        <3> HIDE DEF l
        <3>3. l \notin Joints(buf)
            BY <1>4, <3>2 DEF IsCutting
        <3>4. QED BY <1>7, <3>2, <3>3
    <2> HIDE DEF a, b
    <2>4. b <= Len(w)
        BY <1>2, <2>1
    <2>5. /\ b = a + 1 \/ b = a + 2
          /\ b = a + 2 => IsObject(SubSeq(w, a + 1, b)) /\ w[b].half = 2
          /\ b = a + 1 /\ EndsBrace(w[b]) => w[b].obj \in Braced
        BY <2>1, <2>2, <2>3, <2>4, PartShape
    <2>6. QED BY <2>5 DEF a, b
<1>12. ASSUME NEW i \in 1..n, i < n \/ IsObject(parts[i])
       PROVE  GoodPart(parts[i])
    <2>1. CASE IsObject(parts[i])
        BY <2>1 DEF GoodPart
    <2>2. CASE ~IsObject(parts[i])
        <3> DEFINE a == c + cut[i - 1]
                   b == c + cut[i]
        <3>1. b = a + 1
            BY <1>8, <1>11, <2>2
        <3>2. cut[i] \in Joints(buf)
            BY <1>4, <1>12, <2>2 DEF IsCutting
        <3>3. cut[i] \in 1..(e - c - 1)
            BY <1>1, <3>2 DEF Joints
        <3>4. EndsBrace(w[b])
            BY <1>7, <3>2, <3>3
        <3>5. w[b].obj \in Braced
            BY <1>11, <3>1, <3>4
        <3>6. Len(parts[i]) = 1 /\ parts[i][1] = w[b]
            <4>1. parts[i] = SubSeq(w, a + 1, b) /\ a \in Nat /\ b \in a..Len(w)
                BY <1>2, <1>8
            <4> HIDE DEF a, b
            <4>2. b - a = 1 /\ 1 \in 1..(b - a)
                BY <3>1, <4>1
            <4>3. Len(parts[i]) = 1 /\ parts[i][1] = w[a + 1]
                BY <4>1, <4>2, SubSeqOf
            <4>4. QED BY <3>1, <4>3
        <3>7. QED BY <3>5, <3>6 DEF GoodPart
    <2>3. QED BY <2>1, <2>2
<1>13. Last(parts) = parts[n] /\ n \in 1..n
    BY <1>9 DEF Last
<1>14. Reassemble(buf) = [out |-> out, keep |-> keep]
    BY DEF Reassemble, parts
<1>15. CASE whole
    <2>1. out = parts /\ keep = <<>> /\ Len(out) = n
        BY <1>9, <1>15
    <2>2. \A i \in 1..n : GoodPart(parts[i])
        BY <1>12, <1>13, <1>15
    <2>3. c + cut[n] = e
        BY <1>5
    <2>4. keep = SubSeq(w, e + 1, e)
        <3>1. e \in e..Len(w) /\ e - e = 0
            BY <1>2
        <3>2. SubSeq(w, e + 1, e) \in Seq(Piece) /\ Len(SubSeq(w, e + 1, e)) = 0
            BY <3>1, SubSeqOf
        <3>3. QED BY <2>1, <3>2, EmptySeq
    <2>5. e < Len(w) => BeginsBrace(w[e + 1])
        <3>1. SUFFICES ASSUME e < Len(w), w[e + 1].half = 2 PROVE FALSE
            BY <1>2 DEF BeginsBrace
        <3>2. e + 1 \in 1..Len(w) /\ (e + 1) - 1 = e
            BY <1>2, <3>1
        <3>3. w[e].half = 1
            BY <3>1, <3>2 DEF Paired
        <3>4. Len(parts[n]) = 2
            BY <1>13, <1>15 DEF IsObject
        <3> DEFINE a == c + cut[n - 1]
        <3>5. parts[n] = SubSeq(w, a + 1, e) /\ a \in Nat /\ e \in a..Len(w)
            BY <1>2, <1>8, <1>13, <2>3
        <3>6. a + 1 = e \/ e = a + 2 => e = a + 2
            <4>1. Len(parts[n]) = e - a
                <5> HIDE DEF a
                <5>1. QED BY <3>5, SubSeqOf
            <4>2. QED BY <1>2, <3>4, <3>5, <4>1
        <3>7. e = a + 2 /\ w[e].half = 2
            BY <1>11, <1>13, <2>3, <3>6
        <3>8. QED BY <3>3, <3>7
    <2>6. TakenOff(w, c, e, out, keep)
        <3> HIDE DEF out, keep
        <3>1. \A i \in 1..n : parts[i] = SubSeq(w, (c + cut[i - 1]) + 1, c + cut[i])
            BY <1>8
        <3>2. QED BY <1>5, <1>9, <2>1, <2>2, <2>3, <2>4, <2>5, <3>1 DEF TakenOff
    <2>7. QED BY <1>14, <2>6 DEF buf
<1>16. CASE ~whole
    <2> DEFINE m == n - 1
    <2>1. /\ out \in Seq(Seq(Piece)) /\ Len(out) = m /\ m \in Nat
          /\ \A i \in 1..m : out[i] = parts[i]
          /\ keep = parts[n]
        <3>1. out = SubSeq(parts, 0 + 1, n - 1)
            BY <1>9, <1>16 DEF Front
        <3>2. n - 1 \in 0..Len(parts) /\ (n - 1) - 0 = n - 1
            BY <1>9
        <3>3. /\ SubSeq(parts, 0 + 1, n - 1) \in Seq(Seq(Piece))
              /\ Len(SubSeq(parts, 0 + 1, n - 1)) = (n - 1) - 0
              /\ \A i \in 1..((n - 1) - 0) : SubSeq(parts, 0 + 1, n - 1)[i] = parts[0 + i]
            BY <1>9, <3>2, SubSeqOf
        <3>4. QED BY <1>13, <1>16, <3>1, <3>3
    <2> DEFINE ct == [i \in 0..m |-> cut[i]]
    <2>2. \A i \in 0..m : i \in 0..n
        OBVIOUS
    <2>3. ct \in [0..m -> 0..(e - c)] /\ ct[0] = 0 /\ ct[m] = cut[m]
        <3>1. \A i \in 0..m : cut[i] \in 0..(e - c)
            BY <1>6, <2>2
        <3>2. 0 \in 0..m /\ m \in 0..m
            BY <2>1
        <3>3. QED BY <1>5, <3>1, <3>2
    <2>4. ASSUME NEW i \in 1..m
          PROVE  /\ ct[i - 1] < ct[i] /\ GoodPart(parts[i])
                 /\ parts[i] = SubSeq(w, (c + ct[i - 1]) + 1, c + ct[i])
        <3>1. i \in 0..m /\ i - 1 \in 0..m /\ i \in 1..n /\ i < n
            BY <2>4
        <3>2. ct[i] = cut[i] /\ ct[i - 1] = cut[i - 1]
            BY <3>1
        <3> HIDE DEF ct
        <3>3. QED BY <1>5, <1>8, <1>12, <3>1, <3>2
    <2>5. keep = SubSeq(w, (c + cut[m]) + 1, e)
        <3>1. parts[n] = SubSeq(w, (c + cut[n - 1]) + 1, c + cut[n])
            BY <1>8, <1>13
        <3>2. c + cut[n] = e
            BY <1>5
        <3>3. QED BY <2>1, <3>1, <3>2
    <2>6. BeginsBrace(w[(c + cut[m]) + 1])
        <3>1. m \in 0..(n - 1)
            OBVIOUS
        <3>2. QED BY <1>10, <3>1
    <2> HIDE DEF ct, m, out, keep
    <2>7. TakenOff(w, c, e, out, keep)
        BY <2>1, <2>3, <2>4, <2>5, <2>6 DEF TakenOff
    <2>8. QED BY <1>14, <2>7 DEF buf
<1>17. QED BY <1>15, <1>16

\* What was taken off is passed on behind what was.
LEMMA PassedOn ==
    ASSUME NEW w \in Seq(Piece), Paired(w), NEW sh \in Seq(Seq(Piece)), NEW chunk, NEW rest,
           OnWay(w, sh, chunk, rest), NEW n \in 1..Len(rest), NEW out, NEW keep,
           [out |-> out, keep |-> keep] = Reassemble(chunk \o SubSeq(rest, 1, n))
    PROVE  /\ out \in Seq(Seq(Piece))
           /\ \A i \in 1..Len(out) : GoodPart(out[i])
           /\ OnWay(w, sh \o out, keep, SubSeq(rest, n + 1, Len(rest)))
<1> DEFINE l == Len(sh)
<1>1. PICK at, j :
        /\ LieIn(w, sh, at)
        /\ j \in at[l + 1]..Len(w)
        /\ chunk = SubSeq(w, at[l + 1] + 1, j)
        /\ rest = SubSeq(w, j + 1, Len(w))
        /\ at[l + 1] < Len(w) => BeginsBrace(w[at[l + 1] + 1])
    BY DEF OnWay
<1> DEFINE c == at[l + 1]
           e == j + n
<1>2. l \in Nat /\ Len(w) \in Nat /\ c \in Nat /\ j \in c..Len(w) /\ j \in Nat
    <2>1. l \in Nat /\ Len(w) \in Nat
        BY LenProperties
    <2>2. at[l + 1] \in 0..Len(w)
        <3>1. l + 1 \in 1..(l + 1)
            BY <2>1
        <3>2. QED BY <1>1, <3>1 DEF LieIn
    <2>3. QED BY <1>1, <2>1, <2>2
<1>3. Len(rest) = Len(w) - j
    BY <1>1, <1>2, SubSeqOf
<1>4. e \in Nat /\ c < e /\ e <= Len(w) /\ e \in j..Len(w)
    BY <1>2, <1>3
<1>5. chunk \o SubSeq(rest, 1, n) = SubSeq(w, c + 1, e)
    <2>1. SubSeq(rest, 0 + 1, n) = SubSeq(w, (j + 0) + 1, j + n)
        <3>1. 0 \in 0..(Len(w) - j) /\ n \in 0..(Len(w) - j) /\ Len(w) \in j..Len(w)
            BY <1>2, <1>3
        <3>2. QED BY <1>1, <1>2, <3>1, PieceOfPiece
    <2>2. SubSeq(rest, 1, n) = SubSeq(w, j + 1, e)
        BY <1>2, <2>1
    <2> HIDE DEF c, e
    <2>3. SubSeq(w, c + 1, j) \o SubSeq(w, j + 1, e) = SubSeq(w, c + 1, e)
        BY <1>2, <1>4, SubSeqJoin
    <2>4. QED BY <1>1, <2>2, <2>3 DEF c
<1>6. SubSeq(rest, n + 1, Len(rest)) = SubSeq(w, e + 1, Len(w))
    <2>1. n \in 0..(Len(w) - j) /\ Len(rest) \in n..(Len(w) - j) /\ Len(w) \in j..Len(w)
          /\ j + Len(rest) = Len(w)
        BY <1>2, <1>3
    <2>2. SubSeq(rest, n + 1, Len(rest)) = SubSeq(w, (j + n) + 1, j + Len(rest))
        BY <1>1, <1>2, <2>1, PieceOfPiece
    <2>3. QED BY <2>1, <2>2
<1>7. BeginsBrace(w[c + 1])
    BY <1>1, <1>2, <1>4
<1> HIDE DEF e
<1>8. TakenOff(w, c, e, out, keep)
    <2> HIDE DEF c
    <2> DEFINE r == [out |-> out, keep |-> keep]
    <2>1. r = Reassemble(SubSeq(w, c + 1, e))
        BY <1>5
    <2>2. TakenOff(w, c, e, r.out, r.keep)
        BY <1>2, <1>4, <1>7, <2>1, ReadsOn
    <2>3. QED BY <2>2
<1> DEFINE m == Len(out)
<1>9. PICK cut :
         /\ cut \in [0..m -> 0..(e - c)] /\ cut[0] = 0
         /\ \A i \in 1..m :
              /\ cut[i - 1] < cut[i]
              /\ out[i] = SubSeq(w, (c + cut[i - 1]) + 1, c + cut[i])
         /\ keep = SubSeq(w, (c + cut[m]) + 1, e)
         /\ c + cut[m] < Len(w) => BeginsBrace(w[(c + cut[m]) + 1])
    BY <1>8 DEF TakenOff
<1>10. out \in Seq(Seq(Piece)) /\ m \in Nat
    BY <1>8, LenProperties DEF TakenOff
<1> DEFINE t == sh \o out
<1>11. /\ t \in Seq(Seq(Piece)) /\ Len(t) = l + m
       /\ \A i \in 1..(l + m) : t[i] = IF i <= l THEN sh[i] ELSE out[i - l]
    BY <1>10, ConcatProperties
<1> DEFINE at2 == [i \in 1..(l + m + 1) |-> IF i <= l THEN at[i] ELSE c + cut[i - (l + 1)]]
<1> HIDE DEF t
<1>12. ASSUME NEW i \in 1..(l + m + 1) PROVE at2[i] \in 0..Len(w)
    <2>1. CASE i <= l
        <3>1. i \in 1..(l + 1)
            BY <1>2, <2>1
        <3>2. QED BY <1>1, <2>1, <3>1 DEF LieIn
    <2>2. CASE ~(i <= l)
        <3>1. i - (l + 1) \in 0..m
            BY <1>2, <1>10, <2>2
        <3>2. cut[i - (l + 1)] \in 0..(e - c)
            BY <1>9, <3>1
        <3>3. at2[i] = c + cut[i - (l + 1)]
            BY <2>2
        <3> HIDE DEF c, at2
        <3>4. QED BY <1>2, <1>4, <3>2, <3>3
    <2>3. QED BY <2>1, <2>2
<1>13. ASSUME NEW i \in 1..(l + m)
       PROVE  at2[i] < at2[i + 1] /\ t[i] = SubSeq(w, at2[i] + 1, at2[i + 1])
    <2>1. i \in 1..(l + m + 1) /\ i + 1 \in 1..(l + m + 1)
        BY <1>2, <1>10
    <2>2. CASE i < l
        <3>1. i \in 1..l /\ i <= l /\ i + 1 <= l
            BY <1>2, <2>2
        <3>2. at2[i] = at[i] /\ at2[i + 1] = at[i + 1] /\ t[i] = sh[i]
            BY <1>11, <2>1, <3>1
        <3> HIDE DEF at2
        <3>3. QED BY <1>1, <3>1, <3>2 DEF LieIn
    <2>3. CASE i = l
        <3>1. i \in 1..l /\ i <= l /\ ~(i + 1 <= l) /\ (i + 1) - (l + 1) = 0
            BY <1>2, <2>3
        <3>2. at2[i] = at[i] /\ t[i] = sh[i] /\ at2[i + 1] = c + cut[0]
            BY <1>11, <2>1, <3>1
        <3>3. at2[i + 1] = at[i + 1]
            BY <1>2, <1>9, <2>3, <3>2
        <3> HIDE DEF at2
        <3>4. QED BY <1>1, <3>1, <3>2, <3>3 DEF LieIn
    <2>4. CASE i > l
        <3> DEFINE k == i - l
        <3>1. k \in 1..m /\ ~(i <= l) /\ ~(i + 1 <= l) /\ i - (l + 1) = k - 1 /\ (i + 1) - (l + 1) = k
            BY <1>2, <1>10, <2>4
        <3>2. at2[i] = c + cut[k - 1] /\ at2[i + 1] = c + cut[k] /\ t[i] = out[k]
            BY <1>11, <2>1, <3>1
        <3>3. k \in 0..m /\ k - 1 \in 0..m
            BY <3>1
        <3> HIDE DEF at2, k, c
        <3>4. cut[k - 1] < cut[k] /\ out[k] = SubSeq(w, (c + cut[k - 1]) + 1, c + cut[k])
            BY <1>9, <3>1
        <3>5. cut[k - 1] \in 0..(e - c) /\ cut[k] \in 0..(e - c)
            BY <1>9, <3>3
        <3>6. c + cut[k - 1] < c + cut[k]
            BY <1>2, <1>4, <3>4, <3>5
        <3>7. QED BY <3>2, <3>4, <3>6
    <2>5. i < l \/ i = l \/ i > l
        BY <1>2, <1>10
    <2> HIDE DEF at2
    <2>6. QED BY <2>2, <2>3, <2>4, <2>5
<1>14. at2[l + m + 1] = c + cut[m]
    BY <1>2, <1>10
<1>15. at2[1] = 0
    <2>1. CASE l = 0
        <3>1. 1 \in 1..(l + m + 1) /\ ~(1 <= l) /\ 1 - (l + 1) = 0
            BY <1>10, <2>1
        <3>2. at2[1] = c + cut[0] /\ c = at[1]
            BY <2>1, <3>1
        <3> HIDE DEF at2
        <3>3. QED BY <1>1, <1>9, <3>2 DEF LieIn
    <2>2. CASE l # 0
        <3>1. 1 \in 1..(l + m + 1) /\ 1 <= l
            BY <1>2, <1>10, <2>2
        <3>2. at2[1] = at[1]
            BY <3>1
        <3> HIDE DEF at2
        <3>3. QED BY <1>1, <3>2 DEF LieIn
    <2>3. QED BY <2>1, <2>2
<1>16. at2 \in [1..(l + m + 1) -> 0..Len(w)]
    <2>1. at2 = [i \in 1..(l + m + 1) |-> at2[i]]
        OBVIOUS
    <2> HIDE DEF at2
    <2>2. QED BY <1>12, <2>1
<1> HIDE DEF at2
<1>17. LieIn(w, t, at2)
    BY <1>11, <1>13, <1>15, <1>16 DEF LieIn
<1>18. e \in (c + cut[m])..Len(w)
    <2>1. cut[m] \in 0..(e - c)
        BY <1>9, <1>10
    <2> HIDE DEF c
    <2>2. QED BY <1>2, <1>4, <2>1
<1>19. OnWay(w, t, keep, SubSeq(w, e + 1, Len(w)))
    BY <1>9, <1>11, <1>14, <1>17, <1>18 DEF OnWay
<1>20. QED BY <1>6, <1>8, <1>19 DEF t, TakenOff

\* More is written.
LEMMA Written ==
    ASSUME NEW w \in Seq(Piece), Paired(w), NEW sh \in Seq(Seq(Piece)), NEW chunk, NEW rest,
           OnWay(w, sh, chunk, rest), NEW o \in Nat
    PROVE  OnWay(w \o Pieces(o), sh, chunk, rest \o Pieces(o))
<1> DEFINE l == Len(sh)
           x == Pieces(o)
           u == w \o x
<1>1. PICK at, j :
        /\ LieIn(w, sh, at)
        /\ j \in at[l + 1]..Len(w)
        /\ chunk = SubSeq(w, at[l + 1] + 1, j)
        /\ rest = SubSeq(w, j + 1, Len(w))
        /\ at[l + 1] < Len(w) => BeginsBrace(w[at[l + 1] + 1])
    BY DEF OnWay
<1>2. l \in Nat /\ Len(w) \in Nat /\ \A i \in 1..(l + 1) : at[i] \in 0..Len(w)
    BY <1>1, LenProperties DEF LieIn
<1> DEFINE c == at[l + 1]
<1>3. c \in Nat /\ c <= Len(w) /\ j \in c..Len(w) /\ j \in Nat
    <2>1. at[l + 1] \in 0..Len(w)
        BY <1>2
    <2>2. QED BY <1>1, <1>2, <2>1
<1>4. /\ x \in Seq(Piece) /\ Len(x) = 2 /\ x[1].half = 1
    BY DEF Pieces, Piece
<1> HIDE DEF x
<1>5. /\ u \in Seq(Piece) /\ Len(u) = Len(w) + 2
      /\ \A i \in 1..(Len(w) + 2) : u[i] = IF i <= Len(w) THEN w[i] ELSE x[i - Len(w)]
    <2>1. /\ u \in Seq(Piece) /\ Len(u) = Len(w) + Len(x)
          /\ \A i \in 1..(Len(w) + Len(x)) : u[i] = IF i <= Len(w) THEN w[i] ELSE x[i - Len(w)]
        BY <1>4, ConcatProperties
    <2>2. QED BY <1>4, <2>1
<1>6. LieIn(u, sh, at)
    <2>1. at \in [1..(l + 1) -> 0..Len(u)]
        <3>1. at \in [1..(l + 1) -> 0..Len(w)]
            BY <1>1 DEF LieIn
        <3>2. 0..Len(w) \subseteq 0..Len(u)
            BY <1>2, <1>5
        <3>3. QED BY <3>1, <3>2
    <2>2. ASSUME NEW i \in 1..l
          PROVE  at[i] < at[i + 1] /\ sh[i] = SubSeq(u, at[i] + 1, at[i + 1])
        <3>1. at[i] < at[i + 1] /\ sh[i] = SubSeq(w, at[i] + 1, at[i + 1])
            BY <1>1 DEF LieIn
        <3> DEFINE a == at[i]
                   b == at[i + 1]
        <3>2. a \in Nat /\ b \in a..Len(w)
            <4>1. i \in 1..(l + 1) /\ i + 1 \in 1..(l + 1)
                BY <1>2
            <4>2. QED BY <1>2, <3>1, <4>1
        <3> HIDE DEF a, b
        <3>3. SubSeq(u, a + 1, b) = SubSeq(w, a + 1, b)
            BY <1>4, <3>2, Grown
        <3>4. QED BY <3>1, <3>3 DEF a, b
    <2>3. QED BY <1>1, <2>1, <2>2 DEF LieIn
<1> HIDE DEF c
<1>7. chunk = SubSeq(u, c + 1, j)
    <2>1. SubSeq(u, c + 1, j) = SubSeq(w, c + 1, j)
        BY <1>3, <1>4, Grown
    <2>2. QED BY <1>1, <2>1 DEF c
<1>8. rest \o x = SubSeq(u, j + 1, Len(u))
    <2>1. Len(w) \in j..Len(w)
        BY <1>2, <1>3
    <2>2. QED BY <1>1, <1>3, <1>4, <2>1, Grown
<1>9. c < Len(u) => BeginsBrace(u[c + 1])
    <2>1. CASE c < Len(w)
        <3>1. c + 1 \in 1..(Len(w) + 2) /\ c + 1 <= Len(w)
            BY <1>2, <1>3, <2>1
        <3>2. QED BY <1>1, <1>5, <2>1, <3>1 DEF c
    <2>2. CASE c = Len(w)
        <3>1. c + 1 \in 1..(Len(w) + 2) /\ ~(c + 1 <= Len(w)) /\ (c + 1) - Len(w) = 1
            BY <1>2, <2>2
        <3>2. QED BY <1>4, <1>5, <3>1 DEF BeginsBrace
    <2>3. QED BY <1>2, <1>3, <2>1, <2>2
<1>10. j \in c..Len(u)
    BY <1>2, <1>3, <1>5
<1>11. OnWay(u, sh, chunk, rest \o x)
    BY <1>6, <1>7, <1>8, <1>9, <1>10 DEF OnWay, c
<1>12. QED BY <1>11 DEF x

LEMMA NothingYet == OnWay(<<>>, <<>>, <<>>, <<>>) /\ Paired(<<>>)
<1> DEFINE at == [i \in 1..1 |-> 0]
           e == <<>>
<1>1. e \in Seq(Piece) /\ e \in Seq(Seq(Piece)) /\ Len(e) = 0 /\ Paired(e)
    BY DEF Paired
<1>2. at \in [1..(Len(e) + 1) -> 0..Len(e)] /\ at[1] = 0 /\ at[Len(e) + 1] = 0
    BY <1>1
<1>3. SubSeq(e, 0 + 1, 0) = e
    <2>1. 0 \in 0..Len(e)
        BY <1>1
    <2>2. SubSeq(e, 0 + 1, 0) \in Seq(Piece) /\ Len(SubSeq(e, 0 + 1, 0)) = 0 - 0
        BY <1>1, <2>1, SubSeqOf
    <2>3. QED BY <2>2, EmptySeq
<1> HIDE DEF at, e
<1>4. LieIn(e, e, at)
    BY <1>1, <1>2 DEF LieIn
<1>5. OnWay(e, e, e, e)
    <2>1. e = SubSeq(e, at[Len(e) + 1] + 1, 0) /\ e = SubSeq(e, 0 + 1, Len(e))
        BY <1>1, <1>2, <1>3
    <2>2. 0 \in at[Len(e) + 1]..Len(e) /\ ~(at[Len(e) + 1] < Len(e))
        BY <1>1, <1>2
    <2>3. QED BY <1>4, <2>1, <2>2 DEF OnWay
<1>6. QED BY <1>1, <1>5 DEF e

\* There is a stream only on the one connection of a life, and what was passed
\* on, kept and not read yet lies on it in this order.
StreamInv ==
    /\ dspfd \in {NoFd} \cup 1..life
    /\ server = "starting" => dspfd < life
    /\ daemon # "loop" => dspfd = NoFd
    /\ Linked => accepted > 0
    /\ made \in 0..MaxObjects
    /\ server # "up" \/ accepted = 0
         => written = <<>> /\ shown = <<>> /\ jchunk = <<>> /\ toUi = <<>>
    /\ written \in Seq(Piece) /\ Paired(written)
    /\ shown \in Seq(Seq(Piece)) /\ \A i \in 1..Len(shown) : GoodPart(shown[i])
    /\ OnWay(written, shown, jchunk, toUi)

streamPart == <<written, shown, jchunk, toUi>>

\* The part of StreamInv that is about the stream itself.
StreamOk ==
    /\ written \in Seq(Piece) /\ Paired(written)
    /\ shown \in Seq(Seq(Piece)) /\ \A i \in 1..Len(shown) : GoodPart(shown[i])
    /\ OnWay(written, shown, jchunk, toUi)

LEMMA EmptyIsOk ==
    ASSUME streamPart' = << <<>>, <<>>, <<>>, <<>> >>
    PROVE  StreamOk'
<1>1. written' = <<>> /\ shown' = <<>> /\ jchunk' = <<>> /\ toUi' = <<>>
    BY DEF streamPart
<1>2. <<>> \in Seq(Piece) /\ <<>> \in Seq(Seq(Piece)) /\ Len(<<>>) = 0
    OBVIOUS
<1>3. QED BY <1>1, <1>2, NothingYet DEF StreamOk

LEMMA WriteKeeps ==
    ASSUME StreamOk, NEW o \in Nat,
           streamPart' = <<written \o Pieces(o), shown, jchunk, toUi \o Pieces(o)>>
    PROVE  StreamOk'
<1>1. /\ written' = written \o Pieces(o) /\ shown' = shown /\ jchunk' = jchunk
      /\ toUi' = toUi \o Pieces(o)
    BY DEF streamPart
<1>2. written \o Pieces(o) \in Seq(Piece) /\ Paired(written \o Pieces(o))
    BY PairedGrows DEF StreamOk
<1>3. OnWay(written \o Pieces(o), shown, jchunk, toUi \o Pieces(o))
    BY Written DEF StreamOk
<1>4. QED BY <1>1, <1>2, <1>3 DEF StreamOk

LEMMA FirstWriteKeeps ==
    ASSUME NEW o \in Nat, shown = <<>>,
           streamPart' = <<Pieces(o), shown, <<>>, Pieces(o)>>
    PROVE  StreamOk'
<1> DEFINE e == <<>>
           p == Pieces(o)
<1>1. p \in Seq(Piece) /\ e \in Seq(Piece) /\ e \in Seq(Seq(Piece)) /\ Len(e) = 0
    BY DEF Pieces, Piece
<1>2. e \o p = p
    BY <1>1, ConcatEmptySeq
<1>3. OnWay(e, e, e, e) /\ Paired(e)
    BY NothingYet
<1>4. written' = p /\ shown' = e /\ jchunk' = e /\ toUi' = p
    BY DEF streamPart
<1> HIDE DEF e
<1>5. Paired(e \o Pieces(o)) /\ OnWay(e \o Pieces(o), e, e, e \o Pieces(o))
    BY <1>1, <1>3, PairedGrows, Written
<1>6. QED BY <1>1, <1>2, <1>4, <1>5 DEF StreamOk

LEMMA DataKeeps ==
    ASSUME StreamOk, Data
    PROVE  StreamOk'
<1>1. PICK n \in 1..Len(toUi) :
         LET r == Reassemble(jchunk \o SubSeq(toUi, 1, n))
         IN  /\ toUi' = SubSeq(toUi, n + 1, Len(toUi))
             /\ shown' = shown \o r.out
             /\ jchunk' = r.keep
    BY DEF Data
<1> DEFINE r == Reassemble(jchunk \o SubSeq(toUi, 1, n))
           out == r.out
           keep == r.keep
<1>2. r = [out |-> out, keep |-> keep]
    BY DEF Reassemble
<1>3. written' = written /\ toUi' = SubSeq(toUi, n + 1, Len(toUi)) /\ shown' = shown \o out /\ jchunk' = keep
    BY <1>1 DEF Data
<1>4. [out |-> out, keep |-> keep] = Reassemble(jchunk \o SubSeq(toUi, 1, n))
    BY <1>2
<1> HIDE DEF r, out, keep
<1>5. /\ out \in Seq(Seq(Piece)) /\ \A i \in 1..Len(out) : GoodPart(out[i])
      /\ OnWay(written, shown \o out, keep, SubSeq(toUi, n + 1, Len(toUi)))
    BY <1>4, PassedOn DEF StreamOk
<1>6. /\ shown \o out \in Seq(Seq(Piece))
      /\ \A i \in 1..Len(shown \o out) : GoodPart((shown \o out)[i])
    <2> DEFINE t == shown \o out
    <2>1. /\ t \in Seq(Seq(Piece)) /\ Len(t) = Len(shown) + Len(out)
          /\ Len(shown) \in Nat /\ Len(out) \in Nat
          /\ \A i \in 1..(Len(shown) + Len(out)) :
               t[i] = IF i <= Len(shown) THEN shown[i] ELSE out[i - Len(shown)]
        BY <1>5, ConcatProperties, LenProperties DEF StreamOk
    <2> HIDE DEF t
    <2>2. ASSUME NEW i \in 1..Len(t) PROVE GoodPart(t[i])
        <3>1. CASE i <= Len(shown)
            <4>1. i \in 1..Len(shown) /\ t[i] = shown[i]
                BY <2>1, <3>1
            <4>2. QED BY <4>1 DEF StreamOk
        <3>2. CASE ~(i <= Len(shown))
            <4>1. i - Len(shown) \in 1..Len(out) /\ t[i] = out[i - Len(shown)]
                BY <2>1, <3>2
            <4>2. QED BY <1>5, <4>1
        <3>3. QED BY <3>1, <3>2
    <2>3. QED BY <2>1, <2>2 DEF t
<1>7. QED BY <1>3, <1>5, <1>6 DEF StreamOk

\* Nothing of the stream or the link changes; the daemon may begin to wait when
\* it has no descriptor, or give up a descriptor that leads nowhere.
LEMMA NoStream ==
    ASSUME LinkInv, StreamInv,
           UNCHANGED <<server, life, accepted, streamPart>>, made' \in 0..MaxObjects,
           \/ dspfd' = dspfd /\ (daemon' = "loop" \/ dspfd = NoFd)
           \/ dspfd' = NoFd
    PROVE  StreamInv'
BY DEF LinkInv, StreamInv, streamPart, NoFd, Linked

LEMMA StreamKeeps ==
    ASSUME LinkInv, StreamInv, [Next]_vars
    PROVE  StreamInv'
<1> USE UiLinkAssumption
<1>1. /\ life \in Nat /\ accepted \in Nat /\ made \in Nat /\ StreamOk
      /\ made < MaxObjects => made + 1 \in 0..MaxObjects
    BY DEF LinkInv, StreamInv, StreamOk
<1>2. ASSUME PutNext, UNCHANGED <<daemon, server, life, accepted, jchunk, shown>>, daemon = "loop"
      PROVE  StreamInv'
    <2>1. CASE Linked
        <3>1. /\ streamPart' = <<written \o Pieces(made + 1), shown, jchunk, toUi \o Pieces(made + 1)>>
              /\ UNCHANGED dspfd /\ made' = made + 1 /\ made < MaxObjects
            BY <1>2, <2>1 DEF PutNext, Put, streamPart
        <3>2. StreamOk'
            <4>1. made + 1 \in Nat
                BY <1>1
            <4> DEFINE o == made + 1
            <4> HIDE DEF o
            <4>2. o \in Nat /\ streamPart' = <<written \o Pieces(o), shown, jchunk, toUi \o Pieces(o)>>
                BY <3>1, <4>1 DEF o
            <4>3. QED BY <1>1, <4>2, WriteKeeps
        <3>3. server' = "up" /\ accepted' > 0
            BY <1>2, <2>1 DEF StreamInv, Linked
        <3>4. QED BY <1>1, <1>2, <3>1, <3>2, <3>3 DEF StreamInv, StreamOk, Linked
    <2>2. CASE ~Linked
        <3>1. UNCHANGED streamPart /\ dspfd' = NoFd /\ made' = made + 1 /\ made < MaxObjects
            BY <1>2, <2>2 DEF PutNext, Put, streamPart
        <3>2. QED BY <1>1, <1>2, <3>1, NoStream
    <2>3. QED BY <2>1, <2>2
<1>3. CASE SendWaits
    BY <1>1, <1>3, NoStream DEF SendWaits, StartWaiting, streamVars, streamPart
<1>4. CASE WaitEnds
    BY <1>1, <1>4, NoStream DEF WaitEnds, FileSeen, streamVars, streamPart, StreamInv
<1>5. CASE ConnectAndSend
    <2>1. CASE server = "up" /\ path = life
        <3>1. accepted = 0 /\ daemon = "settle"
            BY <1>5, <2>1 DEF ConnectAndSend, Connect, LinkInv
        <3>2. written = <<>> /\ shown = <<>> /\ jchunk = <<>> /\ toUi = <<>>
            BY <3>1 DEF StreamInv
        <3>3. /\ dspfd' = life /\ accepted' = accepted + 1 /\ toUi' = Pieces(made)
              /\ daemon' = "loop" /\ UNCHANGED <<server, life, made, shown>>
            BY <1>5, <2>1 DEF ConnectAndSend, Connect
        <3>4. dspfd' # NoFd
            BY <1>1, <3>3 DEF NoFd
        <3>5. written' = Pieces(made) /\ jchunk' = <<>>
            BY <1>5, <3>4 DEF ConnectAndSend
        <3>6. StreamOk'
            <4>1. streamPart' = <<Pieces(made), shown, <<>>, Pieces(made)>>
                BY <3>3, <3>5 DEF streamPart
            <4>2. QED BY <1>1, <3>2, <4>1, FirstWriteKeeps
        <3>7. life > 0
            BY <2>1 DEF LinkInv
        <3>8. accepted' > 0 /\ dspfd' \in {NoFd} \cup 1..life'
            BY <1>1, <3>3, <3>7
        <3>9. QED BY <2>1, <3>3, <3>6, <3>8 DEF StreamInv, StreamOk
    <2>2. CASE ~(server = "up" /\ path = life)
        <3>1. UNCHANGED <<dspfd, accepted, toUi, server, life, made, shown>> /\ daemon' = "loop"
            BY <1>5, <2>2 DEF ConnectAndSend, Connect
        <3>2. dspfd' = NoFd
            BY <1>5, <3>1 DEF ConnectAndSend, Connect, StreamInv
        <3>3. UNCHANGED <<written, jchunk>>
            BY <1>5, <3>2 DEF ConnectAndSend
        <3>4. QED BY <3>1, <3>2, <3>3, NoStream DEF streamPart, StreamInv
    <2>3. QED BY <2>1, <2>2
<1>6. CASE UiSend
    BY <1>2, <1>6 DEF UiSend
<1>7. CASE HandleDisplay
    <2>1. CASE PutNext
        BY <1>2, <1>7, <2>1 DEF HandleDisplay
    <2>2. CASE UNCHANGED <<dspfd, toUi, made, written>>
        BY <1>7, <2>2, NoStream DEF HandleDisplay, streamPart, StreamInv
    <2>3. QED BY <1>7, <2>1, <2>2 DEF HandleDisplay
<1>8. CASE HandleHangup
    BY <1>8, NoStream DEF HandleHangup, streamVars, streamPart, StreamInv
<1>9. CASE Restart
    BY <1>9, NoStream DEF Restart, DaemonRestart, streamVars, streamPart, StreamInv
<1>10. CASE Unlinked
    BY <1>10, NoStream DEF Unlinked, UnlinkDone, streamVars, streamPart, StreamInv
<1>11. CASE Data
    <2>1. StreamOk'
        BY <1>1, <1>11, DataKeeps
    <2>2. UNCHANGED <<daemon, dspfd, server, life, accepted, made>>
        BY <1>11 DEF Data
    <2>3. server = "up" /\ accepted # 0
        <3>1. PICK n \in 1..Len(toUi) : TRUE
            BY <1>11 DEF Data
        <3>2. toUi # <<>>
            BY <3>1
        <3>3. QED BY <1>11, <3>2 DEF Data, StreamInv
    <2>4. QED BY <2>1, <2>2, <2>3 DEF StreamInv, StreamOk, Linked
<1>12. CASE PageNext
    <2>1. UNCHANGED <<socketVars, streamVars, made>>
        BY <1>12 DEF PageNext, Request, Close, ChatMessage, SendTo, Control, Emit
    <2>2. QED BY <2>1, NoStream DEF socketVars, streamVars, streamPart, StreamInv
<1>13. CASE Listens
    <2>1. /\ UNCHANGED <<daemon, dspfd, life, accepted, toUi, made, jchunk, shown, written>>
          /\ server = "starting" /\ server' \in {"up", "down"}
        BY <1>13 DEF Listens, Listen, streamVars
    <2>2. dspfd < life /\ server # "up"
        BY <2>1 DEF StreamInv
    <2>3. written = <<>> /\ shown = <<>> /\ jchunk = <<>> /\ toUi = <<>>
        BY <2>2 DEF StreamInv
    <2>4. StreamOk'
        BY <2>1, <2>3, EmptyIsOk DEF streamPart
    <2>5. ~(dspfd = life)
        BY <1>1, <2>2 DEF StreamInv, NoFd
    <2>6. QED BY <2>1, <2>3, <2>4, <2>5 DEF StreamInv, StreamOk, Linked
<1>14. CASE Start
    <2>1. /\ UNCHANGED <<daemon, dspfd, made, jchunk, shown, written>>
          /\ server = "down" /\ server' = "starting" /\ toUi' = <<>> /\ life' = life + 1
        BY <1>14 DEF Start, ServerStart, streamVars
    <2>2. written = <<>> /\ shown = <<>> /\ jchunk = <<>>
        BY <2>1 DEF StreamInv
    <2>3. StreamOk'
        BY <2>1, <2>2, EmptyIsOk DEF streamPart
    <2>4. dspfd' \in {NoFd} \cup 1..life' /\ dspfd' < life'
        BY <1>1, <2>1 DEF StreamInv, NoFd
    <2>5. QED BY <2>1, <2>2, <2>3, <2>4 DEF StreamInv, StreamOk, Linked
<1>15. CASE Dies \/ EmitFails
    <2>1. /\ UNCHANGED <<daemon, dspfd, life, accepted, made>>
          /\ server' = "down"
          /\ written' = <<>> /\ shown' = <<>> /\ jchunk' = <<>> /\ toUi' = <<>>
        BY <1>15 DEF Dies, EmitFails, ServerDies, Forgotten
    <2>2. StreamOk'
        BY <2>1, EmptyIsOk DEF streamPart
    <2>3. QED BY <2>1, <2>2 DEF StreamInv, StreamOk, Linked
<1>16. CASE UNCHANGED vars
    BY <1>16, NoStream DEF vars, socketVars, streamVars, streamPart, StreamInv
<1>17. QED BY <1>3, <1>4, <1>5, <1>6, <1>7, <1>8, <1>9, <1>10, <1>11, <1>12, <1>13, <1>14,
              <1>15, <1>16 DEF Next, DaemonNext, ServerNext

LEMMA StreamInvariance == Spec => []StreamInv
<1>1. Init => StreamInv
    <2> SUFFICES ASSUME Init PROVE StreamInv
        OBVIOUS
    <2>1. /\ written = <<>> /\ shown = <<>> /\ jchunk = <<>> /\ toUi = <<>>
          /\ dspfd = NoFd /\ server = "down" /\ daemon = "loop" /\ made = 0 /\ life = 0
        BY DEF Init, SocketInit
    <2>2. <<>> \in Seq(Piece) /\ <<>> \in Seq(Seq(Piece)) /\ Len(<<>>) = 0
        OBVIOUS
    <2>3. OnWay(written, shown, jchunk, toUi) /\ Paired(written)
        BY <2>1, NothingYet
    <2>4. QED BY <2>1, <2>2, <2>3, UiLinkAssumption DEF StreamInv, Linked
<1>2. LinkInv /\ StreamInv /\ [Next]_vars => StreamInv'
    BY StreamKeeps
<1>3. QED BY <1>1, <1>2, LinkInvariance, PTL DEF Spec

\* Nothing the daemon wrote is lost, doubled or put in another order on its way
\* to the pages, however a life's reads cut it (tracker-server.js:390-419).
THEOREM StreamArrives == Spec => []StreamIntact
<1>1. StreamInv => StreamIntact
    <2> SUFFICES ASSUME StreamInv PROVE StreamIntact
        OBVIOUS
    <2> DEFINE w == written
               l == Len(shown)
    <2>1. PICK at, j :
            /\ LieIn(w, shown, at)
            /\ j \in at[l + 1]..Len(w)
            /\ jchunk = SubSeq(w, at[l + 1] + 1, j)
            /\ toUi = SubSeq(w, j + 1, Len(w))
        BY DEF StreamInv, OnWay
    <2> DEFINE c == at[l + 1]
    <2>2. w \in Seq(Piece) /\ Len(w) \in Nat /\ c \in 0..Len(w) /\ j \in c..Len(w) /\ j \in Nat
        <3>1. w \in Seq(Piece) /\ Len(w) \in Nat /\ l + 1 \in 1..(l + 1)
            BY LenProperties DEF StreamInv
        <3>2. c \in 0..Len(w)
            BY <2>1, <3>1 DEF LieIn
        <3>3. QED BY <2>1, <3>1, <3>2
    <2>3. FlattenSeq(shown) = SubSeq(w, 0 + 1, c)
        BY <2>1, <2>2, Together DEF StreamInv
    <2> HIDE DEF c
    <2>4. FlattenSeq(shown) \o jchunk = SubSeq(w, 0 + 1, j)
        <3>1. SubSeq(w, 0 + 1, c) \o SubSeq(w, c + 1, j) = SubSeq(w, 0 + 1, j)
            BY <2>2, SubSeqJoin
        <3>2. jchunk = SubSeq(w, c + 1, j)
            BY <2>1 DEF c
        <3>3. QED BY <2>3, <3>1, <3>2
    <2>5. SubSeq(w, 0 + 1, j) \o toUi = SubSeq(w, 0 + 1, Len(w))
        <3>1. j \in 0..Len(w) /\ Len(w) \in j..Len(w)
            BY <2>2
        <3>2. QED BY <2>1, <2>2, <3>1, SubSeqJoin
    <2>6. SubSeq(w, 0 + 1, Len(w)) = w
        <3>1. Len(w) \in 0..Len(w) /\ Len(w) - 0 = Len(w)
            BY <2>2
        <3>2. /\ SubSeq(w, 0 + 1, Len(w)) \in Seq(Piece) /\ Len(SubSeq(w, 0 + 1, Len(w))) = Len(w) - 0
              /\ \A i \in 1..(Len(w) - 0) : SubSeq(w, 0 + 1, Len(w))[i] = w[0 + i]
            BY <2>2, <3>1, SubSeqOf
        <3>3. QED BY <2>2, <3>1, <3>2, SeqEqual
    <2>7. FlattenSeq(shown) \o jchunk \o toUi = written
        BY <2>4, <2>5, <2>6
    <2>8. \A i \in DOMAIN shown : GoodPart(shown[i])
        BY LenProperties DEF StreamInv
    <2>9. QED BY <2>7, <2>8 DEF StreamIntact, GoodPart
<1>2. QED BY <1>1, StreamInvariance, PTL

-----------------------------------------------------------------------------
(* Types.                                                                  *)

\* What TypeOK says beyond the invariants above.
TypeInv ==
    /\ daemon \in {"loop", "wait", "settle"}
    /\ life \in 0..MaxLives
    /\ unlinking \in BOOLEAN
    /\ history \in Seq(Message) /\ Len(history) <= HistoryLen
    /\ told \in [Pages -> SUBSET (1..MaxCommands)]

LEMMA LatestShort ==
    ASSUME NEW S, NEW msgs \in Seq(S)
    PROVE  Len(Latest(msgs)) <= HistoryLen
<1> DEFINE n == Len(msgs)
           m == Max({1, n - HistoryLen + 1})
<1>1. n \in Nat /\ HistoryLen \in Nat /\ HistoryLen > 0
    BY LenProperties, UiLinkAssumption
<1>2. m \in Int /\ m >= 1 /\ m >= n - HistoryLen + 1
    <2> DEFINE b == n - HistoryLen + 1
    <2>1. b \in Int
        BY <1>1
    <2> HIDE DEF b
    <2>2. Max({1, b}) \in {1, b} /\ Max({1, b}) >= 1 /\ Max({1, b}) >= b
        <3>1. 1 \in Int
            OBVIOUS
        <3>2. QED BY <2>1, <3>1, MaxOfTwo
    <2>3. QED BY <2>1, <2>2 DEF b
<1>3. Latest(msgs) = SubSeq(msgs, m, n)
    BY DEF Latest
<1> HIDE DEF m
<1>4. \A i \in m..n : msgs[i] \in S
    BY <1>1, <1>2, ElementOfSeq
<1>5. Len(SubSeq(msgs, m, n)) = IF m <= n THEN n - m + 1 ELSE 0
    BY <1>1, <1>2, <1>4, SubSeqProperties
<1>6. QED BY <1>1, <1>2, <1>3, <1>5

LEMMA TypeInvariance == Spec => []TypeInv
<1> USE UiLinkAssumption, LivesAssumption
<1>1. Init => TypeInv
    <2> SUFFICES ASSUME Init PROVE TypeInv
        OBVIOUS
    <2>1. /\ daemon = "loop" /\ life = 0 /\ unlinking = FALSE /\ history = <<>>
          /\ told = [p \in Pages |-> {}]
        BY DEF Init, SocketInit
    <2>2. history \in Seq(Message) /\ Len(history) = 0
        BY <2>1
    <2>3. told \in [Pages -> SUBSET (1..MaxCommands)] /\ unlinking \in BOOLEAN
        BY <2>1
    <2>4. life \in 0..MaxLives /\ Len(history) <= HistoryLen
        BY <2>1, <2>2
    <2>5. QED BY <2>1, <2>2, <2>3, <2>4 DEF TypeInv
<1>2. ASSUME TypeInv, CommandInv, DestInv, [Next]_vars PROVE TypeInv'
    <2>1. ASSUME UNCHANGED <<history, told>>, daemon' \in {"loop", "wait", "settle"},
                 life' \in 0..MaxLives, unlinking' \in BOOLEAN
          PROVE  TypeInv'
        BY <1>2, <2>1 DEF TypeInv
    <2>2. CASE DaemonNext \/ ServerNext \/ Start \/ Restart
        <3>1. UNCHANGED <<history, told>>
            BY <2>2 DEF DaemonNext, SendWaits, WaitEnds, ConnectAndSend, UiSend,
                  HandleDisplay, HandleHangup, ServerNext, Unlinked, Listens, Data, Start,
                  Restart, pageVars
        <3>2. daemon' \in {"loop", "wait", "settle"}
            BY <1>2, <2>2 DEF DaemonNext, SendWaits, WaitEnds, ConnectAndSend, UiSend,
                  HandleDisplay, HandleHangup, ServerNext, Unlinked, Listens, Data, Start,
                  Restart, StartWaiting, FileSeen, Connect, UnlinkDone, Listen, ServerStart,
                  DaemonRestart, TypeInv
        <3>3. life' \in 0..MaxLives
            BY <1>2, <2>2 DEF DaemonNext, SendWaits, WaitEnds, ConnectAndSend, UiSend,
                  HandleDisplay, HandleHangup, ServerNext, Unlinked, Listens, Data, Start,
                  Restart, StartWaiting, FileSeen, Connect, UnlinkDone, Listen, ServerStart,
                  DaemonRestart, TypeInv
        <3>4. unlinking' = unlinking \/ unlinking' \in {TRUE, FALSE}
            BY <2>2 DEF DaemonNext, SendWaits, WaitEnds, ConnectAndSend, UiSend,
                  HandleDisplay, HandleHangup, ServerNext, Unlinked, Listens, Data, Start,
                  Restart, StartWaiting, FileSeen, Connect, UnlinkDone, Listen, ServerStart,
                  DaemonRestart
        <3>5. unlinking' \in BOOLEAN
            BY <1>2, <3>4, Zenon DEF TypeInv
        <3>6. QED BY <2>1, <3>1, <3>2, <3>3, <3>5
    <2>3. CASE Dies \/ EmitFails
        <3>1. /\ history' = <<>> /\ told' = [p \in Pages |-> {}]
              /\ UNCHANGED <<daemon, life>> /\ unlinking' = FALSE
            BY <2>3 DEF Dies, EmitFails, ServerDies, Forgotten
        <3>2. history' \in Seq(Message) /\ Len(history') = 0
            BY <3>1
        <3>3. told' \in [Pages -> SUBSET (1..MaxCommands)]
            BY <3>1
        <3>4. unlinking' \in BOOLEAN
            BY <3>1
        <3>5. QED BY <1>2, <3>1, <3>2, <3>3, <3>4 DEF TypeInv
    <2>4. CASE PageNext
        <3>1. UNCHANGED <<daemon, life, unlinking>>
            BY <2>4 DEF PageNext, Request, Close, ChatMessage, SendTo, Control, Emit, socketVars
        <3>2. PICK p \in Pages :
                \/ Request(p) \/ Close(p) \/ ChatMessage(p)
                \/ \E c \in Calls : SendTo(p, c)
                \/ \E k \in Kinds \ {"message"} : Control(p, k)
            BY <2>4 DEF PageNext
        <3>3. CASE Close(p) \/ (\E c \in Calls : SendTo(p, c)) \/ \E k \in Kinds \ {"message"} : Control(p, k)
            BY <1>2, <2>1, <3>1, <3>3 DEF Close, SendTo, Control, TypeInv
        <3>4. CASE Request(p)
            <4>1. history' = history /\ told' = [told EXCEPT ![p] = Ids(history)]
                BY <3>4 DEF Request
            <4>2. \A i \in DOMAIN history : history[i] \in Message
                BY <1>2, LenProperties, ElementOfSeq DEF TypeInv
            <4>3. \A m \in Message : m.id \in 1..MaxCommands
                BY DEF Message
            <4>4. Ids(history) \subseteq 1..MaxCommands
                BY <4>2, <4>3 DEF Ids
            <4>5. told' \in [Pages -> SUBSET (1..MaxCommands)]
                BY <1>2, <4>1, <4>4 DEF TypeInv
            <4>6. QED BY <1>2, <3>1, <4>1, <4>5 DEF TypeInv
        <3>5. CASE ChatMessage(p)
            <4> DEFINE obj == [id |-> commands + 1, to |-> destName[p], meant |-> chosen[p]]
                       all == Append(history, obj)
            <4>1. commands + 1 \in 1..MaxCommands
                BY <1>2, <3>5 DEF CommandInv, ChatMessage
            <4>2. obj \in Message
                BY <1>2, <4>1 DEF DestInv, Message
            <4>3. history' = Latest(all)
                BY <3>5 DEF ChatMessage
            <4> HIDE DEF obj
            <4>4. all \in Seq(Message)
                BY <1>2, <4>2 DEF TypeInv
            <4> HIDE DEF all
            <4>5. history' \in Seq(Message) /\ Len(history') <= HistoryLen
                BY <4>3, <4>4, LatestOnly, LatestShort
            <4>6. told' = [q \in Pages |-> IF q \in Range(trkClients)
                                           THEN told[q] \cup {commands + 1} ELSE told[q]]
                BY <3>5 DEF ChatMessage
            <4>7. told' \in [Pages -> SUBSET (1..MaxCommands)]
                BY <1>2, <4>1, <4>6 DEF TypeInv
            <4>8. QED BY <1>2, <3>1, <4>5, <4>7 DEF TypeInv
        <3>6. QED BY <3>2, <3>3, <3>4, <3>5
    <2>5. CASE UNCHANGED vars
        BY <1>2, <2>1, <2>5 DEF vars, pageVars, socketVars, TypeInv
    <2>6. QED BY <1>2, <2>2, <2>3, <2>4, <2>5 DEF Next
<1>3. QED BY <1>1, <1>2, CommandInvariance, DestInvariance, PTL DEF Spec

\* Every variable keeps its type; with it, the history never holds more than its
\* length (tracker-server.js:322).
THEOREM TypeCorrect == Spec => []TypeOK
<1>1. TypeInv /\ LinkInv /\ StreamInv /\ CommandInv /\ TellInv => TypeOK
    <2> SUFFICES ASSUME TypeInv, LinkInv, StreamInv, CommandInv, TellInv PROVE TypeOK
        OBVIOUS
    <2>1. jchunk \in Seq(Piece) /\ toUi \in Seq(Piece)
        <3> DEFINE w == written
                   l == Len(shown)
        <3>1. PICK at, j :
                /\ LieIn(w, shown, at)
                /\ j \in at[l + 1]..Len(w)
                /\ jchunk = SubSeq(w, at[l + 1] + 1, j)
                /\ toUi = SubSeq(w, j + 1, Len(w))
            BY DEF StreamInv, OnWay
        <3> DEFINE c == at[l + 1]
        <3>2. w \in Seq(Piece) /\ Len(w) \in Nat /\ l + 1 \in 1..(l + 1)
            BY LenProperties DEF StreamInv
        <3>3. c \in 0..Len(w)
            BY <3>1, <3>2 DEF LieIn
        <3> HIDE DEF c
        <3>4. /\ jchunk = SubSeq(w, c + 1, j) /\ c \in Nat /\ j \in c..Len(w)
              /\ j \in Nat /\ Len(w) \in j..Len(w)
            BY <3>1, <3>2, <3>3 DEF c
        <3>5. jchunk \in Seq(Piece)
            BY <3>2, <3>4, SubSeqOf
        <3>6. toUi \in Seq(Piece)
            BY <3>1, <3>2, <3>4, SubSeqOf
        <3>7. QED BY <3>5, <3>6
    <2>2. dspfd \in {NoFd} \cup 1..MaxLives /\ path \in 0..MaxLives
        <3>1. life \in 0..MaxLives /\ MaxLives \in Nat
            BY LivesAssumption DEF TypeInv
        <3>2. 1..life \subseteq 1..MaxLives /\ 0..life \subseteq 0..MaxLives
            BY <3>1
        <3>3. QED BY <3>2 DEF LinkInv, StreamInv
    <2>3. SocketTypeOK
        BY <2>1, <2>2 DEF TypeInv, LinkInv, SocketTypeOK
    <2>4. open \in SUBSET Pages
        <3>1. \A i \in DOMAIN trkClients : trkClients[i] \in Pages
            BY LenProperties, ElementOfSeq DEF TellInv
        <3>2. QED BY <3>1 DEF TellInv, Range
    <2>5. QED BY <2>1, <2>3, <2>4 DEF TypeInv, StreamInv, CommandInv, TellInv, TypeOK
<1>2. QED BY <1>1, TypeInvariance, LinkInvariance, StreamInvariance, CommandInvariance,
             TellInvariance, PTL
=============================================================================
