---------------------------- MODULE DisplaySocket ----------------------------
(***************************************************************************)
(* The Unix socket between a daemon and its web server.                    *)
(*                                                                         *)
(* Both read the same path from the ini file.  The server removes what is  *)
(* left there and listens; fs.unlink is asynchronous, so the file may go   *)
(* before or after the server bound its own.  The daemon, whenever it has  *)
(* no connection and something to send, removes the file too, waits until  *)
(* a file appears, sleeps two seconds and connects; nothing else of the    *)
(* daemon runs meanwhile.  Either program may be killed at any time.       *)
(*                                                                         *)
(* A server's life is numbered; a file and a connection are known by the   *)
(* life that bound or accepted them.  socket() itself is taken to succeed  *)
(* and the host name option (AF_INET) is not used.                         *)
(*                                                                         *)
(* X_Faulty is a plausible wrong version of X that the specification does  *)
(* not use.                                                                *)
(***************************************************************************)
EXTENDS JsonStream

CONSTANT MaxLives      \* how often the server is started

ASSUME LivesAssumption == MaxLives \in Nat \ {0}

VARIABLES
    daemon,       \* "loop", or inside ui_connect: "wait" for a file, "settle"
    dspfd,        \* the life connected to, NoFd when the descriptor is not valid
    path,         \* the life whose socket file is at the path, NoFile when none is
    server,       \* "down", "starting" (unlink issued, not yet listening), "up"
    life,         \* how often the server has been started
    unlinking,    \* this life's fs.unlink has not happened yet
    accepted,     \* connections accepted in this life: one set of listeners each
    toUi          \* pieces written by the daemon and not read by the server

socketVars == <<daemon, dspfd, path, server, life, unlinking, accepted, toUi>>

NoFd == -1
NoFile == 0

\* The descriptor leads to a server that runs.
Linked == server = "up" /\ dspfd = life

SocketTypeOK ==
    /\ daemon \in {"loop", "wait", "settle"}
    /\ dspfd \in {NoFd} \cup 1..MaxLives
    /\ path \in 0..MaxLives
    /\ server \in {"down", "starting", "up"}
    /\ life \in 0..MaxLives
    /\ unlinking \in BOOLEAN
    /\ accepted \in Nat
    /\ toUi \in Seq(Piece)

SocketInit ==
    /\ daemon = "loop" /\ dspfd = NoFd
    /\ path = NoFile
    /\ server = "down" /\ life = 0 /\ unlinking = FALSE
    /\ accepted = 0 /\ toUi = <<>>

-----------------------------------------------------------------------------
(* The daemon's side.                                                      *)

\* No connection: remove the file and wait for the node script to make one.
StartWaiting_Faulty ==
    /\ daemon = "loop" /\ dspfd = NoFd
    /\ daemon' = "wait"
    /\ UNCHANGED <<dspfd, path, server, life, unlinking, accepted, toUi>>

StartWaiting ==
    /\ daemon = "loop" /\ dspfd = NoFd
    /\ path' = NoFile
    /\ daemon' = "wait"
    /\ UNCHANGED <<dspfd, server, life, unlinking, accepted, toUi>>

\* stat finds a file, whoever's it is.
FileSeen_Faulty ==
    /\ daemon = "wait" /\ path # NoFile
    /\ path' = NoFile
    /\ UNCHANGED <<daemon, dspfd, server, life, unlinking, accepted, toUi>>

FileSeen ==
    /\ daemon = "wait" /\ path # NoFile
    /\ daemon' = "settle"
    /\ UNCHANGED <<dspfd, path, server, life, unlinking, accepted, toUi>>

\* connect succeeds when the file is there and its server still listens; what
\* was to be sent is then sent, or given up.
Connect(pieces) ==
    /\ daemon = "settle"
    /\ daemon' = "loop"
    /\ IF server = "up" /\ path = life
         THEN /\ dspfd' = life
              /\ accepted' = accepted + 1
              /\ toUi' = pieces
         ELSE UNCHANGED <<dspfd, accepted, toUi>>
    /\ UNCHANGED <<path, server, life, unlinking>>

\* One send on a valid descriptor: taken, or an error that closes it.
Put(o) ==
    IF Linked THEN toUi' = toUi \o Pieces(o) /\ UNCHANGED dspfd
              ELSE dspfd' = NoFd /\ UNCHANGED toUi

\* The daemon is killed and started again.
DaemonRestart ==
    /\ daemon' = "loop" /\ dspfd' = NoFd
    /\ UNCHANGED <<path, server, life, unlinking, accepted, toUi>>

-----------------------------------------------------------------------------
(* The server's side.                                                      *)

ServerStart ==
    /\ server = "down" /\ life < MaxLives
    /\ server' = "starting" /\ life' = life + 1
    /\ unlinking' = TRUE
    /\ accepted' = 0 /\ toUi' = <<>>
    /\ UNCHANGED <<daemon, dspfd, path>>

\* The thread pool carries out the unlink, in its own time.
UnlinkDone ==
    /\ unlinking
    /\ path' = NoFile /\ unlinking' = FALSE
    /\ UNCHANGED <<daemon, dspfd, server, life, accepted, toUi>>

\* listen binds the path; a file that is still there is an error nobody
\* handles and the process ends.
Listen ==
    /\ server = "starting"
    /\ IF path = NoFile
         THEN server' = "up" /\ path' = life /\ UNCHANGED unlinking
         ELSE server' = "down" /\ unlinking' = FALSE /\ UNCHANGED path
    /\ UNCHANGED <<daemon, dspfd, life, accepted, toUi>>

\* Killed, with the file left behind.
ServerDies ==
    /\ server # "down"
    /\ server' = "down" /\ unlinking' = FALSE
    /\ toUi' = <<>>
    /\ UNCHANGED <<daemon, dspfd, path, life, accepted>>
=============================================================================
