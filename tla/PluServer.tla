------------------------------ MODULE PluServer ------------------------------
(***************************************************************************)
(* The plugin web server (plu-server.js): pages start mail programs and    *)
(* kill them, and see by a button's colour whether mail waits in the       *)
(* outbox.                                                                 *)
(*                                                                         *)
(* Each connection keeps a list of the children it started.  A child that  *)
(* exits is removed at the index indexOf finds; the kill button signals    *)
(* children and removes them while forEach walks along the same list.  The *)
(* outbox is a directory other programs write to: it is read once when a   *)
(* page connects and again whenever fs.watch reports a change.             *)
(*                                                                         *)
(* X_Faulty is a plausible wrong version of X that the specification does  *)
(* not use.                                                                *)
(***************************************************************************)
EXTENDS Integers, Sequences, FiniteSets, SequencesExt

CONSTANTS
    Browsers,       \* connections made to the server
    MaxChildren,    \* bound: processes started in all
    MaxMail         \* bound: files in the outbox

ASSUME PluAssumption == MaxChildren \in Nat /\ MaxMail \in Nat

VARIABLES
    connected,      \* connection: "no", "greeted" (outbox read), "watching", "closed",
                    \* or "gone" with the server that had it
    chillens,       \* the children listed for each connection
    children,       \* every process started: [by, running, signalled]
    mail,           \* files in the outbox
    color,          \* the button's colour: TRUE when green
    due             \* connections the watch of which has something to report

pluVars == <<connected, chillens, children, mail, color, due>>

PluTypeOK ==
    /\ connected \in [Browsers -> {"no", "greeted", "watching", "closed", "gone"}]
    /\ chillens \in [Browsers -> Seq(1..MaxChildren)]
    /\ children \in Seq([by : Browsers, running : BOOLEAN, signalled : BOOLEAN])
    /\ Len(children) <= MaxChildren
    /\ mail \in 0..MaxMail
    /\ color \in [Browsers -> BOOLEAN]
    /\ due \in SUBSET Browsers

PluInit ==
    /\ connected = [b \in Browsers |-> "no"]
    /\ chillens = [b \in Browsers |-> <<>>]
    /\ children = <<>>
    /\ mail \in 0..MaxMail
    /\ color = [b \in Browsers |-> FALSE]
    /\ due = {}

childVars == <<chillens, children>>
outboxVars == <<mail, color, due>>

Seen == {b \in Browsers : connected[b] \in {"greeted", "watching"}}

\* No callback is running: the server is one thread, other programs are not.
Idle == \A b \in Browsers : connected[b] # "greeted"

-----------------------------------------------------------------------------
(* Connections and the outbox.                                             *)

\* btnColor: green when readdirSync returned any names.
BtnColor(n) == n > 0

\* on('request'): the outbox is read and the colour sent ...
PageRequest(b) ==
    /\ Idle /\ connected[b] = "no"
    /\ connected' = [connected EXCEPT ![b] = "greeted"]
    /\ color' = [color EXCEPT ![b] = BtnColor(mail)]
    /\ UNCHANGED <<childVars, mail, due>>

\* ... and at the end of the same callback the directory is watched.  The
\* watch is never closed.
Watch(b) ==
    /\ connected[b] = "greeted"
    /\ connected' = [connected EXCEPT ![b] = "watching"]
    /\ UNCHANGED <<childVars, outboxVars>>

\* The connection closes: its children and its watch stay, and so does its
\* entry in pluClients, which nothing reads.
PageClose(b) ==
    /\ Idle /\ connected[b] = "watching"
    /\ connected' = [connected EXCEPT ![b] = "closed"]
    /\ UNCHANGED <<childVars, outboxVars>>

\* Some program, a child or another, adds or removes mail.
OutboxChanges(n) ==
    /\ n # mail
    /\ mail' = n
    /\ due' = due \cup {b \in Browsers : connected[b] \in {"watching", "closed"}}
    /\ UNCHANGED <<connected, childVars, color>>

\* The watch's callback reads the directory as it is now.  A connection that
\* is closed does not send.
WatchReports(b) ==
    /\ Idle /\ b \in due
    /\ due' = due \ {b}
    /\ color' = IF b \in Seen THEN [color EXCEPT ![b] = BtnColor(mail)] ELSE color
    /\ UNCHANGED <<connected, childVars, mail>>

-----------------------------------------------------------------------------
(* Children.                                                               *)

\* exec_command and spawn_command push the child on the connection's list.
Button(b) ==
    /\ Idle /\ connected[b] = "watching"
    /\ Len(children) < MaxChildren
    /\ children' = Append(children, [by |-> b, running |-> TRUE, signalled |-> FALSE])
    /\ chillens' = [chillens EXCEPT ![b] = Append(@, Len(children) + 1)]
    /\ UNCHANGED <<connected, outboxVars>>

\* The program of a spawn button cannot be started: the child's 'error' event
\* has no listener, which ends the server with all its lists, connections and
\* watches.  The children go on.  A server started later meets other pages.
SpawnFails(b) ==
    /\ Idle /\ connected[b] = "watching"
    /\ connected' = [a \in Browsers |-> IF connected[a] = "no" THEN "no" ELSE "gone"]
    /\ chillens' = [a \in Browsers |-> <<>>]
    /\ due' = {}
    /\ UNCHANGED <<children, mail, color>>

\* splice(indexOf(child), 1); indexOf returns -1 for a child that is not
\* listed, and splice then takes the last one out.
Unlist(list, c) ==
    CASE c \in Range(list) -> RemoveAt(list, Min({i \in DOMAIN list : list[i] = c}))
      [] c \notin Range(list) /\ list # <<>> -> Front(list)
      [] OTHER -> list

\* A process ends and its exit event is handled, if its server is still there;
\* until then it is a zombie, which may still be signalled like one that runs.
Exit(c) ==
    /\ Idle /\ children[c].running
    /\ children' = [children EXCEPT ![c].running = FALSE]
    /\ chillens' = [chillens EXCEPT ![children[c].by] = Unlist(@, c)]
    /\ UNCHANGED <<connected, outboxVars>>

\* forEach goes to the next index while splice moves the rest of the list
\* down: every other child, from the first, is signalled and taken out, and the
\* others stay in their order.
Signalled(list) == {list[i] : i \in {j \in DOMAIN list : j % 2 = 1}}

\* The list emptied after the walk.
Kept_Faulty(list) == <<>>

Kept(list) == [i \in 1..(Len(list) \div 2) |-> list[2 * i]]

\* The kill button with children listed; without any it only logs.
KillWorkers(b) ==
    /\ Idle /\ connected[b] = "watching" /\ chillens[b] # <<>>
    /\ children' = [c \in DOMAIN children |->
                      IF c \in Signalled(chillens[b])
                      THEN [children[c] EXCEPT !.signalled = TRUE] ELSE children[c]]
    /\ chillens' = [chillens EXCEPT ![b] = Kept(@)]
    /\ UNCHANGED <<connected, outboxVars>>

PluNext ==
    \/ \E b \in Browsers :
         \/ PageRequest(b) \/ Watch(b) \/ PageClose(b) \/ WatchReports(b)
         \/ Button(b) \/ SpawnFails(b) \/ KillWorkers(b)
    \/ \E n \in 0..MaxMail : OutboxChanges(n)
    \/ \E c \in DOMAIN children : Exit(c)

PluSpec == PluInit /\ [][PluNext]_pluVars

-----------------------------------------------------------------------------
(* Properties.                                                             *)

Own(b) == {c \in DOMAIN children : children[c].by = b}

\* Children that run and that the kill button does not reach.
Unreached(b) ==
    {c \in Own(b) : children[c].running /\ ~children[c].signalled} \ Range(chillens[b])

\* Children that were signalled and have ended.
Ended(b) == {c \in Own(b) : children[c].signalled /\ ~children[c].running}

ListedAlive ==
    \A b \in Browsers :
        /\ IsInjective(chillens[b])
        /\ \A c \in Range(chillens[b]) :
             c \in Own(b) /\ children[c].running /\ ~children[c].signalled

LostByKills ==
    \A b \in Browsers :
        connected[b] # "gone" => Cardinality(Unreached(b)) <= Cardinality(Ended(b))

\* A listed child still runs, is this page's own, was not signalled before and
\* is listed once: process.kill never meets a process that is gone, and throws
\* in the middle of the walk (plu-server.js:86, 119, 358-361).  And a child that
\* runs is out of the kill button's reach only if another one was killed: each
\* that ends after a signal takes at most one off the list (plu-server.js:87),
\* however the pages start, kill and lose children.
ListedRun == ListedAlive /\ LostByKills
=============================================================================
