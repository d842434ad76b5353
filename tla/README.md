# nixtracker in TLA+

Models, model checks and proofs about nixtracker, an APRS tracker: a C daemon
that talks to a radio (or to APRS-IS) and a GPS, and node servers that put its
screens into a browser. Every definition is read from the code under `src/`;
`PROJECT.json` says from which lines ("map"), which runs check what, what was
found, and which hazards the properties are for.

## 1. Inventory

The daemon `aprs` is one thread: `main` (aprs.c) fills an fd_set, calls
`select` with a timeout of one second, runs the handlers of what is ready in a
fixed order (TNC, GPS, telemetry, display, ack timers) and then `beacon`. All
its state is one `struct state`. The node servers are single-threaded too;
concurrency lies between the processes, the kernel (timers, descriptors, the
clock), the radio channel and the user, and in the order of the handlers.

| Component | State | Operations | Interacts with | Hard | Correct when |
|---|---|---|---|---|---|
| Acknowledged messages (aprs-msg.c, aprs.c) | `ackout[8]`, `ack_msgid`, `outstanding_ack_timer_count`, one timerfd per message | `send_message`, `pending_ack_timer`, `handle_aprsMessages` (ack), `handle_ack_timer`, `clear_ack_request` | main's fd_set, the kernel's descriptor numbers, the radio | reuse of slots and descriptor numbers, late acks, restart, failing allocations | timers belong to one waiting slot; resends are due, bounded; a message stops on its own ack or when retries are used up |
| Received messages (aprs-msg.c) | `msghist[8]`, `msghist_idx` | `isnewmessage`, `save_message`, `send_msg_ack`, `webdisplay_message`, `webdisplay_thirdparty` | acks go out before display; display depends on `disp_idx` | repeats, window of eight, failing allocations | a message is shown again only after eight others, what is acked can be read |
| Heard stations (aprs.c) | `last_packet`, `recent[8]`, `recent_idx`, `disp_idx` | `store_packet`, `find_packet`, `merge_packets`, `move_packets`, `update_packets_ui`, `handle_display_showinfo` | display panel and list | ring with holes, two index formulas, ownership of packets | the list of the most recently heard, each once, with its last data |
| Position beacons (aprs.c) | `last_beacon`, `last_beacon_pos`, `last_moving`, `last_status`, `last_gps_data`, `last_time_set`, `max_beacon_check` | `should_beacon`, `beacon`, `send_beacon`, `set_time`, BEACONNOW | GPS, clock of the machine, radio | a clock that jumps, two sends with one result, state given up before a send succeeds | never more often than every ten seconds, never silent too long, one beacon after a stop, turns reported |
| GPS input (aprs.c, nmea.c) | `gps_buffer`, `gps_idx`, `mypos[4]`, `mypos_idx` | `handle_gps_data`, `parse_gps_nmea_string`, `parse_gga`, `parse_rmc` | beacons, display | sentences split over reads, ring of positions | a sentence is parsed however it arrives; the position is one fix |
| Main loop (aprs.c) | fd_set, loop index | order of the handlers | all of the above | bits of descriptors closed and reused meanwhile | a handler runs only for what is ready |
| Display link (uiclient.c, aprs.c) | `dspfd`, socket file | `_ui_send`, `ui_connect`, `ui_unix_sock_wait`, `ui_get_json_msg`, `handle_display` | tracker-server.js | reconnecting, several commands in a read | commands are acted on in order, values arrive whole; the daemon finds a server that starts |
| Tracker web server | `history`, `trkClients`, `jchunk`, emitter listeners | `send_aprs_display`, ws request/message/close, net data/close | daemon, browsers | stream framing, stale listeners, unlink against listen | objects are delivered whole, once, in order |
| Spy web server | `spyClients`, history ring | ws request/close, net data | aprs-ax25, browsers | indexes that go stale, stream framing | the history is the latest messages; a leaving page removes itself |
| Plugin web server | `chillens`, the outbox and its watch | spawn, exit, killWorkers, close | child processes, mail programs | splice while iterating, exit after kill, a change between reading and watching | what is listed runs; children are lost by kills only; the button shows the outbox |
| Configuration web server | none between requests | request, answer | browser | - | - |
| Station and weather panel (aprs.c) | `last_callsign`, `disp_idx`, `last_wx` | `display_packet` and what it calls, `update_packets_ui`, `display_wx` | heard packets, clock | fields sent one at a time; a rule of five alternatives | the fields are of the station named; other stations' weather comes first |
| Digipeater, signal bars (aprs.c) | `digi_quality` | `should_digi_packet`, `digi_packet`, `update_mybeacon_status` | own packets heard back, other trackers | nothing is remembered of what was relayed; text is edited in place | no station relays a beacon twice, the body survives; bars count the last seven beacons |
| AX.25 and spy capture (aprs-ax25.c) | sockets, packet counter | `aprsax25_connect`, `packet_qualify`, `handle_ax25_pkt`, `live_packets` | kernel, spy server | restart beside a server that goes on | numbers increase in what is shown |
| Dumps (ax25dump.c, ipdump.c, crc.c) | b2f transfer state | `ax25_decode`, dumps | spy | two widths of control field, flags in spare bits | decoding undoes the encoding |
| Configuration, helpers (conf.c, util.c, serial.c), GTK display, pages, scripts | read once or none | - | - | - | - |

The libraries (libfap, iniparser, json-c, gpsd), the kernel and node are
outside; what the code relies on (a timerfd expires, the lowest free
descriptor is handed out, `select` clears bits that are not ready) is modelled
where it is used and marked external.

## 2. Modules

| Module | Models | EXTENDS / composes |
|---|---|---|
| `AckRetry` | acknowledged messages inside the select loop | |
| `AckRetryProofs` | theorems about it | `AckRetry` |
| `HeardList` | abstract: what the list of heard stations promises | |
| `PacketStore` | the ring that implements it | `INSTANCE HeardList` |
| `PacketStoreProofs` | theorems, the refinement included | `PacketStore` |
| `Beacon` | when positions are sent | |
| `BeaconProofs` | theorems about it | `Beacon` |
| `MsgWindow` | abstract: what the message panel promises | |
| `MsgReceive` | the history of messages, acks sent, what is shown | `INSTANCE MsgWindow` |
| `MsgReceiveProofs` | theorems, the refinement included | `MsgReceive` |
| `JsonStream` | JSON objects on a stream that reads cut anywhere | |
| `DisplaySocket` | the Unix socket between a daemon and its web server: unlink, wait, connect, listen, kills | `JsonStream` |
| `DisplaySocketProofs` | what holds of the socket and of cutting a stream, whoever uses them | `DisplaySocket` |
| `UiLink` | tracker daemon, tracker-server.js and the pages | `DisplaySocket` |
| `UiLinkProofs` | theorems about it | `UiLink`, `DisplaySocketProofs` |
| `SpyFeed` | the capture program aprs-ax25, spy-server.js and its pages | `DisplaySocket` |
| `PluServer` | plu-server.js: children, kill, outbox | |
| `GpsFeed` | reads, sentences and the ring of positions | |
| `InfoPanel` | station panel and weather panel | |
| `Digi` | several trackers on a channel: digipeating, signal bars | |
| `Ax25Decode` | the AX.25 header decoder against the encoding | |
| `RadioProofs` | theorems about what goes over the air | `Digi`, `Ax25Decode` |
| `SeparateParts` | the six modules that share no state, one at a time | `SpyFeed`, `PluServer`, `GpsFeed`, `InfoPanel`, `Digi`, `Ax25Decode` |
| `SeparatePartsProofs` | theorems about the other four and about all together | `SeparateParts`, `RadioProofs`, `DisplaySocketProofs` |
| `MC...` | constants for TLC | |

`X_Faulty` is a plausible wrong version of `X`, with a bug the code could have
had. No specification uses it; replacing `X` by it makes the property that
`PROJECT.json` names under "mutants" fail.

### AckRetry

| Model | Code |
|---|---|
| `ackout` | `state.ackout`; the text is not kept, it is non-NULL exactly while `needs_ack` |
| `fdtab`, `fds` | descriptors by number and the fd_set after select, timers only |
| `pc`, `i` | where main is: select, TNC, display, timers with its slot index; `dead` after a fault |
| `Select` | main up to select's return |
| `RecvAck`, `NoAck` | `handle_incoming_packet` down to `handle_aprsMessages` |
| `SendMessage`, `SetConfig` | `handle_display` on "message" with acks on, on "setconfig" |
| `SkipTimers`, `PassSlot`, `Resend`, `GiveUp` | the loop over the slots and `handle_ack_timer` |
| `Expire`, `Restart` | the kernel; the process dies or is stopped and started again |

Descriptor numbers are real data here: `close` and `timerfd_create` reuse them
between the moment select returns and the moment main looks at the bits. A slot
whose timer could not be created keeps the fields of its last user, and
`clear_ack_request` on it dereferences NULL or freed memory: both outcomes
(death, or it goes unnoticed) are in the model. The file descriptors of the
sockets are open from the start and stand outside `Fds`, except 0.

### HeardList and PacketStore

`HeardList` has no ring: a list with the most recent station on top.
`PacketStore` has `recent`, `recent_idx` and the code's loops as functions of
the ring: `MovePackets` (close the hole towards the end of the ring), `Push`,
`LabelCell` (which cell `update_packets_ui` writes to label `AL_k`), `ShowCell`
(which cell `STATIONINFO k` picks). `Rehear`, `HearStored` and `HearFirst` are
the three ways through `store_packet`, each with the display that follows.
The refinement maps the lines in the order of their labels to the list. A
packet has a name and a position that stands for all the fields
`merge_packets` carries over. `since` is history, who was heard since a name was
heard last: `MostRecentListed` compares the lines with it. The packets themselves are freed in the code; the
one leak (an own packet that is not pushed is dropped) is not a state here.

### Beacon

`now` is the machine's clock, `real` the time that passed; `set_time` makes
them differ. One iteration is `Wait`, the GPS, the display and `beacon`. `Req`
is the chain of `goto out` in `should_beacon` in its order; `JudgePosition` is
what that chain writes on its way (`qual` on NODATA, `course` on NOLOCK,
`last_moving` on STOPPED). Speeds are compared in hundredths of a mile per hour
with 1.15 for 1.15077945. `digi_quality` and what is sent to the display are
left out: they feed the signal bars only. `GpsData` leaves open which fields of
the position a read changes, so it covers GGA, RMC, rejected sentences and the
advance to another of the kept positions; with a fake GPS the handler runs
after the display instead of before, which is not modelled. Five variables are
history: when a position was last on the air and when the GPS last showed
movement, in real time; `excuse`, what happened since the last beacon that may
upset the timing; `setBack`, by how much the clock was set back since then; and
`steady`, that it was left alone since the station last moved. With them the
properties say exactly when they hold.

### MsgWindow and MsgReceive

| Model | Code |
|---|---|
| `msghist`, `msghist_idx` | the same; an entry is the source, destination and text that `isnewmessage` compares |
| `picked` | `state.disp_idx >= 0` |
| `last`, `kept` | the station of `state.last_packet`, and the message in the packet kept of each station |
| `Hear` | `parse_incoming_packet`: `handle_aprsMessages`, `store_packet`, then `display_packet` if no line is picked |
| `Pick`, `PickEmpty`, `PickLast` | `handle_display_showinfo` for a line with a station, without one, for a negative index |
| `Save`, `SaveFails` | `save_message`, and its three failing allocations |

The list of stations is abstracted to `kept`: a packet heard replaces its
station's, another station may fall off the list, and the own station's packet
is dropped when the next one arrives. `PacketStore` has the list itself; picking
a line shows its packet again, which is how an old message gets to the screen
long after it was heard. `Alike` are the callsigns that the comparison over the
length of mycall (aprs-msg.c:337, 348) takes for this station: suffixes of the
own call, or 10 to 15 for suffix 1. Whether they are meant to share its
messages the code does not say, so nothing is claimed. `age` and `forgot` are history: how
many messages were saved since one was shown, and whose record a failed
allocation has cost, the one just shown and the one it would have replaced.
KEEP_MESSAGES is a power of two, so the mask in the code is a modulus.

`MsgWindow` records the message the panel is given in a step (`offered`), so
that its three outcomes have premises: `Show` and `ShowForgetful` take a message
that is not remembered, `HoldBack` one that is, and `ShowNothing` is for steps in
which no message is given. `MsgReceive` keeps the same as a history variable: it
is what `display_packet` was called with. An `isnewmessage` that takes a message
for a repeat of another one, or a repeat for a new message, does not implement
`MsgWindow`.

### JsonStream, DisplaySocket and UiLink

| Model | Code |
|---|---|
| `daemon`, `dspfd` | in the loop or inside `ui_connect` (waiting for a file, or in its two seconds' sleep); `state.dspfd` as the server life it leads to |
| `path` | the socket file, by the life of the server that bound it |
| `server`, `unlinking` | node has issued `fs.unlink`, listens, or is down; the unlink is carried out by a thread, before or after the bind |
| `toUi`, `jchunk`, `shown` | pieces on the stream, the server's buffer, what it passed on |
| `SendWaits`, `WaitEnds`, `ConnectAndSend`, `UiSend` | `_ui_send` with and without a connection |
| `HandleDisplay`, `HandleHangup` | `handle_display` on data, on the end of the connection |
| `Data` | `sock.on('data')`: `Reassemble` cuts at "}{" |
| `Emit`, `EmitFails` | `msg_emitter.emit`, which writes to the socket of every connection there has been |
| `Request`, `Close`, `SendTo`, `ChatMessage`, `Control` | what the pages do |

An object is two pieces so that a read may end inside it; the objects in
`Braced` have "}{" in a text of their own, where both servers cut them. `Cuts`
are the places where their loops of `search` and `slice` cut a buffer, `Segments`
the parts between them. `RemoveClient` is the page's own splice in the close
handler. A
server life has a number: the file, the connection and the listeners belong to
one. What a command makes the daemon do is in the modules above; here a message
and a getconfig make it send something back. Short writes are left out: the
objects are far shorter than the socket's buffer.

### SpyFeed, PluServer

`SpyFeed` uses `DisplaySocket` for the other daemon, whose `ui_connect` is the
same code in aprs-ax25.c. `Aprsax25Connect` gives what each step that may fail
first makes of the descriptor: when the transmit socket cannot be bound it
returns 1, standard output, and the program goes on with it. The server keeps
no buffer, so `Emissions` passes on parts of objects. `Store` is the
`spy_display` handler for one message, `Stored` for all those of a read, in
order. `latest` is history.

`PluServer` models the lists of children with what `splice(indexOf(child), 1)`
does for a child that is not listed, and `forEach` over an array that is spliced
meanwhile: every other child is signalled. Callbacks do not interleave (`Idle`),
the mail programs do. A program that cannot be spawned raises an 'error' event
nobody listens to, which ends the server (`SpawnFails`): its lists, connections
and watches are gone, its children are not.

### GpsFeed, InfoPanel, Digi, Ax25Decode

`GpsFeed` counts characters in units. What a read adds is parsed from where it
was put, so on a serial line only a sentence that arrived in one read is
understood. With gpsd, which writes whole sentences, the first of a read is
parsed and the others are dropped.

`InfoPanel` keeps for each field of the panel the station whose value it shows.
`Course` and `Comment` collect what the display functions send for the two
fields that are not sent every time. The list of stations is abstracted to
`kept`.

`Digi` puts several trackers on one channel where every transmission may be
heard by any of them, once, at any time. `digi_quality` is the byte as the set
of its bits that are one, so that a shift moves members. Packets are token lists in which the
search for the first colon, the alias and the separators are done as in
`digi_packet`. `echoed` is history. `Ax25Decode` has the decoder in the terms
of the code's masks and shifts and the encoding from the protocol; `AxFrame` is
what a frame may say, and the constant `AxFrames` those that are sent.

`SeparateParts` composes the six: the first step chooses one and the others
stay still. They share no state, so nothing is lost, and one run with one type
invariant covers them. Each has a specification of its own (`SpySpec`,
`PluSpec`, `GpsSpec`, `PanelSpec`, `DigiSpec`, `AxSpec`), which its proofs are
about.

## 3. Runs and what they show

| Run | Result | Bounds and why they are enough |
|---|---|---|
| `ack_retry` | passes | Three slots and four messages: one slot is reused while its first message waits, was acked or given up, and its ack is on the way. Three timer descriptors run out and are reused; number 3 is beyond `WatchLimit`; allocations fail; one retry gives each of "may resend" and "used up". |
| `ack_live` | passes | Two slots, three messages, enough descriptors for every timer, retries 2. |
| `ack_of_reused_number` | violated | The smallest table: number 2 is the first to reach the modulus. |
| `packet_store` | passes | Three lines and five other stations plus the own: the ring overflows, wraps, gets holes at every place and is refilled. Other stations are interchangeable (SYMMETRY; no liveness is checked). |
| `beacon` | passes | Intervals of 2 to 6 seconds and speeds 0 and 30 between the smart points; courses 0, 350 and 100 give a small turn over north and a large one; sends fail or are dropped; five seconds cover a stop, its report, and an early beacon before or after it. |
| `beacon_clock` | passes | Speeds 0, 4 and 80 take the uncompressed, slow and fast branches; the clock may be set by three seconds, one more than it ignores; eight seconds is longer than the longest silence allowed after it was set back. |
| `beacon_gap` | violated | As `beacon`, one course. |
| `msg_receive` | passes | Two messages are remembered of four, so the ring wraps and each falls out of it; ids are found by the parser, as a brace, or not at all; one text has ":ack" in it; the far station sends its own messages and relays every other; every allocation may fail. |
| `ui_link` | passes | Two lives of the server, three objects of which the second holds "}{", two commands, two pages, a history of one message: the daemon is restarted, the server killed and started again while a file, a connection or a command is left over; every cut of the stream happens. |
| `ui_stuck` | violated | As `ui_link`. |
| `gps_serial` | violated | A read brings one or two units; a sentence is one or two and its end, so that some fit into a read and may yet be split. |
| `separate_parts` | passes | Spy: two server lives, three frames, history and list of two, so both are full and overflow. Plugin: three children, so that one of two killed takes the third off the list when it ends; one file. GPS: two positions, three sentences, buffer of two reads. Panel: the own station, a nearer one and one that sends what leaves fields alone, one second with `WxAge` 0. Digi: two trackers, one of which appends its path, three beacons, registers of four bits. AX.25: every kind of frame with the least, the greatest and one other number and up to two digipeaters. Pages and connections are interchangeable (SYMMETRY). |

What the four violations are:

1. `handle_aprsMessages` compares the number kept in the slot with the slot's
   index (aprs-msg.c:364). The two agree for the numbers 1 to 7 only: from the
   eighth message on no ack is ever accepted, and every message is sent five
   times. `EarlyAckStops`, checked and proved, says that for the early numbers
   all is well; `AckStops`, the comment's claim, fails.
2. `beacon` lets the status packet overwrite the result of the position packet
   before it (aprs.c:2275). A status that fails makes the next second send the
   position again, against "NEVER more often than every 10 seconds!"
   (aprs.c:2131). `MinGapKept` says what does hold: the gap is kept unless the
   user asked, the clock was set, or a status packet failed.
3. `ui_unix_sock_wait` removes the socket file first and then waits for one
   (uiclient.c:54, 62). If the node server is already running, because the
   daemon alone was restarted or lost its connection, nobody creates another
   file: the daemon stands in its sleep loop. `ServerFound` says what does
   hold: a server that comes up while the daemon waits is found, provided its
   own unlink came before its bind. That removal is also what keeps a server
   life to one connection (`OneConnectionPerLife`), on which its listeners,
   which are never removed, rely.
4. A serial read brings at most 32 bytes, the parser begins where the last read
   was put (aprs.c:1232, 1497): a sentence whose end comes in a later read than
   its beginning is not understood, though the notes offer the serial port for
   NMEA devices (notes.txt:25). The run finds a short sentence that arrives in
   two reads; an RMC or GGA with a fix is longer than 32 bytes, so that it always
   does.

`AckedIsShown` is limited to the time when no line is picked. While the user
looks at another station the code acks messages that it neither shows nor
remembers, until their packet is picked or falls off the list.

Fairness is assumed in two places. In `ack_live`: weak fairness of main's loop,
because select has a timeout of one second, and of each timer's expiry, because
the kernel delivers it. The first needs the display link to be up, see 3. above.
The run has no failing allocation and no descriptor beyond 100: with those a
message may wait for ever in the code, and nothing else is claimed. In
`UiLink`: weak fairness of a daemon inside `ui_connect`, for its process runs
nothing else meanwhile and both its sleeps end. That a program is started, or
that anyone does anything, is not assumed.

Some properties name a limit of the code in their premise; what lies beyond it
is in the model and can be seen there:

* `PositionOfItsTurn`: after an RMC the place in the current position is from
  KEEP_POSITS turns ago until the next GGA.
* `FieldsOfShown`: a message or third-party packet clears no field, and the next
  packet of its station does not either.
* `BarsCountHeard`: a copy of an earlier beacon counts for the last one.

Others are in the model and no property is about them: a spy page that closes
out of order takes another off the list; the plugin server's kill signals every
other child (that each child killed takes at most one other off the list when it
ends is in `ListedRun`); an outbox that changes between its first reading and the watch is not
shown; an alias that is the whole path of a packet loses the colon behind it.

`Beacon` has no liveness property: "is never silent for long" is stated as the
invariant `SilenceBounded` over real time, which is stronger than "eventually".

## 4. Proofs

Every invariant and action property of the passing runs, and both refinements,
are theorems: they hold for every value of the constants under the modules'
named assumptions. `PROJECT.json` lists them. The assumptions, which TLC
evaluates in the runs:

| Assumption | Says |
|---|---|
| `AckRetryAssumption` | at least one slot; bounds are numbers |
| `PacketStoreAssumption`, `MsgReceiveAssumption` | at least one line, at least one message remembered; the NULLs are not packets; messages are made of calls and texts |
| `BeaconAssumption` | the low point lies below the high one, rates are positive, the clock starts more than `MinGap` after the epoch |
| `LivesAssumption`, `UiLinkAssumption`, `SpyAssumption` | bounds are numbers, histories hold at least one message, "no callsign" is none |
| `PluAssumption` | bounds are numbers |
| `GpsAssumption` | at least one position is kept, a read brings something and fits the buffer |
| `InfoPanelAssumption` | the own station stands still, NULL is no station; a packet is of a station, bounds are numbers |
| `DigiAssumption` | no station's own call begins with the alias; a path has elements; the register has bits |
| `AxAssumption` | frames are as the protocol has them: digipeaters repeat in turn, numbers fit their field, the code of a frame has its two low bits as its type requires |

The arguments:

* **AckRetry.** `TimersOwned` needs no help once typed: descriptors enter a
  slot only fresh from the free ones. `CountCoversWaiting` is about a set's
  cardinality: taking a slot adds at most one (`WaitingGrows`), clearing one
  removes exactly one (`WaitingShrinks`), because `clear_ack_request` is only
  reached for a waiting slot. `TransmissionsBounded` is not inductive: it needs
  `SentCounts` (a waiting number was sent at most once more than its slot's
  retry count) and `SlotNumbers` (a slot holds the latest number that maps to
  it, so a resend never touches a number whose slot was reused and reset).
  `EarlyAckStops` needs `SlotNumbers` too: the slot of k < N either still holds
  k, then the comparison with the index succeeds, or a greater number for ever.
  `IInv` joins them; `ResendsAreDue` and `OnlyOwnAckSettles` follow from `IInv`
  step by step.
* **PacketStore.** The modulus is removed first (`CellOfLine`: the cell of line
  k is `recent_idx - k`, plus K if negative). `MovedRing` and `PushedRing` say
  what one shift and one push do to names and positions; `MoveImplements` and
  `PushImplements` what they do to the lines. `Invariance` gives `StoredOnce`
  and `PositionsKept`; `RingImplementsList` is the refinement: every step is a
  step of `HeardList` or leaves its variables alone. `MostRecentListed` is then
  proved about the list: its steps are those the ring was just shown to take.
  It is inductive with `SinceOK` (the station in `last_packet` was heard since
  everybody else); `EnlistKeeps` is the step that puts a station on top, and
  `OrderedWithout` takes one out of the middle.
* **Beacon.** `MinGapKept` rests on `StampCovers`: without an excuse the stamp
  `last_beacon` is at least as recent, measured on the clock, as the last
  position on the air is in real time. `SilenceBounded` needs the converse
  (`StampBounds`: the position is not older than the stamp by more than what the
  clock was set back) and what was true when `should_beacon` was last asked
  (`SilenceSinceCheck`), because a check may be put off while
  `max_beacon_check` lies in the future (`BackByClock`). `ReqBetween`: whatever
  branch is taken, the interval waited for is one of the configured ones or
  between them, for which the division needs its bounds (`FractionBetween`).
  `StopReported` needs that `last_moving` is the true time of the last movement
  or 0, and then the report has gone out or could not (`MovementStamp`), and
  that a stop not yet reported was not due at the last check
  (`StopSinceCheck`). `EarlyHasCause` follows from the cases of
  `should_beacon` (`NowForAReason`) and from `TurnIsSmallerAngle`: the code's
  case distinction over north is the smaller of the two angles.
* **MsgReceive.** Without its modulus the window is `SlotAt`: the message of age
  a stands a + 1 slots before the index. `SaveShifts` and
  `FailureDisturbsOldest` say what the two ways to save do to the window.
  `RepeatsAreOld` needs the inductive `Fresh` (a message shown less than K
  messages ago stands at exactly that place, unless its record was lost),
  `AckedIsShown` its converse `Recorded` (what is remembered was shown that
  recently). That a message is new if and only if it stands nowhere in the window
  (`NewByWindow`) gives `Show` and `HoldBack` their premises. `StepOK` collects
  what each action preserves, and the theorems read it off.
* **DisplaySocket.** `LinkInv`: when this life has accepted a connection and the
  daemon looks for a file, the file is not of this life; a life that has not
  bound yet has accepted none and the file is older. `SocketKeeps` proves it of
  every operation of the socket, so that the tracker's daemon and the capture
  program share it. `SegmentsOf` says what the servers' cutting does to a
  buffer: the parts lie end to end, every part but the last ends at a joint and
  no part has a joint inside. `Together` puts parts that lie end to end
  together again, `PartShape` says what a part of a text of whole objects can
  be.
* **UiLink.** `OneConnection` is `LinkInv`. `MessagesAddressed` needs that server
  and page agree on the addressee of every page. `CommandOrder` needs that the
  commands in the socket are newer than all that were executed and in order
  (`CommandInv`), and hence, by `OneConnection`, that nothing is written twice.
  `EveryPageIsTold` needs that the list has exactly the open pages, each once
  (`TellInv`), so that the index a page looks up is its own. `StreamArrives`
  rests on `StreamInv`: all that was written on the connection is one text, and
  what was passed on, kept in `jchunk` and not yet read lies on it in this
  order, each part between two joints; a read (`ReadsOn`) moves the places, a
  write (`Written`) adds to the end.
* **SpyFeed.** `HistoryInv` says of the ring what `StoredIs` says of a read: it
  is the end of all that was passed on, as long as the count or the limit. For
  `CountsIncrease` the pieces in the socket and those in the history are one
  ordered line (`OrderInv`), of one connection only, by `LinkInv`; a part that
  looks like an object is one that was written (`ObjectPlaced`).
* **PluServer.** `ListedAlive` is inductive once typed: what `indexOf` with
  `splice` and the walk over a list that shrinks leave is drawn from the list
  (`Drawn`), without those signalled (`KeptAreOthers`). `LostByKills` compares
  two cardinalities: an exit drops at most one other child (`UnlistDropsOne`),
  and none unless the child that ends was itself unreached or signalled
  (`ExitLoses`); `Outweighed` counts the three cases.
* **GpsFeed.** `TurnsInv`: every position of the ring holds the last sentence of
  each kind in the turns that had it. `ParseTurns` says that an RMC begins the
  next turn and `NextRemainder` that this is the next place of the ring; the
  sentences of older turns at the same place stay (`SameRemainder`).
* **InfoPanel.** `DistanceIsOfShown` needs that with no line picked the panel
  shows `last_packet`; `FieldsAreOfShown` that the station shown is the one in
  `last_callsign`, so that `isnew` tells a new one; `OthersWeatherFirst` that the
  retained weather, when another's, is the last of another that was displayed.
* **Digi.** `RelayedAtMostOnce`: a copy begins with the call of its maker, which
  is not like the alias, so only originals are relayed; there is one original of
  each beacon; and who made a copy has caught the original, which is heard
  once. `CopiesInv` says so, `RelayKeeps` is the step that matters. `BarsInv`:
  bit b of the register is set when the beacon b before the last was heard
  again; a shift moves the bits as `Append` moves the beacons (`ShiftedIsHeard`).
* **Ax25Decode.** The encoding adds, the decoder divides: `HasBit` and
  `CellSays` read the number and the four flags of an SSID byte, `NumbersOf8`,
  `NumberOf128`, `SupervisoryCode` and `UnnumberedCode` the control bytes.
  `DigisAre` says that the extension bit is found at the last cell and not
  before, `RepeatedIs` how far the frame has come. `DecodeUndoesEncoding` holds
  for any number of digipeaters, calls and any rest.
* **SeparateParts.** `PartsBehave`: a behaviour of the composition is one of each
  part, for in every step a part takes a step of its own or none.
  `PartsKeepPromises` carries all ten invariants over to it.

The provers cannot use an induction theorem whose hypothesis is an operator.
What is proved about recursive functions (`Cuts`, `Stored`) therefore goes
through `LeastNat` and `NatSteps`, in `DisplaySocketProofs`: induction on the
numbers stated with a set in place of a predicate, from `WFMin`.

Model-checked only: `PendingSettles` and `ServerFound`, which are liveness, and
the four claims that do not hold.

## 5. Not modelled

Listed with reasons in `PROJECT.json` (status `not_modelled` or `partly`).
Formatting of packets, distances and screens is left out throughout; so are
the libraries' parsers. The daemon's start-up and its ini file are taken as
done: conf.c reads values once and keeps no state. cfg-server.js answers from a
file. aprs-is.c connects and logs in once. What ax25dump.c, ipdump.c and crc.c
print is wording; the frame collector for b2f transfers in ax25dump.c, which
has state of its own, is not modelled. ui.c is the older GTK display, a client
like the pages. Telemetry input and playing back recorded packets are left out.

With gpsd the time of a fix is never assigned (aprs.c:1323-1402), so setting
the clock would set it to 1970; `Beacon` leaves the value set_time writes open
and no property is about it.

## 6. Plan

1. The b2f frame collector of ax25dump.c: partial and repeated transfers.
2. One loop over the components of the daemon, so that a wait in `ui_connect`
   delays timers and beacons in the model too.
3. `HeardList` and `MsgWindow`: what follows from them alone.
4. `parse_list` and the substitution of keys in conf.c as pure functions.
