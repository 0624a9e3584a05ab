# Verification of mdrv-ds

mdrv-ds is a DualSense proxy for Linux: it talks to the real pad (over a
Bluetooth L2CAP session of its own, or hidraw on a cable), shows the games a
virtual pad made with `/dev/uhid`, and streams audio and haptics to the pad.
This directory holds TLA+ modules of its concurrent core, the TLC
configurations that check them, and proofs checked by TLAPS.  Paths below are
relative to the repository; `proxy.rs` and the like are under `src/`.

`PROJECT.json` is the index: components, runs, the lines of code every
definition models (`map`), the mutants each property must catch, the places
where code and comments disagree (`findings`), the hazards, and the theorems.

## The system

    pad --L2CAP / hidraw--> proxy (relay_loop) --unix socket--> holder --uhid--> kernel --> games
     ^                        |   |   ^   |
     |                        |   |   |   +--unix socket--> second holder (XInput pad)
     |                        |   |   +------ bridge threads <--unix socket--> overlays
     +---- sink writer <------+   +---------- gate thread (focus file)
              ^  outputs, attach / detach
              +---- PipeWire capture

| Part | State it keeps | Operations | Interacts by |
| --- | --- | --- | --- |
| Holder (`holder.rs`, `uhid.rs`) | descriptor, create key, neutral report, `started`, the one client | accept / refuse, CREATE, NEUTRAL, INPUT, replies, DESTROY, end of stream, kernel events | socket frames, uhid events |
| Framing (`ipc.rs`) | none | send, recv, connect, start the daemon on demand | blocking unix sockets |
| Session loop (`proxy.rs` `run`) | exit flag, chord engine, PS mode, sink, masks over the real nodes | find or accept a pad, connect to the holder, hide nodes, attach, relay, tear down | everything |
| Relay loop (`relay_loop`) | hold-backs, pacing, jack debounce, feature cache, XInput tap | input reports, holder frames, control channel, SIGHUP, XInput frames | pad, holders, bridge, sink, gate |
| Chord engine (`ChordState`) | edges, latches, swallowed bits, the PS press | feed, strip | inside the relay loop; runs shell commands |
| Bridge (`audiobridge.rs`) | client list, edge state, `PAUSED` | accept, negotiate, reader threads, feed | mutex, an atomic, sockets |
| Sink (`sink.rs`) | attached link and its generation, output queue, tracked and last state, sequence, streaming state | attach, detach, enqueue, rumble, writer turn, PipeWire callbacks, forwarding | mutexes, atomics, the pad's interrupt channel |
| L2CAP (`l2cap.rs`) | session: control, interrupt, feature cache | accept, handshake, fetch a feature | sockets |
| XInput (`xinput.rs`, `XiRelay`) | second holder's socket | raise, lower, park, translate, rumble | second holder |
| Mouse holder (`mouse.rs`) | pid file, evdev grabs | on, off, toggle | signals, a file |
| Rest | | `config.rs` (TOML, chord names), `hid.rs` (sysfs, ioctls), `audio.rs` (report bytes), `main.rs` (commands, override files), units and scripts, `ds5-haptics-patch` | |

What makes it hard, and what each part owes:

- **Holder.**  Its peers come and go at any point: the proxy can be killed
  between two frames, the kernel can bind and unbind drivers, and the daemon
  itself is restarted.  One turn acts on one poll snapshot.  It owes: a record
  of the device that agrees with the kernel, "reused" only for a device it has
  not been told the loss of, a pad that survives the proxy and is left at rest, replies that reach their
  request.
- **Socket.**  Both ends block in reads and writes.  They should not wait for
  each other, and must not wait for a frame that nobody sends.
- **Relay loop.**  Five filters with memory act on each report while other
  threads move their flags, SIGHUP replaces half of their state, and the link
  can be lost between any two reports.  It owes: chords are invisible to games
  and fire once, the press that closes an overlay is invisible, releases are
  never lost, the XInput pad never sticks.
- **Bridge.**  Three threads change one list; clients stall, close and
  reconnect; clients are named by descriptor numbers, and may have no thread that
  reads them.  It owes: the game is paused exactly while an overlay holds it.
- **Session loop.**  Three ways to find a pad, a holder that may be down, busy
  or unable, nodes hidden one by one by a helper that can be refused, sinks that
  are kept or stopped depending on the transport, a signal or a kill at any
  step.  It owes: no node stays masked, one audio node, relays that lead to the
  sink with the session's pad, an end after a signal, a cable that is noticed.
- **Control channel.**  Answers are late, refusals name no report, and the same
  channel carries the handshake, fetches and forwarded SETs.  It owes: the right
  kind of pad, replies to what was asked, no refusal of what the pad has, an
  answer to every request.
- **Writer.**  It outlives pad sessions, so links are swapped under it; outputs
  arrive faster than it runs; the same state reaches the pad by two ways.  It
  owes: one unbroken counter per link, the newest output shown, no report
  withheld as a duplicate that the pad does not show, every link served.

## The modules

| Module | Models | Proofs |
| --- | --- | --- |
| `Holder` | holder daemon, kernel device, socket, the proxy's end of the link | `HolderProofs`, `PadProofs` |
| `Pad` | what the holder promises to the games; `Holder` implements it | `PadProofs` |
| `Duplex` | the two loops at the ends of the socket and what their writes wait for | `DuplexProofs` |
| `Session` | `run()`: pads, holder, hidden nodes, sinks, signals, kills | `SessionProofs` |
| `Features` | the handshake, the feature cache, the kernel's report requests | `FeaturesProofs` |
| `Bridge` | bridge threads, overlays, the feed from the relay loop | `BridgeProofs` |
| `Writer` | sink writer, attach and detach, output queue, pad | `WriterProofs` |
| `Relay` | what becomes of a report: chords, PS filter, pause, gate, pacing, XInput, reload, session end | `RelayProofs` |

`Holder` composes the daemon with the kernel and the proxy's end; `Session`
composes `run()` with the holder's answers, the sinks' threads and the pad;
`Writer` and `Bridge` compose threads with their peers.  `Pad` is instantiated
by `Holder` (`Promised`) with the mapping `up`: the daemon runs, `pad`: the shape of the live device,
`nodes`: bound, `shown`: the input games read, `served`: there is a client.

### Holder

`h` is `struct Holder` (`key` is the create payload, abstracted to the shape it
announces), `client` the connection `run` serves, `ready` what the last poll
found and the turn has yet to handle: `Poll` fills it, and the listener, the
client and the descriptor are handled in the order of the code.  `Create*`,
`FrameDestroy`, `FrameInput`, `FrameNeutral`, `FrameReply` are the arms of
`Holder::frame`; `Event*` those of `uhid_event`; `ClientGone` is
`client_gone`.  `HolderStops` stands for a signal and for a crash: either way
the kernel takes the device and the sockets.

`k` and `events` are the kernel: the device behind the descriptor, the report
games read from it (`input`), the request it waits for, and the unread events.
This half is external and modelled from the events the daemon handles.  A
device that is replaced loses its unread events, a device that is destroyed
gets a STOP if a driver was bound, and `dev` tells two devices in a row apart
(the code cannot).  `binds` counts the drivers that have come to a device, also
one that has been destroyed.

`pc`, `conn`, `want` are the proxy's end: connect, CREATE, wait for the ack
(DS) or not (XInput tap), NEUTRAL, then inputs and replies; it may drop the link
at any point, and reconnect with another shape.

### Pad

Five variables: whether the daemon runs, the virtual pad's shape, whether games hold its nodes, what they
see, and whether a proxy drives it.  Its steps say what the daemon may never do
however its turns and the kernel's events interleave: show input when no proxy
drives the pad, give up a pad that games hold for one of the same shape, or lose
it because a proxy has gone.  When the proxy goes, a pad that can be put at rest
is.  `alien` is input that was meant for the shape before: frames already in the
socket are written to whatever device there is.

### Duplex

Frames are counted.  Every place where either end decides to write, and every
place where it decides to read, is a program counter value.  A write waits until
the frame fits; a read is entered only because a poll promised a frame.  Neither
the requests nor those under way at once are limited: games poll reports as long
as they run, and the kernel, which waits for one at a time, gives up after five
seconds and asks again.  `answered` counts the requests answered since either end
last found its socket empty, up to the smaller socket.

### Session

`pc` walks through `run()`: `top`, `find` (hidraw), `listen`, `wait` and `accept`
(`l2cap::open`; `PollExit` is what it looks at before every wait for the control
channel), `opened` and `await` (the holder), `strip` and
`bind` (hiding), `sink` / `attach` / `join` / `start` (the sink), `relay`, `detach`,
`unhide`, `close`, and `quit` / `last` / `ending` (the ways out).  `code` is what
`relay_loop` returned.  `masks` are the bind mounts, which outlive the process,
`refused` the nodes whose last unbind failed, and `unseen` those that a start
could not even list because `/proc/mounts` could not be read
(`cleanup_stale_mounts` then does nothing).  `holder` is `stale` while the
daemon has yet to read the end of a stream we dropped, and `other` while another
proxy has it.  `handle` is the local
`audio_sink`, `relay` and `mode` are `OUT_RELAY` and `MODE_RELAY`, `running` and
`stopping` the sinks' threads and flags, `attached` whether the sink of
`MODE_RELAY` has a link.  `ProcessEnds` is what the kernel takes back, on an exit
and on a kill; `Killed` is possible at every step.  It is assumed that hiding and
the audio sink are on and that no pad path is given on the command line.

### Features

`open()`'s questions are `todo`, `tries` and `left` (frames to skip before it asks
again); `Goes` is what follows a report that was got or not, up to the choice of
the kind.  The relay loop's turn is cut at its poll (`ready`), the holder's frame
(`sock`, `fetch`) and the control channel (`ctrl`).  `toPad` and `toUs` are the
channel, in order; the pad answers a GET with the report or a refusal and may
acknowledge either half of a SET.  A deadline that passes with an answer on its
way is counted in `late`, so that properties can say what holds when none does.

### Bridge

`clients`, `prev`, `paused` are `BridgeState` and `PAUSED`.  The accept loop
negotiates one connection at a time (`acc`); `readers` are the reader threads,
each with the key it was given and the descriptor of its duplicate, so that
`LowestFd` gives out numbers as the kernel does.  A descriptor may fail to be
duplicated (`Starved`): in the negotiation the connection is dropped (`Drops`,
`audiobridge.rs:138`), afterwards the client joins the list without a reader
(`Registers`, `151` and `177`), which `unwatched` remembers for the properties.
`Feed` is `feed`: who is written to, who fails, the removal under the lock.  What
the relay loop does with a report while `PAUSED` is set is in `Relay`.

### Writer

`intr`, `gen`, `jack`, `out_q` are `Shared`, `JACK_PLUGGED` and the queue.
`AttachLink` and `AttachGeneration` are the two writes of `attach_pad`, and
`ReadGeneration` and `TakeLink` / `FindNoLink` the two reads of the writer, so
that all four interleave.  The inner loop is cut where it reads shared state or
writes to the pad.  A state is the output it came from and the audio path merged
into it.  `pad` is the receiving end: the link, the last counter, and the
state shown.  Resampling, Opus, and the bytes of the reports are not modelled; an
encoder that fails (which drops a window) is left out.

### Relay

One action per outcome of a report: `ReportPaused`, `ReportHeldBack`,
`ReportPaced`, `ReportForwarded`; every one of them runs the chord engine first
(`Receive`), as the code does.  A pad has PS, buttons and one trigger with four
levels, cut at the two thresholds.  `Keys` have a chord, `Plain` have none.
Time is counted in reports: `Pace` per pace window, `Hold` until a solo press
is a hold.  `SessionEnds` keeps what belongs to `run()`, the chord engine and
the PS mode, and resets what belongs to `relay_loop`.  `past` is a history
variable: nothing in the model reads it but the properties.

## Runs

Passing runs:

| Run | Bounds | Why they are enough |
| --- | --- | --- |
| `holder_ds` | 2 shapes (one with a neutral report), GET and SET, 2 connections, 1 bind and 1 request per device, 2 unread events, 2 frames each way, creating may fail; 974048 states | a shape change, a reconnect while the old connection is still served, a request in flight across a new device and frames left behind by a dead proxy all occur |
| `holder_xi` | 1 shape, no waiting for the ack, live disable, creating may fail; 335690 states | the XInput holder; liveness |
| `duplex` | 5 and 6 frames; 4197 states | both sockets fill up, and the standoff is reached with four answers, which is exactly what the property says it takes; nobody moves after it, so deadlock is not checked |
| `session` | 2 nodes, one of them the hidraw node; both settings of `l2cap`; the holder fails, refuses, or is another proxy's, kills and refused helper calls as often as they like; 63128 states | a run that starts over masks of a killed one, a refused reconnect, a sink that is being joined while another session starts, half-hidden pads all occur; nothing is counted |
| `features` | any of 3 pads; skip 1, ask twice, read 8; requests for one cached and one uncached report, 2 waiting, 3 frames under way; 2 missed deadlines; 488098 states | answers to an earlier question reach each later stage, SETs pile up acknowledgements in front of a fetch |
| `bridge` | 2 overlays, one may stall, either may get no reader, 2 mode lines each; 374708 states | a descriptor number is reused after a drop, and the last client leaves in every way |
| `writer` | 2 outputs, 2 links, queue of 1, counter modulo 3, idle after 1 window of silence | the queue overflows, the counter wraps, links overlap; the pad makes no third link, so the writer may wait for ever (deadlock is not checked) |
| `relay` | 1 plain button, a chorded trigger, window of 2, hold of 1, reloads and lost sessions | every filter is entered and left in every order, with PS down and up |

What each shows is in its `about`.  The properties:

- `holder_ds`: `StartedTracksDriver` (the record of the driver agrees with the
  kernel once the unread events are read), `ReuseIsLive` ("reused" is said of the
  device of the shape asked for, and once a driver has been bound to it of a
  device that is there or whose STOP has yet to be read), `ImplementsPad` (it is a
  `Pad`), `ReplyReachesItsAsker`, `BoundPadSurvives`.
- `holder_xi`: the liveness properties `EventuallyParked` and
  `EventuallyStarted`.
- `duplex`: `StandoffTakesAnswers` (the two ends wait for each other only if all
  but one as many requests as the smaller socket holds frames were answered while
  neither end found its socket empty), `ReadsFindFrames`.
- `session`: `NoMaskLeft`, `OneNode`, `SinkServesSession`, and the liveness
  properties `Stops` (a signal ends the process, if the holder settles or the pad
  is not on hidraw for ever) and `UsbTakesOver` (a cable is served, if the holder
  settles).
- `features`: `KindIsRight`, `ReplyMatches`, `RefusalIsDue`, and the liveness
  property `Answered`.
- `bridge`: `PausedIsHeld`, `ClientsAreWatched` (and numbers are unique),
  `EdgesAlternate`, and the liveness properties `Resumes` (when the overlays are
  gone the game goes on, unless one that held it had no reader) and `LetGo`
  (it does so even then, if the pad's buttons go on being used).
- `writer`: `NewestKept`, `SeqAdvances`, `SkipIsSafe`, and the liveness
  property `Serves`.
- `relay`: `XiParked`, `Settled`, `ChordHidden`, `ChordNeedsRelease`,
  `PsIsSolo`, `UnboundClosingHidden`.

Runs that TLC refutes, each a statement of a comment in the code:

| Run | The comment | What happens |
| --- | --- | --- |
| `bridge_hold` | while any hold client is connected the game is paused (`audiobridge.rs:7`) | the reader of a dropped client removes the newer client with its descriptor number; an overlay that never stalls will do (`Stallers = {}`): one that has closed, if the write to it fails before its reader sees the end |
| `writer_silence` | an absorbed output rides the next audio report (`sink.rs:1336`, `1660`) | the stream idles in silence and there is no next report |
| `relay_closing` | the closing press never reaches the game (`proxy.rs:1295`) | the hold-back does not see a button the chord engine stripped; it surfaces when PS is let go |
| `session_rumble` | a USB session has no sink, so the caller writes hidraw itself (`sink.rs`, `rumble`) | after two L2CAP sessions the handle is a stub that stops nothing; a USB session's XInput rumble goes to the queue of a sink without a pad |

Further configurations, each of which TLC refutes in the same way and which are
kept for reference, most of them against a comment:

| Configuration | The comment | What happens |
| --- | --- | --- |
| `HolderFrozen.cfg` (`NeverFrozen`) | input cannot freeze at last-pressed values (`holder.rs:10-12`, `proxy.rs:2126-2129`) | a pad of the Bluetooth shape has no neutral report (`proxy.rs:592`) and keeps its pressed buttons |
| `RelayTrigger.cfg` (`ChordUnseen`) | the game does not see the chord at all (`proxy.rs:159-162`, `228`) | `strip` zeroes a trigger's level (`proxy.rs:342`), its button bit is forwarded |
| `RelayHold.cfg` (`HoldIsLong`) | PS must be held solo for three seconds (`proxy.rs:191`) | `ps_held` (`proxy.rs:304`) survives a lost link, and the next press is a hold at once |
| `SessionLink.cfg` (`LinkSurvivesHolder`) | when the holder is lost the pad's link stays up (`proxy.rs:985`, `1013`) | `continue` drops the session and with it the L2CAP channels |
| `SessionDeaf.cfg` (`StopsAnyway`) | (no comment) a signal ends the process | with a pad on hidraw, a holder that is down, refuses or is busy sends `run()` back to its top for ever (`proxy.rs:755-762`, `810-823`) and nothing on that way looks at `EXIT` |
| `BridgeLines.cfg` (`HoldPauses`) | resume happens when the last hold client goes or switches (`audiobridge.rs:10`) | two mode lines that arrive within the window: the second is in the buffer that is thrown away (`audiobridge.rs:140-148`) |
| `HolderCorpse.cfg` (`ReuseIsAlive`) | the next CREATE rebuilds instead of answering "reused" into a corpse (`holder.rs:170`) | a re-create that fails after the old device was destroyed keeps its key (`holder.rs:62-98`); a device no driver was bound to sends no STOP, and is reused dead until a CREATE of another shape succeeds |

Bounds that were needed, and what lies beyond them:

- `MaxBinds = 1` in the holder runs.  With two binds of one device (a driver
  unbound by hand and bound again) STOP does not mean that the device is gone,
  as `holder.rs:170` has it: the key is forgotten, the next CREATE replaces a
  live pad, and `BoundPadSurvives` and `ImplementsPad` fail.
- `Reads = 8` in `features` as in the code.  With 4, the acknowledgements of
  forwarded SETs can use up a fetch's reads and `RefusalIsDue` fails; with 8 it
  takes more SETs in front of one GET than `ReqCap` and `Cap` allow.  The theorem
  `RefusalsAreDue` says how many: it assumes `Cap + 2 * ReqCap <= Reads + 1`.
- `Waits = TRUE` for `ReplyReachesItsAsker`.  The XInput tap answers requests
  before its CREATE is read, so that the kernel can take for one device a reply
  made for the device before: harmless, since the tap refuses every GET and
  grants every SET (`proxy.rs:2057-2069`), but the property fails.
- `Audio = FALSE` and two links also refute `NewestShown`: an output that the
  old link was sent is not sent again on a new link until the next output comes
  (`sink.rs:1611-1621` expects change detection to replay it).

### Fairness

Every liveness run assumes only what the scheduler and systemd give the code's
own loops, and nothing of games or overlays; of the pad, only what `Features` says:

- `Holder`: `WF(HolderStep)` (the poll loop runs), `WF(HolderStarts)`
  (`Restart=on-failure` in its unit; a daemon stopped cleanly is restarted on
  demand by `ensure_holder_for`), `WF(DriverBinds)` (the kernel probes a device
  it accepted).  The proxy may stop for ever.
- `Session`: `WF` of `run()`'s own steps and of each writer that has been told to
  stop.  Nothing of the pad, of the holder, of another proxy, of failures
  (`ListenFails`, a refused helper), of signals, or of anybody starting the proxy.
  What the properties need of the holder is their premise: `HolderSettles`, from
  some time on no attempt to reach it fails.
- `Features`: `WF(Proxy)`, `WF(PadAnswers)` (a pad that is up handles its frames),
  and `SF(TurnWithoutReport)`: reports come at most every millisecond or so and
  the loop turns faster, so that again and again a turn finds none.  Without it
  `continue` on held-back reports starves the kernel's requests.
- `Bridge`: `WF` of the accept loop and of each reader thread.  `LetGo` has the
  premise `PadIsUsed`: edges go on coming, or there is nobody to feed.
- `Writer`: `WF(WriterStep)` and `SF(KeepAlive)`: the two-second timer is looked
  at once per idle turn, and has run out again and again though not in every
  turn.  That `flush` ends rests on games writing more slowly than it pops.

## Proofs

| Theorem | States |
| --- | --- |
| `HolderProofs!Typing`, `StartedAgrees`, `ReuseIsTheDevice`, `RepliesFindTheirAsker` | `TypeOK`, `StartedTracksDriver`, `ReuseIsLive`, and (for a proxy that waits for its ack) `ReplyReachesItsAsker` |
| `PadProofs!HolderImplementsPad`, `HolderParks`, `PadSurvives` | `Spec => ImplementsPad` and, through it, that no press is left on a pad nobody drives; `BoundPadSurvives`; a driver binds at most once to a device |
| `DuplexProofs!DuplexTypeOK`, `ReadsFind`, `StandoffIsRare` | `TypeOK`, `ReadsFindFrames`, `StandoffTakesAnswers` |
| `SessionProofs!SessionTypeOK`, `MasksGoWithTheSession`, `OneNodeAtATime`, `TheSinkIsTheSessions` | `TypeOK`, `NoMaskLeft`, `OneNode`, `SinkServesSession` |
| `FeaturesProofs!FeaturesTypeOK`, `RepliesMatch`, `PadIsKnown`, `RefusalsAreDue` | `TypeOK`, `ReplyMatches`, `KindIsRight`, and (if no more is under way than a fetch reads) `RefusalIsDue` |
| `BridgeProofs!BridgeTypeOK`, `PauseFollowsTheList`, `ClientsKeepTheirReaders`, `EveryEdgeIsNews` | `TypeOK`, `PausedIsHeld`, `ClientsAreWatched`, `EdgesAlternate` |
| `WriterProofs!WriterTypeOK`, `NewestIsKept`, `OneCounter`, `SkippedIsShown` | `TypeOK`, `NewestKept`, `SeqAdvances`, `SkipIsSafe` |
| `RelayProofs!Typing`, `Parked`, `ReleasesArrive`, `ChordsHide`, `OncePerPress`, `PsAlone`, `ClosingHides` | `TypeOK`, `XiParked`, `Settled`, `ChordHidden`, `ChordNeedsRelease`, `PsIsSolo`, `UnboundClosingHidden` |

They hold for all values of the constants that satisfy the assumption named in
the module (`HolderAssumption`, `DuplexAssumption`, `SessionAssumption`,
`FeaturesAssumption`, `BridgeAssumption`, `WriterAssumption`,
`RelayAssumption`).  The assumptions say what the constants are (numbers,
Booleans, that `None` is not a shape, that overlays are finitely many, that no
button is in two sets and none is called as a command is); none restricts them.
Five theorems have a hypothesis of their own:

- `HolderImplementsPad`, `HolderParks`, `PadSurvives`:
  `MaxBinds <= 1`; `RepliesFindTheirAsker`: `Waits`.  What happens otherwise is
  said above, under the bounds.
- `RefusalsAreDue`: `Cap + 2 * ReqCap <= Reads + 1`.  Each SET that waits can put
  two frames on the channel, and a fetch that comes after them reads `Reads`
  frames and gives up.  TLC refutes `RefusalIsDue` with `Reads = 4`; the code has
  no limit on what is under way, so this is a bound on how fast the kernel asks
  and not a guarantee of the code.

The inductive invariants:

- **Holder** (`IInv`): `TypeOK`, what the loop knows of its snapshot (`LoopOK`),
  the daemon's record of the device (`DeviceOK`: there is no live device without
  a descriptor, a key that is set is the shape of the device), and
  `StartedTracksDriver`.  The last is inductive once `DeviceOK` rules out events
  without a device: `Tracks` says that STARTs and STOPs alternate in the unread
  events and end in the driver's present state, and lemmas say what appending and
  reading an event does to it.  `KeyOK` says that the key of a device whose driver
  has gone lasts until its STOP is read, and holds through failed creates and any
  number of binds; `ReuseIsLive` follows from it and `DeviceOK`; that no
  other action can look like sending "reused" is the longer half of its proof.
- **Holder's requests** (`ReplyInv`): ids start again on each device, so a reply
  finds its asker only if none outlives the device it is for.  `AskedOK` says that
  what the kernel waits for and what is unread is the present device's.  From
  there a request is in the socket to the proxy, then its reply in the socket
  back, while a CREATE may bring another device.  `AckOK` excludes that: one ack
  comes to a session, after its CREATE has been read, and the session relays only
  once it has taken it; so a session that answers has no CREATE left to be read,
  and requests that were sent before its ack are never answered.  `RequestsOK` and
  `RepliesOK` are then inductive.  They rest on `QueueInv`, the order of frames
  that the refinement needs too.
- **Holder implements Pad** (`PadInv`): the type correctness above is not enough,
  because a step of the daemon maps to a step of `Pad` only if a pressed pad can
  still be put to rest.  That depends on the frames in the sockets: `SessionsOK`
  says in which order a session's frames come, `ConnOK` and `WaitingOK` where the
  frames of the present and of the waiting sessions are; `PressOK` (a press is
  there only with a driver, a client and a neutral report) then needs `ServedOK`
  (input on the way has its NEUTRAL before it, and a session that has not yet
  sent its CREATE has not pressed anything).  `OnceOK` says that a device binds
  once, which makes STOP mean that it is gone.  `HolderParks` is then a theorem
  about `Pad` alone, carried over by the refinement.
- **Duplex** (`IInv`): by counting.  `Load` counts the frames on the wire and the
  writes decided on; each turn of either end reads as much as it writes, the answer
  to a request aside, unless it found its end empty.  So while neither does, the
  load stays within the larger socket plus the requests answered plus two
  (`LoadBounded`), and a standoff fills both sockets and two writes.
- **Session** (`IInv`): `MaskInv` follows the masks through the session: outside
  one they are refused or unseen nodes, inside it they are among `hidden`, while unhiding
  among `todo`.  `SinkInv` says that there is only ever the first sink, that
  `OUT_RELAY` and `MODE_RELAY` name the same one, and that they name it exactly
  while it runs and is not stopping.  It needs `Joins`, as a writer that exits
  clears `OUT_RELAY` whoever it leads to.  `LinkInv` says which sessions may be
  attached.
- **Features** (`IInv`, `NearInv`): `CacheInv` says that the cache has nothing under
  a wrong name, which is all that `ReplyMatches` needs.  `KindIsRight` needs the
  handshake step by step: while no deadline was missed there is one question or
  its answer under way (`QuestionInv`), so that what `open` has yet to ask tells
  what the pad is and what the cache has (`StageInv`).  `RefusalIsDue` needs a
  count: `FlightInv` bounds what is under way by what may be waiting, and
  `FetchInv` says that the answer to a fetch is among the frames it still reads.
- **Bridge** (`IInv`): `QueueInv` and `ReaderInv` say that a connection is in one
  place, `ListInv` where those on the list are, and `FreshInv` that the number of the one being negotiated is not on the
  list; `ClientsAreWatched` then holds when it joins.  `PausedIsHeld` is inductive
  as it stands.  `ToldInv` says that who is on the list was told last what the edge
  detection saw last, which is what makes the next edge news to it.  That a number
  is always free (`FreeFd`) is a pigeonhole argument on finite sets, in
  `TypeOK`'s proof.
- **Writer** (`IInv`): `GenInv` ties the generation to the links, `LinkInv` says
  that a link is given up only once it is dead, `SeqInv` that the counter goes on
  from the last report the pad got on a live link, `LastInv` that the mirror of
  what was sent is what the pad shows.  `SkipIsSafe` needs the last one at the
  moment of the skip.
- **Relay** (`IInv`): that a tap that is down or paused shows rest (`XiInv`), that
  while the pad is calm the pace window runs (`CalmInv`), that the engine's
  swallow covers what fired in this press unless a reload forgot it (`ChordInv`),
  that a button down since a hold-back keeps the hold-back on (`ClosingInv`), that
  the engine remembers which chords of this press have fired as held down
  (`LatchInv`), and that while PS is down for a command nothing else has been
  pressed and none has run (`PressInv`).

Every invariant and action property of the passing runs is stated by a theorem.
Only model-checked is liveness (`EventuallyParked`, `EventuallyStarted`,
`Resumes`, `LetGo`, `Serves`, `Stops`, `UsbTakesOver`, `Answered`): the prover cannot treat
fairness and `ENABLED`.  Induction over data and `RECURSIVE` operators are beyond it
too; no module uses either.  That a formula fails (the runs that expect a violation, the
cases beyond a theorem's hypothesis) is TLC's finding.

## Not modelled

- In `Session`: an explicit pad path, `hide` or the audio sink switched off, the
  test tone, moving the default audio sink, toasts, the touchpad's grab, the
  focus gate's thread of each session.
- In the output and feature half of the relay loop: the hidraw path's feature
  ioctls, translation between USB and BT shapes, CRCs.
- In `Bridge`: an `accept` that fails for want of descriptors, which changes nothing
  and is tried again at once; a read timeout that cannot be set, which skips the
  negotiation as silence does.
- The jack debounce of the relay loop (the writer sees any sequence of plugs).
- The D-pad as a chord button, sticks, the touchpad, the cross/circle swap, and
  running a chord's command (`exec_and_notify`).
- In the DS4 layout the upper bits of the third button byte, which `feed` and
  `buttons_live` read as buttons.  `Ds4 = TRUE` in `Relay` is the place of the
  triggers only; it is covered by the proofs and by no run.
- The sink's PipeWire and forward threads (they keep to themselves until they are
  joined; PipeWire is a library), its link poller for hidraw pads, resampling and
  Opus.
- `audio.rs` and the report descriptors (layout), `hid.rs` (reads of sysfs, ioctls
  with no state of their own), parsing in `config.rs`, `main.rs`, the units and
  scripts, and the patcher.  `mouse.rs` is a separate
  process that shares nothing with the proxy but the touchpad's grab; its races,
  and that of two daemons that start on one socket path (`holder.rs:234`), are
  listed as hazards and left out: each is two steps long, and nothing else in the
  models depends on them.

Seen while reading, and not the subject of a run.  Relay loop: `gate_input`
writes the centre value to the six bytes from the sticks on, so on a DualSense
the triggers of a gated report are half pulled and on a DS4 untouched (2138 says
it neutralizes triggers); a session that is lost while an overlay holds the pad
forgets `pause_break`; a press shorter than a pace window never reaches the games
(1615-1618 says no event is lost); a kernel that asks for reports without a pause
keeps the turn from reaching the control channel's end of file.  Writer: the idle
writer on hidraw does not advance the counter for its volume report; a
permanently failing encoder keeps a streaming writer from noticing that the link
is dead, and one that cannot be made leaves the relays set (`sink.rs:1486`).
Socket: a standoff is possible in principle and nothing resolves it.  The kernel's
limit of one request at a time does not exclude it, since the kernel gives up
after five seconds and asks again; but games ask about four times a second
(`proxy.rs:1875-1877`) and a socket holds hundreds of frames, so it takes minutes
in which neither end once finds its socket empty.  Holder: a proxy that is told
"reused" of a dead device goes on relaying to nothing (`HolderCorpse.cfg`).
Bridge: an overlay that joins while a button is down is told the release of a
press it never saw if it is the second, and the press itself if it is the first;
a hold client without a reader (`audiobridge.rs:151`) that closes keeps the game
paused until the next button edge or stick move writes to it.
Features: a fetch reads up to eight frames of 1.5 s each where the comment says
about 1.5 s, it ignores refusals, and the 0xA3 frames it skips are not cached
though "every 0xA3 frame is cached" (`proxy.rs:2087`); the cache is not refreshed
after a SET; a DualSense whose answer to 0x09 comes after the deadline is opened
as a DualShock 4.  Session: a signal is not noticed while a hidraw pad is there and the holder goes on
failing (`SessionDeaf.cfg`); leaving with code 2 and a stub handle does not call
`stop_all`, so the sink's threads end with the process; a USB session after one
L2CAP session destroys the audio node that `ensure_started` means to keep; each
session leaves a gate thread behind (`proxy.rs:881-889`); the exit on a masked
hidraw node leaves the pid file.  Mouse: two `off` or `toggle` commands within the
200 ms that `spawn_holder` waits start two holders of which the pid file names
one, so that a later `on` reports a free touchpad that is still grabbed; and a
holder that has grabbed the real touchpad makes the proxy's own grab fail
(`mouse.rs:119`, skipped as busy), so that `on` in the middle of a session lets
the desktop hear the real touchpad besides the virtual one.

## Plan

Done so far: `Holder` and its refinement of `Pad`, `Duplex`, `Bridge`, `Writer`,
`Relay`, `Session`, `Features`, with the proofs listed above.  What is left, in
order:

1. An abstract one-place register of the newest output, implemented by `Writer`
   without audio.
2. The jack debounce; `chord_button` and `parse_chords` as operators checked
   against reference definitions.

## Running

    tlc -config HolderDs.cfg Holder        # and the other configurations
    tlapm HolderProofs.tla
