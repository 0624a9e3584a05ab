------------------------------- MODULE Session -------------------------------
(***************************************************************************)
(* The proxy's life around its relay loop: finding or accepting a pad,      *)
(* connecting to the holder, hiding the pad's nodes, starting or keeping    *)
(* the audio sink, and what each of these leaves behind when a session      *)
(* ends, fails half way, or the process is killed.                          *)
(*                                                                          *)
(* There is one pad.  It is on the cable, connected by Bluetooth as a       *)
(* hidraw device (transport "hidraw") or willing to connect to our PSMs     *)
(* (transport "l2cap"), or away.                                            *)
(***************************************************************************)
EXTENDS Naturals, FiniteSets

CONSTANTS
  Nodes,      \* device nodes of a hidraw pad
  Raw,        \* the hidraw node among them
  None,       \* no session, no sink
  Stub        \* the handle of a sink that somebody else owns

ASSUME SessionAssumption ==
  /\ Raw \in Nodes /\ None \notin {1, 2, Stub, "usb", "bt", "l2ds5", "l2ds4"}
  /\ Stub \notin {1, 2}

VARIABLES
  \* the world
  l2cap,    \* cfg.l2cap()
  pad,      \* where the pad is
  holder,   \* the daemon: down, free, serving us, a link we dropped, or another proxy
  masks,    \* nodes with /dev/null mounted over them
  refused,  \* nodes whose last unbind failed
  unseen,   \* masked nodes that this process could not list
  \* run()
  pc,       \* where it is
  exit,     \* EXIT
  s,        \* the pad this session serves
  code,     \* what relay_loop returned
  hidden,   \* the nodes of this session that are to be unbound
  todo,     \* nodes the present step has yet to treat
  \* the sinks
  handle,   \* audio_sink
  relay,    \* OUT_RELAY
  mode,     \* MODE_RELAY
  running,  \* sinks whose threads run
  stopping, \* sinks whose stop flag is set
  attached  \* is a link attached to the sink of MODE_RELAY?

maskVars  == <<masks, refused, unseen>>
runVars   == <<exit, s, code, hidden, todo>>
sinkVars  == <<handle, relay, mode, running, stopping, attached>>
vars == <<l2cap, pad, holder, maskVars, pc, runVars, sinkVars>>

Sinks == {1, 2}
L2    == {"l2ds5", "l2ds4"}
Raws  == {"usb", "bt"}
Pads  == {"usb"} \cup (IF l2cap THEN L2 ELSE {"bt"})

\* Between sessions, in a session, and on the way out.
Seeking == {"top", "find", "listen", "wait", "accept", "opened", "await"}
Busy    == {"strip", "bind", "sink", "attach", "join", "start", "relay",
            "detach", "unhide", "close"}
Leaving == {"quit", "last", "ending"}

TypeOK ==
  /\ l2cap \in BOOLEAN /\ exit \in BOOLEAN /\ attached \in BOOLEAN
  /\ pad \in Pads \cup {"none"} /\ s \in Pads \cup {None}
  /\ holder \in {"down", "free", "serving", "stale", "other"}
  /\ masks \subseteq Nodes /\ refused \subseteq Nodes /\ unseen \subseteq Nodes
  /\ hidden \subseteq Nodes /\ todo \subseteq Nodes
  /\ pc \in {"off"} \cup Seeking \cup Busy \cup Leaving
  /\ code \in 0..3
  /\ handle \in Sinks \cup {None, Stub}
  /\ relay \in Sinks \cup {None} /\ mode \in Sinks \cup {None}
  /\ running \subseteq Sinks /\ stopping \subseteq Sinks

Init ==
  /\ l2cap \in BOOLEAN /\ pad = "none" /\ holder \in {"down", "free"}
  /\ masks = {} /\ refused = {} /\ unseen = {}
  /\ pc = "off" /\ exit = FALSE /\ s = None /\ code = 0 /\ hidden = {} /\ todo = {}
  /\ handle = None /\ relay = None /\ mode = None
  /\ running = {} /\ stopping = {} /\ attached = FALSE

-----------------------------------------------------------------------------
(* The pad, the holder and the signals.                                      *)

PadMoves(p) ==
  /\ p # pad /\ pad' = p
  /\ UNCHANGED <<l2cap, holder, maskVars, pc, runVars, sinkVars>>

HolderStops ==
  /\ holder # "down" /\ holder' = "down"
  /\ UNCHANGED <<l2cap, pad, maskVars, pc, runVars, sinkVars>>

HolderStarts ==
  /\ holder = "down" /\ holder' = "free"
  /\ UNCHANGED <<l2cap, pad, maskVars, pc, runVars, sinkVars>>

\* The daemon reads the end of the stream of the session before.
HolderReadsEnd ==
  /\ holder = "stale" /\ holder' = "free"
  /\ UNCHANGED <<l2cap, pad, maskVars, pc, runVars, sinkVars>>

\* Another proxy has the daemon for a while.
OtherConnects ==
  /\ holder = "free" /\ holder' = "other"
  /\ UNCHANGED <<l2cap, pad, maskVars, pc, runVars, sinkVars>>

OtherLeaves ==
  /\ holder = "other" /\ holder' = "free"
  /\ UNCHANGED <<l2cap, pad, maskVars, pc, runVars, sinkVars>>

Signal ==
  /\ pc # "off" /\ ~exit /\ exit' = TRUE
  /\ UNCHANGED <<l2cap, pad, holder, maskVars, pc, s, code, hidden, todo, sinkVars>>

\* The process ends: its threads, its socket and its links go with it, the
\* mounts stay.
ProcessEnds ==
  /\ pc' = "off" /\ exit' = FALSE /\ s' = None /\ code' = 0 /\ hidden' = {} /\ todo' = {}
  /\ handle' = None /\ relay' = None /\ mode' = None
  /\ running' = {} /\ stopping' = {} /\ attached' = FALSE
  /\ holder' = IF holder = "serving" THEN "stale" ELSE holder
  /\ pad' = IF pad \in L2 /\ pc \in {"accept", "opened", "await"} \cup Busy THEN "none" ELSE pad

Killed ==
  /\ pc # "off" /\ ProcessEnds
  /\ UNCHANGED <<l2cap, maskVars>>

-----------------------------------------------------------------------------
(* The helper that masks and unmasks one node, and may be refused.           *)

Unbind(n) ==
  /\ \/ masks' = masks \ {n} /\ refused' = refused \ {n}
     \/ n \in masks /\ masks' = masks /\ refused' = refused \cup {n}
  /\ unseen' = unseen \ {n}

Bind(n) ==
  /\ \/ masks' = masks \cup {n} /\ refused' = refused \ {n}
     \/ masks' \in {masks, masks \ {n}} /\ refused' = refused \cap masks'
  /\ UNCHANGED unseen

-----------------------------------------------------------------------------
(* Before the session.                                                       *)

\* Mutant: nothing is cleaned up at the start.
StartUncleaned ==
  /\ pc = "off" /\ pc' = "top"
  /\ UNCHANGED <<l2cap, pad, holder, maskVars, runVars, sinkVars>>

\* cleanup_stale_mounts unbinds whatever a run before has left, unless the
\* mounts cannot be listed.
Start ==
  /\ pc = "off" /\ pc' = "top"
  /\ \/ masks' \in SUBSET masks /\ refused' = masks' /\ unseen' = {}
     \/ unseen' = masks /\ UNCHANGED <<masks, refused>>
  /\ UNCHANGED <<l2cap, pad, holder, runVars, sinkVars>>

\* Which way to look for a pad.
TopListens ==
  /\ pc = "top" /\ l2cap /\ pad # "usb" /\ pc' = "listen"
  /\ UNCHANGED <<l2cap, pad, holder, maskVars, runVars, sinkVars>>

TopFinds ==
  /\ pc = "top" /\ ~(l2cap /\ pad # "usb") /\ pc' = "find"
  /\ UNCHANGED <<l2cap, pad, holder, maskVars, runVars, sinkVars>>

\* Mutant: a proxy that waits for a hidraw pad does not look at EXIT.
FindsNoneWaits ==
  /\ pc = "find" /\ pad \notin Raws
  /\ pc' = "top"
  /\ UNCHANGED <<l2cap, pad, holder, maskVars, runVars, sinkVars>>

FindsNone ==
  /\ pc = "find" /\ pad \notin Raws
  /\ pc' = IF exit THEN "quit" ELSE "top"
  /\ UNCHANGED <<l2cap, pad, holder, maskVars, runVars, sinkVars>>

\* Through a mask the node is no hidraw: fatal.
FindsMasked ==
  /\ pc = "find" /\ pad \in Raws /\ Raw \in masks
  /\ ProcessEnds
  /\ UNCHANGED <<l2cap, maskVars>>

\* Mutant: an empty list of pads is taken for one.
FindsAnything ==
  /\ pc = "find" /\ Raw \notin masks
  /\ s' = pad /\ pc' = "opened"
  /\ UNCHANGED <<l2cap, pad, holder, maskVars, exit, code, hidden, todo, sinkVars>>

FindsPad ==
  /\ pc = "find" /\ pad \in Raws /\ Raw \notin masks
  /\ s' = pad /\ pc' = "opened"
  /\ UNCHANGED <<l2cap, pad, holder, maskVars, exit, code, hidden, todo, sinkVars>>

\* Mutant: waiting for the control channel minds EXIT only.
MindsExitOnly == exit

\* What the wait for the control channel minds, looked at before every accept.
PollExit == exit \/ pad = "usb"

ListenEnds ==
  /\ pc = "listen" /\ PollExit
  /\ pc' = IF exit THEN "quit" ELSE "top"
  /\ UNCHANGED <<l2cap, pad, holder, maskVars, runVars, sinkVars>>

Waits ==
  /\ pc = "listen" /\ ~PollExit /\ pc' = "wait"
  /\ UNCHANGED <<l2cap, pad, holder, maskVars, runVars, sinkVars>>

NobodyCalls ==
  /\ pc = "wait" /\ pc' = "listen"
  /\ UNCHANGED <<l2cap, pad, holder, maskVars, runVars, sinkVars>>

\* The listeners cannot be bound.
ListenFails ==
  /\ pc = "listen"
  /\ pc' = IF exit THEN "quit" ELSE "top"
  /\ UNCHANGED <<l2cap, pad, holder, maskVars, runVars, sinkVars>>

AcceptsControl ==
  /\ pc = "wait" /\ pad \in L2 /\ pc' = "accept"
  /\ UNCHANGED <<l2cap, pad, holder, maskVars, runVars, sinkVars>>

\* No interrupt channel, no identity, or the pad is gone again.
AcceptFails ==
  /\ pc = "accept"
  /\ pad' = IF pad \in L2 THEN "none" ELSE pad
  /\ pc' = IF exit THEN "quit" ELSE "top"
  /\ UNCHANGED <<l2cap, holder, maskVars, runVars, sinkVars>>

AcceptsPad ==
  /\ pc = "accept" /\ pad \in L2
  /\ s' = pad /\ pc' = "opened"
  /\ UNCHANGED <<l2cap, pad, holder, maskVars, exit, code, hidden, todo, sinkVars>>

\* `continue` drops the session: the L2CAP channels are closed with it.
DropSession ==
  /\ pad' = IF s \in L2 /\ pad = s THEN "none" ELSE pad
  /\ s' = None /\ code' = 0 /\ hidden' = {} /\ todo' = {}

HolderUnavailable ==
  /\ pc = "opened" /\ holder = "down" /\ pc' = "top"
  /\ DropSession
  /\ UNCHANGED <<l2cap, holder, maskVars, exit, sinkVars>>

Connects ==
  /\ pc = "opened" /\ holder # "down" /\ pc' = "await"
  /\ UNCHANGED <<l2cap, pad, holder, maskVars, runVars, sinkVars>>

\* The end of the stream, the notice of a daemon that still has a client, or a
\* pad the kernel will not make.
HolderRefuses ==
  /\ pc = "await" /\ holder \in {"down", "stale", "other", "free"} /\ pc' = "top"
  /\ DropSession
  /\ UNCHANGED <<l2cap, holder, maskVars, exit, sinkVars>>

HolderAcks ==
  /\ pc = "await" /\ holder = "free" /\ holder' = "serving"
  /\ IF s \in Raws THEN pc' = "strip" /\ todo' = Nodes
                     ELSE pc' = "sink" /\ todo' = {}
  /\ UNCHANGED <<l2cap, pad, maskVars, exit, s, code, hidden, sinkVars>>

-----------------------------------------------------------------------------
(* Hiding the pad: every node is unbound, then every node is bound.          *)

Strips(n) ==
  /\ pc = "strip" /\ n \in todo /\ Unbind(n) /\ todo' = todo \ {n}
  /\ UNCHANGED <<l2cap, pad, holder, pc, exit, s, code, hidden, sinkVars>>

Stripped ==
  /\ pc = "strip" /\ todo = {} /\ pc' = "bind" /\ todo' = Nodes
  /\ UNCHANGED <<l2cap, pad, holder, maskVars, exit, s, code, hidden, sinkVars>>

Binds(n) ==
  /\ pc = "bind" /\ n \in todo /\ Bind(n) /\ todo' = todo \ {n}
  /\ UNCHANGED <<l2cap, pad, holder, pc, exit, s, code, hidden, sinkVars>>

\* What is to be unbound is what was to be hidden, masked or not.
Hidden ==
  /\ pc = "bind" /\ todo = {} /\ pc' = "sink" /\ hidden' = Nodes
  /\ UNCHANGED <<l2cap, pad, holder, maskVars, exit, s, code, todo, sinkVars>>

-----------------------------------------------------------------------------
(* The sink.  An L2CAP session of a DualSense makes sure there is one; any   *)
(* other stops what it holds a handle of, and one over Bluetooth's hidraw    *)
(* starts its own.                                                           *)

\* spawn_sink: the threads, and the relays that lead to them.
Spawn(linked) == LET i == IF 1 \in running THEN 2 ELSE 1 IN
  /\ handle' = i /\ relay' = i /\ mode' = i
  /\ running' = running \cup {i} /\ stopping' = stopping \ {i} /\ attached' = linked

\* Sink::stop up to its joins.  A stub stops nothing.
StopHandle ==
  \/ handle \in Sinks
     /\ stopping' = stopping \cup {handle} /\ relay' = None /\ mode' = None /\ attached' = FALSE
     /\ UNCHANGED <<handle, running>>
  \/ handle \notin Sinks /\ UNCHANGED sinkVars

\* The writer that has seen its flag takes OUT_RELAY, whoever it leads to.
WriterExits(i) ==
  /\ i \in stopping \cap running
  /\ running' = running \ {i} /\ stopping' = stopping \ {i} /\ relay' = None
  /\ UNCHANGED <<l2cap, pad, holder, maskVars, pc, runVars, handle, mode, attached>>

\* Mutant: whether a sink runs is judged by the handle.
EnsuresByHandle ==
  /\ pc = "sink" /\ s = "l2ds5" /\ pc' = "attach"
  /\ IF handle = None THEN Spawn(FALSE)
     ELSE handle' = Stub /\ UNCHANGED <<relay, mode, running, stopping, attached>>
  /\ UNCHANGED <<l2cap, pad, holder, maskVars, runVars>>

EnsuresStarted ==
  /\ pc = "sink" /\ s = "l2ds5" /\ pc' = "attach"
  /\ IF mode = None THEN Spawn(FALSE)
     ELSE handle' = Stub /\ UNCHANGED <<relay, mode, running, stopping, attached>>
  /\ UNCHANGED <<l2cap, pad, holder, maskVars, runVars>>

Attaches ==
  /\ pc = "attach" /\ pc' = "relay" /\ attached' = (mode # None)
  /\ UNCHANGED <<l2cap, pad, holder, maskVars, runVars, handle, relay, mode, running, stopping>>

StopsSink ==
  /\ pc = "sink" /\ s # "l2ds5" /\ pc' = "join" /\ StopHandle
  /\ UNCHANGED <<l2cap, pad, holder, maskVars, runVars>>

\* Mutant: the threads are not waited for.
JoinsNone ==
  /\ pc = "join" /\ pc' = "start" /\ handle' = None
  /\ UNCHANGED <<l2cap, pad, holder, maskVars, runVars, relay, mode, running, stopping, attached>>

Joins ==
  /\ pc = "join" /\ handle \notin running /\ pc' = "start" /\ handle' = None
  /\ UNCHANGED <<l2cap, pad, holder, maskVars, runVars, relay, mode, running, stopping, attached>>

StartsSink ==
  /\ pc = "start" /\ pc' = "relay"
  /\ IF s = "bt" THEN Spawn(TRUE) ELSE UNCHANGED sinkVars
  /\ UNCHANGED <<l2cap, pad, holder, maskVars, runVars>>

-----------------------------------------------------------------------------
(* The relay loop returns, and what follows.                                 *)

RelayReturns(c) ==
  /\ pc = "relay" /\ pc' = "detach" /\ code' = c
  /\ \/ c = 1 /\ pad # s
     \/ c = 2 /\ exit
     \/ c = 3 /\ holder # "serving"
  /\ UNCHANGED <<l2cap, pad, holder, maskVars, exit, s, hidden, todo, sinkVars>>

Detaches ==
  /\ pc = "detach" /\ pc' = "unhide" /\ todo' = hidden
  /\ attached' = (attached /\ s \notin L2)
  /\ UNCHANGED <<l2cap, pad, holder, maskVars, exit, s, code, hidden,
                 handle, relay, mode, running, stopping>>

Unhides(n) ==
  /\ pc = "unhide" /\ n \in todo /\ Unbind(n) /\ todo' = todo \ {n}
  /\ UNCHANGED <<l2cap, pad, holder, pc, exit, s, code, hidden, sinkVars>>

Unhidden ==
  /\ pc = "unhide" /\ todo = {} /\ pc' = "close"
  /\ UNCHANGED <<l2cap, pad, holder, maskVars, runVars, sinkVars>>

\* The holder's socket is dropped; without EXIT the loop starts over.
Closes ==
  /\ pc = "close"
  /\ holder' = IF holder = "serving" THEN "stale" ELSE holder
  /\ IF exit \/ code = 2
     THEN pc' = "last" /\ UNCHANGED <<pad, s, code, hidden, todo>>
     ELSE pc' = "top" /\ DropSession
  /\ UNCHANGED <<l2cap, maskVars, exit, sinkVars>>

\* proxy_exit: stop_all reaches a sink that a stub cannot stop.
StopsAll ==
  /\ pc = "quit" /\ pc' = "last"
  /\ stopping' = stopping \cup ({mode} \cap Sinks)
  /\ relay' = None /\ mode' = None /\ attached' = FALSE
  /\ UNCHANGED <<l2cap, pad, holder, maskVars, runVars, handle, running>>

LastStop ==
  /\ pc = "last" /\ pc' = "ending" /\ StopHandle
  /\ UNCHANGED <<l2cap, pad, holder, maskVars, runVars>>

Ends ==
  /\ pc = "ending" /\ handle \notin running
  /\ ProcessEnds
  /\ UNCHANGED <<l2cap, maskVars>>

-----------------------------------------------------------------------------
Seek ==
  \/ TopListens \/ TopFinds \/ FindsNone \/ FindsMasked \/ FindsPad
  \/ ListenEnds \/ Waits \/ NobodyCalls \/ AcceptsControl \/ AcceptFails \/ AcceptsPad
  \/ HolderUnavailable \/ Connects \/ HolderRefuses \/ HolderAcks

Serve ==
  \/ \E n \in Nodes : Strips(n) \/ Binds(n) \/ Unhides(n)
  \/ Stripped \/ Hidden \/ Unhidden
  \/ EnsuresStarted \/ Attaches \/ StopsSink \/ Joins \/ StartsSink
  \/ \E c \in 1..3 : RelayReturns(c)
  \/ Detaches \/ Closes

Leave == StopsAll \/ LastStop \/ Ends

Next ==
  \/ Start \/ ListenFails \/ Seek \/ Serve \/ Leave
  \/ \E i \in Sinks : WriterExits(i)
  \/ \E p \in Pads \cup {"none"} : PadMoves(p)
  \/ HolderStops \/ HolderStarts \/ HolderReadsEnd \/ OtherConnects \/ OtherLeaves
  \/ Signal \/ Killed

\* The process runs, and so do its threads.  Nothing is assumed of the pad, of
\* the holder, of failures, of signals, of another proxy, or of anybody starting
\* this one.
Fairness ==
  /\ WF_vars(Seek \/ Serve \/ Leave)
  /\ \A i \in Sinks : WF_vars(WriterExits(i))

Spec == Init /\ [][Next]_vars /\ Fairness

-----------------------------------------------------------------------------
(* Properties.                                                               *)

\* Outside a session no node of the pad is masked unless its own unbind was
\* refused, or nobody has tried it because /proc/mounts could not be read:
\* whichever way the last session ended, half hidden, by a signal, or killed and
\* started again (run, cleanup_stale_mounts).
NoMaskLeft == pc \in Seeking \cup Leaving => masks \subseteq refused \cup unseen

\* There is never more than one audio node: a sink that is being stopped is
\* gone before another is started (Sink::stop, ensure_started).
OneNode == Cardinality(running) <= 1

\* While a DualSense without a sound card of its own is served, the relays of
\* outputs and of the mode lead to one running sink that has the pad's link,
\* which no writer that is on its way out cuts (writer_thread); and no L2CAP
\* link outlives its session in the sink (detach_pad).
SinkServesSession ==
  /\ relay # None => relay \in running
  /\ pc = "relay" /\ s \in {"l2ds5", "bt"} =>
       relay \in running \ stopping /\ mode = relay /\ attached
  /\ l2cap /\ pc \in Seeking => ~attached

\* From some time on the daemon takes whoever comes.
HolderSettles == <>[][~(HolderUnavailable \/ HolderRefuses)]_vars

\* A signal ends the process wherever it is: waiting for either kind of pad, in
\* a session, or joining its sink's threads; and between attempts to reach the
\* holder, unless it goes on failing for a pad that stays a hidraw device: then
\* run starts over for ever without a look at EXIT.
Stops == HolderSettles \/ <>[](pad \notin Raws) => (exit ~> pc = "off")

\* What the code does not promise: with a pad on hidraw and a holder that goes
\* on failing, the signal is never seen.
StopsAnyway == exit ~> pc = "off"

\* A cable that is plugged in while the proxy listens for Bluetooth is served
\* once the holder takes it (the closure given to l2cap::open), unless it is
\* pulled or the proxy ends.
UsbTakesOver ==
  HolderSettles =>
    ((pc \in {"listen", "wait"} /\ pad = "usb") ~>
       ((pc = "relay" /\ s = "usb") \/ pad # "usb" \/ exit \/ pc = "off"))

\* What a comment says of the loss of the holder, "the pad link itself stays
\* up": the end of such a session leaves the pad as it is.
LinkSurvivesHolder ==
  [][pc = "close" /\ pc' = "top" /\ code = 3 => pad' = pad]_vars

\* What rumble's comment says of USB sessions: no sink is running, so that the
\* caller writes the pad's hidraw itself.
UsbHasNoSink == pc = "relay" /\ s = "usb" => relay = None

=============================================================================
