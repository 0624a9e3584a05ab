------------------------------- MODULE Holder -------------------------------
(***************************************************************************)
(* The virtual-pad holder: a daemon that owns the /dev/uhid descriptor, the *)
(* kernel device behind it, and the proxy that drives it over a unix        *)
(* socket.  The daemon is one poll loop; each turn takes a snapshot of what *)
(* is readable and then handles at most one connection, one proxy frame and *)
(* one kernel event, in that order and from that snapshot.                  *)
(*                                                                          *)
(* The kernel half (uhid and the HID driver bound to the device) is not in  *)
(* this repository; it is modelled from the events the daemon handles.      *)
(***************************************************************************)
EXTENDS Naturals, Sequences

CONSTANTS
  Shapes,     \* pad presentations: what a CREATE payload announces
  UsbShapes,  \* the presentations that have a neutral report
  Kinds,      \* kinds of report request the kernel makes: GET and SET
  Conns,      \* socket connections, reused once both ends are closed
  None,       \* no shape, no connection, no request
  Waits,      \* TRUE: the proxy waits for the create ack; FALSE: the XInput tap
  MayFail,    \* can opening or creating on /dev/uhid fail?
  MaxBinds,   \* bound: times the HID driver binds to one device
  MaxReq,     \* bound: report requests the kernel makes on one device
  QCap,       \* bound: unread kernel events
  SockCap     \* bound: unread frames in one direction of a connection

ASSUME HolderAssumption ==
  /\ UsbShapes \subseteq Shapes
  /\ None \notin Shapes \cup Conns
  /\ Waits \in BOOLEAN /\ MayFail \in BOOLEAN
  /\ MaxBinds \in Nat /\ MaxReq \in Nat /\ QCap \in Nat /\ SockCap \in Nat

VARIABLES
  up,       \* is the daemon running?
  h,        \* struct Holder
  client,   \* the connection being served, or None
  ready,    \* what the last poll found readable and the turn has yet to handle
  k,        \* the kernel device behind the descriptor
  events,   \* events the daemon has not read from the descriptor
  backlog,  \* connections waiting in the listener
  popen,    \* connections whose proxy end is open
  hopen,    \* connections whose daemon end is open
  toH,      \* frames on their way to the daemon
  toP,      \* frames on their way to the proxy
  pc,       \* where the proxy's session is
  conn,     \* the proxy's connection
  want      \* the shape the proxy's session announces

holderVars == <<up, h, client, ready>>
kernelVars == <<k, events>>
netVars    == <<backlog, popen, hopen, toH, toP>>
proxyVars  == <<pc, conn, want>>
vars       == <<holderVars, kernelVars, netVars, proxyVars>>

-----------------------------------------------------------------------------
(* Frames, events and the records of the two sides.                         *)

\* `dev` tells the devices apart (two in a row always differ); the daemon and
\* the proxy never see it.
Requests == [kind : Kinds, id : 1..MaxReq, dev : 0..1]

ToHolder ==
  [tag : {"CREATE"}, shape : Shapes] \cup [tag : {"NEUTRAL"}, shape : Shapes \cup {None}]
    \cup [tag : {"INPUT"}, shape : Shapes, val : {"rest", "press"}]
    \cup [tag : {"REPLY"}, req : Requests] \cup [tag : {"DESTROY"}]

ToProxy ==
  [tag : {"ACK"}, code : 0..2] \cup [tag : {"REQ"}, req : Requests]
    \cup [tag : {"OUTPUT", "NOTICE"}]

Events == [tag : {"START", "STOP", "OUTPUT"}] \cup [tag : {"REQ"}, req : Requests]

\* struct Holder: is there a descriptor, the create key, the report to park
\* with and whether a driver has started.
HolderState ==
  [uhid : BOOLEAN, key : Shapes \cup {None}, neutral : Shapes \cup {None},
   started : BOOLEAN]

\* Holder::new
NewHolder == [uhid |-> FALSE, key |-> None, neutral |-> None, started |-> FALSE]

\* The device behind the descriptor; `input` is the state games read.
Device ==
  [dev : 0..1, shape : Shapes \cup {None}, alive : BOOLEAN, bound : BOOLEAN,
   input : {"rest", "press", "alien"}, asked : Requests \cup {None},
   nreq : 0..MaxReq, binds : 0..MaxBinds]

\* A device no driver has bound to yet, and no device.
Fresh(d, s, live) ==
  [dev |-> d, shape |-> s, alive |-> live, bound |-> FALSE, input |-> "rest",
   asked |-> None, nreq |-> 0, binds |-> 0]
NoDevice(d) == Fresh(d, None, FALSE)

Ack(code) == [tag |-> "ACK", code |-> code]

TypeOK ==
  /\ up \in BOOLEAN
  /\ h \in HolderState
  /\ client \in Conns \cup {None}
  /\ ready \subseteq {"listener", "client", "uhid"}
  /\ k \in Device
  /\ events \in Seq(Events)
  /\ backlog \in Seq(Conns)
  /\ popen \subseteq Conns /\ hopen \subseteq Conns
  /\ toH \in [Conns -> Seq(ToHolder)]
  /\ toP \in [Conns -> Seq(ToProxy)]
  /\ pc \in {"down", "hello", "await", "relay"}
  /\ conn \in Conns \cup {None}
  /\ want \in Shapes

Init ==
  /\ up = TRUE /\ h = NewHolder /\ client = None /\ ready = {}
  /\ k = NoDevice(0) /\ events = <<>>
  /\ backlog = <<>> /\ popen = {} /\ hopen = {}
  /\ toH = [c \in Conns |-> <<>>] /\ toP = [c \in Conns |-> <<>>]
  /\ pc = "down" /\ conn = None /\ want \in Shapes

-----------------------------------------------------------------------------
(* The kernel device.  A write to a device that is not running is refused    *)
(* and the daemon ignores the refusal.                                       *)

\* The device goes away; a driver that was bound is stopped first.
KDestroy ==
  /\ k' = [Fresh(k.dev, k.shape, FALSE) EXCEPT !.binds = k.binds]
  /\ events' = IF k.bound THEN Append(events, [tag |-> "STOP"]) ELSE events

\* The descriptor is closed: whatever device and unread events it had go too.
KClose == k' = NoDevice(k.dev) /\ events' = <<>>

KCreate(s) == k' = Fresh(1 - k.dev, s, TRUE) /\ events' = <<>>

\* An input report reaches the games only through a bound driver, which reads
\* it by the layout of its own shape.
KInput(s, v) ==
  k' = IF k.bound THEN [k EXCEPT !.input = IF s = k.shape THEN v ELSE "alien"] ELSE k

SameRequest(r, q) == r # None /\ q # None /\ r.kind = q.kind /\ r.id = q.id

\* A reply is taken only for the request being waited for.
KReply(r) ==
  k' = IF SameRequest(k.asked, r) THEN [k EXCEPT !.asked = None] ELSE k

DriverBinds ==
  /\ k.alive /\ ~k.bound /\ k.binds < MaxBinds /\ Len(events) < QCap
  /\ k' = [k EXCEPT !.bound = TRUE, !.input = "rest", !.binds = @ + 1]
  /\ events' = Append(events, [tag |-> "START"])
  /\ UNCHANGED <<holderVars, netVars, proxyVars>>

\* Probe failure after the start, or the driver taken off the device.
DriverUnbinds ==
  /\ k.bound /\ Len(events) < QCap
  /\ k' = [k EXCEPT !.bound = FALSE, !.input = "rest", !.asked = None]
  /\ events' = Append(events, [tag |-> "STOP"])
  /\ UNCHANGED <<holderVars, netVars, proxyVars>>

\* A game or the driver writes an output report.
KernelOutput ==
  /\ k.bound /\ Len(events) < QCap
  /\ events' = Append(events, [tag |-> "OUTPUT"])
  /\ UNCHANGED <<holderVars, k, netVars, proxyVars>>

\* The driver or a game asks for a report; the kernel waits for one at a time.
KernelAsks(kind) ==
  /\ k.bound /\ k.asked = None /\ k.nreq < MaxReq /\ Len(events) < QCap
  /\ LET r == [kind |-> kind, id |-> k.nreq + 1, dev |-> k.dev]
     IN  /\ k' = [k EXCEPT !.asked = r, !.nreq = @ + 1]
         /\ events' = Append(events, [tag |-> "REQ", req |-> r])
  /\ UNCHANGED <<holderVars, netVars, proxyVars>>

\* The kernel gives up on a request after five seconds.
KernelGivesUp ==
  /\ k.asked # None
  /\ k' = [k EXCEPT !.asked = None]
  /\ UNCHANGED <<holderVars, events, netVars, proxyVars>>

-----------------------------------------------------------------------------
(* The daemon's loop.                                                        *)

Readable ==
  (IF backlog # <<>> THEN {"listener"} ELSE {})
    \cup (IF client # None /\ (toH[client] # <<>> \/ client \notin popen)
          THEN {"client"} ELSE {})
    \cup (IF h.uhid /\ events # <<>> THEN {"uhid"} ELSE {})

Poll ==
  /\ up /\ ready = {} /\ Readable # {}
  /\ ready' = Readable
  /\ UNCHANGED <<up, h, client, kernelVars, netVars, proxyVars>>

\* A connection that finds the daemon free is served.
AcceptServes ==
  /\ up /\ "listener" \in ready /\ client = None
  /\ client' = Head(backlog)
  /\ backlog' = Tail(backlog)
  /\ ready' = ready \ {"listener"}
  /\ UNCHANGED <<up, h, kernelVars, popen, hopen, toH, toP, proxyVars>>

\* Any other is told so and dropped.
AcceptRefuses ==
  /\ up /\ "listener" \in ready /\ client # None
  /\ backlog' = Tail(backlog)
  /\ hopen' = hopen \ {Head(backlog)}
  /\ toP' = [toP EXCEPT ![Head(backlog)] =
               IF Head(backlog) \in popen THEN Append(@, [tag |-> "NOTICE"]) ELSE @]
  /\ toH' = [toH EXCEPT ![Head(backlog)] = <<>>]
  /\ ready' = ready \ {"listener"}
  /\ UNCHANGED <<up, h, client, kernelVars, popen, proxyVars>>

\* ipc::recv on the served connection, and on to the kernel's event.
ReadFrame(tag) ==
  /\ up /\ "listener" \notin ready /\ "client" \in ready
  /\ toH[client] # <<>> /\ Head(toH[client]).tag = tag
  /\ toH' = [toH EXCEPT ![client] = Tail(@)]
  /\ ready' = ready \ {"client"}
  /\ UNCHANGED <<up, client, backlog, popen, hopen, proxyVars>>

\* ipc::send to the served connection: it blocks on a full socket, and an
\* error on one whose peer is gone is ignored.
SendClient(f) ==
  toP' = IF client \in popen THEN [toP EXCEPT ![client] = Append(@, f)] ELSE toP
ClientHasRoom == client \in popen => Len(toP[client]) < SockCap

CreateReuses ==
  /\ ReadFrame("CREATE") /\ ClientHasRoom
  /\ h.key = Head(toH[client]).shape
  /\ SendClient(Ack(1))
  /\ UNCHANGED <<h, kernelVars>>

\* Mutant: the device is made anew even when its shape is the one asked for.
CreateAlwaysMakes ==
  /\ ReadFrame("CREATE") /\ ClientHasRoom
  /\ LET s == Head(toH[client]).shape
     IN  KCreate(s) /\ h' = [h EXCEPT !.uhid = TRUE, !.key = s, !.started = FALSE]
  /\ SendClient(Ack(0))

\* Mutant: `started` is left over from the device before.
CreateKeepsStarted ==
  /\ ReadFrame("CREATE") /\ ClientHasRoom
  /\ LET s == Head(toH[client]).shape
     IN  h.key # s /\ KCreate(s) /\ h' = [h EXCEPT !.uhid = TRUE, !.key = s]
  /\ SendClient(Ack(0))

\* The old device is already destroyed when the new one cannot be made.
CreateFails ==
  /\ MayFail /\ ReadFrame("CREATE") /\ ClientHasRoom
  /\ h.key # Head(toH[client]).shape
  /\ IF h.uhid THEN KDestroy ELSE UNCHANGED kernelVars
  /\ h' = [h EXCEPT !.started = IF h.uhid THEN FALSE ELSE @]
  /\ SendClient(Ack(2))

CreateMakes ==
  /\ ReadFrame("CREATE") /\ ClientHasRoom
  /\ LET s == Head(toH[client]).shape
     IN  /\ h.key # s
         /\ KCreate(s)
         /\ h' = [h EXCEPT !.uhid = TRUE, !.key = s, !.started = FALSE]
  /\ SendClient(Ack(0))

\* With the descriptor gone there is no event left to read this turn.
FrameDestroy ==
  /\ up /\ "listener" \notin ready /\ "client" \in ready
  /\ toH[client] # <<>> /\ Head(toH[client]).tag = "DESTROY"
  /\ toH' = [toH EXCEPT ![client] = Tail(@)]
  /\ ready' = {}
  /\ h' = NewHolder
  /\ KClose
  /\ UNCHANGED <<up, client, backlog, popen, hopen, toP, proxyVars>>

FrameInput ==
  /\ ReadFrame("INPUT")
  /\ LET f == Head(toH[client])
     IN  IF h.started /\ h.uhid THEN KInput(f.shape, f.val) ELSE UNCHANGED k
  /\ UNCHANGED <<h, events, toP>>

\* Mutant: the frame is stored in place of the report it carries.
NeutralStoresFrame ==
  /\ ReadFrame("NEUTRAL")
  /\ h' = [h EXCEPT !.neutral = Head(toH[client])]
  /\ UNCHANGED <<kernelVars, toP>>

\* An empty payload clears the stored report.
FrameNeutral ==
  /\ ReadFrame("NEUTRAL")
  /\ h' = [h EXCEPT !.neutral = Head(toH[client]).shape]
  /\ UNCHANGED <<kernelVars, toP>>

FrameReply ==
  /\ ReadFrame("REPLY")
  /\ IF h.uhid THEN KReply(Head(toH[client]).req) ELSE UNCHANGED k
  /\ UNCHANGED <<h, events, toP>>

\* Mutant: nothing is parked when the proxy goes.
GoneWithoutParking ==
  /\ up /\ "listener" \notin ready /\ "client" \in ready
  /\ toH[client] = <<>> /\ client \notin popen
  /\ client' = None
  /\ hopen' = hopen \ {client}
  /\ ready' = ready \ {"client"}
  /\ UNCHANGED <<up, h, k, events, backlog, popen, toH, toP, proxyVars>>

\* client_gone: keep the pad, park the kernel state at neutral.
ClientGone ==
  /\ up /\ "listener" \notin ready /\ "client" \in ready
  /\ toH[client] = <<>> /\ client \notin popen
  /\ client' = None
  /\ hopen' = hopen \ {client}
  /\ IF h.started /\ h.neutral # None /\ h.uhid
     THEN KInput(h.neutral, "rest") ELSE UNCHANGED k
  /\ ready' = ready \ {"client"}
  /\ UNCHANGED <<up, h, events, backlog, popen, toH, toP, proxyVars>>

\* uhid_event reads one event.  The descriptor is read because the snapshot
\* said so: on a device made since the snapshot the read waits for an event.
ReadEvent(tag) ==
  /\ up /\ ready = {"uhid"} /\ events # <<>> /\ Head(events).tag = tag
  /\ events' = Tail(events)
  /\ ready' = {}
  /\ UNCHANGED <<up, client, backlog, popen, hopen, toH, proxyVars>>

\* Mutant: a START that finds no proxy connected is forgotten.
StartNeedsClient ==
  /\ ReadEvent("START")
  /\ h' = [h EXCEPT !.started = client # None]
  /\ UNCHANGED <<k, toP>>

EventStart ==
  /\ ReadEvent("START")
  /\ h' = [h EXCEPT !.started = TRUE]
  /\ UNCHANGED <<k, toP>>

\* Mutant: the create key outlives the driver.
StopKeepsKey ==
  /\ ReadEvent("STOP")
  /\ h' = [h EXCEPT !.started = FALSE]
  /\ UNCHANGED <<k, toP>>

EventStop ==
  /\ ReadEvent("STOP")
  /\ h' = [h EXCEPT !.started = FALSE, !.key = None]
  /\ UNCHANGED <<k, toP>>

EventOutput ==
  /\ ReadEvent("OUTPUT")
  /\ \/ client = None /\ UNCHANGED toP
     \/ client # None /\ ClientHasRoom /\ SendClient([tag |-> "OUTPUT"])
  /\ UNCHANGED <<h, k>>

\* With nobody to forward a request to, the daemon fails it itself.
EventRequest ==
  /\ ReadEvent("REQ")
  /\ LET r == Head(events).req
     IN  \/ client = None /\ KReply(r) /\ UNCHANGED toP
         \/ /\ client # None /\ ClientHasRoom
            /\ SendClient([tag |-> "REQ", req |-> r])
            /\ UNCHANGED k
  /\ UNCHANGED h

\* A signal or a crash.  Either way the kernel drops the device and the sockets.
HolderStops ==
  /\ up
  /\ up' = FALSE /\ h' = NewHolder /\ client' = None /\ ready' = {}
  /\ KClose
  /\ backlog' = <<>> /\ hopen' = {}
  /\ toH' = [c \in Conns |-> <<>>]
  /\ UNCHANGED <<popen, toP, proxyVars>>

HolderStarts ==
  /\ ~up /\ up' = TRUE
  /\ UNCHANGED <<h, client, ready, kernelVars, netVars, proxyVars>>

-----------------------------------------------------------------------------
(* The proxy's side of the link.                                             *)

\* Connect, with whatever shape the pad just found calls for.
ProxyConnects(c, s) ==
  /\ up /\ pc = "down" /\ c \notin popen \cup hopen
  /\ popen' = popen \cup {c} /\ hopen' = hopen \cup {c}
  /\ backlog' = Append(backlog, c)
  /\ toH' = [toH EXCEPT ![c] = <<>>] /\ toP' = [toP EXCEPT ![c] = <<>>]
  /\ pc' = "hello" /\ conn' = c /\ want' = s
  /\ UNCHANGED <<holderVars, kernelVars>>

ProxySends(f) ==
  /\ conn \in hopen /\ Len(toH[conn]) < SockCap
  /\ toH' = [toH EXCEPT ![conn] = Append(@, f)]

ProxyCreates ==
  /\ pc = "hello"
  /\ ProxySends([tag |-> "CREATE", shape |-> want])
  /\ pc' = "await"
  /\ UNCHANGED <<holderVars, kernelVars, backlog, popen, hopen, toP, conn, want>>

NeutralOf(s) == IF s \in UsbShapes THEN s ELSE None

\* Mutant: the DS proxy does not wait either.
ArmsAtOnce ==
  /\ pc = "await"
  /\ ProxySends([tag |-> "NEUTRAL", shape |-> NeutralOf(want)])
  /\ pc' = "relay"
  /\ UNCHANGED <<holderVars, kernelVars, backlog, popen, hopen, toP, conn, want>>

\* The DS proxy waits for the ack; the XInput tap sends on.
ProxyArms ==
  /\ pc = "await"
  /\ IF Waits
     THEN /\ toP[conn] # <<>> /\ Head(toP[conn]) \in {Ack(0), Ack(1)}
          /\ toP' = [toP EXCEPT ![conn] = Tail(@)]
     ELSE UNCHANGED toP
  /\ ProxySends([tag |-> "NEUTRAL", shape |-> NeutralOf(want)])
  /\ pc' = "relay"
  /\ UNCHANGED <<holderVars, kernelVars, backlog, popen, hopen, conn, want>>

ProxyInput(v) ==
  /\ pc = "relay"
  /\ ProxySends([tag |-> "INPUT", shape |-> want, val |-> v])
  /\ UNCHANGED <<holderVars, kernelVars, backlog, popen, hopen, toP, proxyVars>>

\* One frame from the daemon: a request is answered, the rest changes nothing
\* on this side of the link.
ProxyReads ==
  /\ pc = "relay" /\ toP[conn] # <<>>
  /\ toP' = [toP EXCEPT ![conn] = Tail(@)]
  /\ LET f == Head(toP[conn])
     IN  IF f.tag = "REQ" THEN ProxySends([tag |-> "REPLY", req |-> f.req])
                          ELSE UNCHANGED toH
  /\ UNCHANGED <<holderVars, kernelVars, backlog, popen, hopen, proxyVars>>

HangUp ==
  /\ popen' = popen \ {conn} /\ toP' = [toP EXCEPT ![conn] = <<>>]
  /\ pc' = "down" /\ conn' = None

\* The XInput tap is switched off: destroy the pad and drop the link.
ProxyLowers ==
  /\ ~Waits /\ pc = "relay"
  /\ ProxySends([tag |-> "DESTROY"])
  /\ HangUp
  /\ UNCHANGED <<holderVars, kernelVars, backlog, hopen, want>>

\* The session ends: pad gone, proxy stopped or killed, an unexpected create
\* reply, a lost daemon.  All the daemon sees is the end of the stream.
ProxyDrops ==
  /\ pc # "down"
  /\ HangUp
  /\ UNCHANGED <<holderVars, kernelVars, backlog, hopen, toH, want>>

-----------------------------------------------------------------------------

HolderStep ==
  \/ Poll \/ AcceptServes \/ AcceptRefuses
  \/ CreateReuses \/ CreateFails \/ CreateMakes
  \/ FrameDestroy \/ FrameInput \/ FrameNeutral \/ FrameReply \/ ClientGone
  \/ EventStart \/ EventStop \/ EventOutput \/ EventRequest

KernelStep ==
  \/ DriverBinds \/ DriverUnbinds \/ KernelOutput \/ KernelGivesUp
  \/ \E kind \in Kinds : KernelAsks(kind)

ProxyStep ==
  \/ \E c \in Conns, s \in Shapes : ProxyConnects(c, s)
  \/ \E v \in {"rest", "press"} : ProxyInput(v)
  \/ ProxyCreates \/ ProxyArms \/ ProxyReads \/ ProxyLowers \/ ProxyDrops

Next == HolderStep \/ HolderStops \/ HolderStarts \/ KernelStep \/ ProxyStep

Spec == Init /\ [][Next]_vars

\* The daemon's loop runs, systemd restarts it, and the kernel probes a new
\* device; nothing is assumed of the proxy or of later kernel events.
FairSpec == Spec /\ WF_vars(HolderStep) /\ WF_vars(HolderStarts) /\ WF_vars(DriverBinds)

-----------------------------------------------------------------------------
(* What the daemon promises.                                                 *)

NewlySent(c, f) == toP' = [toP EXCEPT ![c] = Append(@, f)]

\* "Reused" is answered for the device of the shape that was asked for, and not
\* "into a corpse" (uhid_event, STOP): a device destroyed by a re-create that
\* then failed is reused only until its STOP is read.  One that no driver ever
\* bound to sends no STOP, and is reused dead for good (see HolderCorpse.cfg).
StopUnread == \E i \in DOMAIN events : events[i].tag = "STOP"
ReuseIsLive ==
  [][ client # None /\ NewlySent(client, Ack(1))
        => /\ k.shape = Head(toH[client]).shape
           /\ k.alive \/ k.binds = 0 \/ StopUnread ]_vars

\* What that leaves out: false when creating a device can fail.
ReuseIsAlive == [][client # None /\ NewlySent(client, Ack(1)) => k.alive]_vars

\* Once the unread events are read, `started` says whether a driver is bound:
\* no START or STOP is lost or attributed to another device.
DriverEvents(ev) == {i \in 1..Len(ev) : ev[i].tag \in {"START", "STOP"}}
Tracks(ev, started, bound) ==
  /\ DriverEvents(ev) = {} => started = bound
  /\ \A i \in DriverEvents(ev) :
       (\A j \in DriverEvents(ev) : j <= i) => (ev[i].tag = "START") = bound
StartedTracksDriver == h.uhid => Tracks(events, h.started, k.bound)

\* The pad as the games see it, and the daemon as an implementation of Pad:
\* it is replaced, driven and parked only as promised there, so that Parked
\* (PadParks) holds of it: no press is left when the proxy has gone.
Promised == INSTANCE Pad WITH
  up     <- up,
  pad    <- IF k.alive THEN k.shape ELSE None,
  nodes  <- k.bound,
  shown  <- k.input,
  served <- client # None
ImplementsPad == Promised!Spec

\* Parked for every shape, as the header states it: false (see HolderFrozen.cfg).
NeverFrozen == client = None => k.input # "press"

\* The kernel takes a reply only to the request it was made for, though ids
\* start again at 1 on each device: so it is with a proxy that waits for its
\* ack.  The XInput tap, which does not, answers all requests of a kind alike.
ReplyReachesItsAsker ==
  [][FrameReply /\ k'.asked # k.asked => Head(toH[client]).req = k.asked]_vars

\* While the daemon runs, a pad with a driver on it goes away only for another
\* shape or on request: games that hold its nodes never re-enumerate.
BoundPadSurvives ==
  [][ k.bound /\ up' /\ (k'.dev # k.dev \/ ~k'.alive)
        => /\ client # None
           /\ \/ Head(toH[client]).tag = "DESTROY"
              \/ Head(toH[client]).tag = "CREATE" /\ Head(toH[client]).shape # k.shape ]_vars

\* However the session ends and whatever is still in the socket, the games see
\* the buttons released.
EventuallyParked ==
  (pc = "down" /\ k.shape \in UsbShapes /\ k.input = "press")
     ~> (pc # "down" \/ k.input # "press")

\* A new device's START reaches the daemon, so its input is relayed.
EventuallyStarted == (k.bound /\ ~h.started) ~> (h.started \/ ~k.bound)

=============================================================================
