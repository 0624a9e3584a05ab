---------------------------- MODULE HolderProofs ----------------------------
(***************************************************************************)
(* Proofs about the holder for every set of shapes, connections and request *)
(* kinds and every bound: its types, what it knows of the driver, what it   *)
(* answers a CREATE with, the order of the frames of a session, and that a  *)
(* reply is taken for the request it answers.                               *)
(***************************************************************************)
EXTENDS Holder, TLAPS

\* What the loop knows of its own snapshot, and the proxy of its connection.
LoopOK ==
  /\ "client" \in ready => client # None
  /\ "listener" \in ready => backlog # <<>>
  /\ pc # "down" => conn # None

\* The daemon's record of the device and the device itself.
DeviceOK ==
  /\ k.bound => k.alive
  /\ k.alive => h.uhid
  /\ ~h.uhid => events = <<>>
  /\ h.key # None => h.uhid /\ h.key = k.shape

\* The create key of a device whose driver has gone lasts until its STOP is read.
KeyOK == h.key # None /\ k.binds # 0 /\ ~k.bound => StopUnread

\* The inductive invariant of the daemon and the device.
IInv == TypeOK /\ LoopOK /\ DeviceOK /\ KeyOK /\ StartedTracksDriver

-----------------------------------------------------------------------------
(* Types.                                                                    *)

\* Every frame and event the actions build belongs to its set.
LEMMA Members ==
  /\ {Ack(0), Ack(1), Ack(2), [tag |-> "OUTPUT"], [tag |-> "NOTICE"]} \subseteq ToProxy
  /\ {[tag |-> "START"], [tag |-> "STOP"], [tag |-> "OUTPUT"]} \subseteq Events
  /\ [tag |-> "DESTROY"] \in ToHolder
  /\ \A s \in Shapes : [tag |-> "CREATE", shape |-> s] \in ToHolder
  /\ \A s \in Shapes \cup {None} : [tag |-> "NEUTRAL", shape |-> s] \in ToHolder
  /\ \A s \in Shapes, v \in {"rest", "press"} :
       [tag |-> "INPUT", shape |-> s, val |-> v] \in ToHolder
  /\ \A r \in Requests : /\ [tag |-> "REPLY", req |-> r] \in ToHolder
                         /\ [tag |-> "REQ", req |-> r] \in ToProxy
                         /\ [tag |-> "REQ", req |-> r] \in Events
BY DEF Ack, ToProxy, ToHolder, Events

\* What a frame or an event carries, by its tag.
LEMMA Payloads ==
  /\ \A f \in ToHolder : /\ f.tag = "CREATE" => f.shape \in Shapes
                         /\ f.tag = "NEUTRAL" => f.shape \in Shapes \cup {None}
                         /\ f.tag = "INPUT" => f.shape \in Shapes /\ f.val \in {"rest", "press"}
                         /\ f.tag = "REPLY" => f.req \in Requests
  /\ \A f \in ToProxy : f.tag = "REQ" => f.req \in Requests
  /\ \A e \in Events : e.tag = "REQ" => e.req \in Requests
BY DEF ToHolder, ToProxy, Events

\* What drivers and games do to a device keeps its type.
LEMMA DeviceUpdates ==
  ASSUME NEW d \in Device
  PROVE  /\ d.binds < MaxBinds =>
              [d EXCEPT !.bound = TRUE, !.input = "rest", !.binds = @ + 1] \in Device
         /\ [d EXCEPT !.bound = FALSE, !.input = "rest", !.asked = None] \in Device
         /\ \A r \in Requests : d.nreq < MaxReq =>
              [d EXCEPT !.asked = r, !.nreq = @ + 1] \in Device
<1> USE HolderAssumption
<1>1. ASSUME d.binds < MaxBinds
      PROVE  [d EXCEPT !.bound = TRUE, !.input = "rest", !.binds = @ + 1] \in Device
  <2>1. d.binds + 1 \in 0..MaxBinds
    BY <1>1 DEF Device
  <2> QED BY <2>1 DEF Device
<1>2. [d EXCEPT !.bound = FALSE, !.input = "rest", !.asked = None] \in Device
  BY DEF Device
<1>3. ASSUME NEW r \in Requests, d.nreq < MaxReq
      PROVE  [d EXCEPT !.asked = r, !.nreq = @ + 1] \in Device
  <2>1. d.nreq + 1 \in 0..MaxReq
    BY <1>3 DEF Device
  <2> QED BY <2>1 DEF Device
<1> QED BY <1>1, <1>2, <1>3

\* The writes to the kernel device keep its type.
LEMMA KernelTypes ==
  ASSUME TypeOK
  PROVE  /\ KDestroy => k' \in Device /\ events' \in Seq(Events)
         /\ KClose => k' \in Device /\ events' \in Seq(Events)
         /\ \A s \in Shapes : KCreate(s) => k' \in Device /\ events' \in Seq(Events)
         /\ \A s \in Shapes \cup {None}, v \in {"rest", "press"} : KInput(s, v) => k' \in Device
         /\ \A r \in Requests : KReply(r) => k' \in Device
<1> USE HolderAssumption
<1>1. KDestroy => k' \in Device /\ events' \in Seq(Events)
  <2>1. KDestroy => k' \in Device
    <3>1. k.binds \in 0..MaxBinds /\ k.dev \in 0..1 /\ k.shape \in Shapes \cup {None}
      BY DEF TypeOK, Device
    <3>2. Fresh(k.dev, k.shape, FALSE) \in Device
      BY <3>1 DEF Device, Fresh
    <3>3. [Fresh(k.dev, k.shape, FALSE) EXCEPT !.binds = k.binds] \in Device
      BY <3>1, <3>2 DEF Device
    <3> QED BY <3>3 DEF KDestroy
  <2>2. KDestroy => events' \in Seq(Events)
    BY Members DEF KDestroy, TypeOK
  <2> QED BY <2>1, <2>2
<1>2. KClose => k' \in Device /\ events' \in Seq(Events)
  BY DEF KClose, TypeOK, Device, NoDevice, Fresh
<1>3. \A s \in Shapes : KCreate(s) => k' \in Device /\ events' \in Seq(Events)
  <2>1. k.dev \in 0..1 /\ 1 - k.dev \in 0..1
    BY DEF TypeOK, Device
  <2>2. \A s \in Shapes, d \in 0..1 : Fresh(d, s, TRUE) \in Device
    BY DEF Device, Fresh
  <2>3. \A s \in Shapes : Fresh(1 - k.dev, s, TRUE) \in Device
    BY <2>1, <2>2
  <2>4. <<>> \in Seq(Events)
    OBVIOUS
  <2> QED BY <2>3, <2>4 DEF KCreate
<1>4. \A s \in Shapes \cup {None}, v \in {"rest", "press"} : KInput(s, v) => k' \in Device
  BY DEF KInput, TypeOK, Device
<1>5. \A r \in Requests : KReply(r) => k' \in Device
  BY DEF KReply, TypeOK, Device
<1> QED BY <1>1, <1>2, <1>3, <1>4, <1>5

\* Reading and sending keep the queues' types, and what is read has one.
LEMMA QueueTypes ==
  ASSUME TypeOK, LoopOK
  PROVE  /\ \A f \in ToProxy : client # None /\ SendClient(f) => toP' \in [Conns -> Seq(ToProxy)]
         /\ \A f \in ToHolder : pc # "down" /\ ProxySends(f) => toH' \in [Conns -> Seq(ToHolder)]
         /\ \A t : ReadFrame(t) => /\ client \in Conns
                                   /\ toH' \in [Conns -> Seq(ToHolder)]
                                   /\ Head(toH[client]) \in ToHolder
                                   /\ Head(toH[client]).tag = t
                                   /\ ready' \subseteq {"listener", "client", "uhid"}
         /\ \A t : ReadEvent(t) => /\ events' \in Seq(Events)
                                   /\ Head(events) \in Events
                                   /\ Head(events).tag = t
                                   /\ ready' \subseteq {"listener", "client", "uhid"}
<1>1. \A f \in ToProxy : client # None /\ SendClient(f) => toP' \in [Conns -> Seq(ToProxy)]
  BY DEF SendClient, TypeOK
<1>2. \A f \in ToHolder : pc # "down" /\ ProxySends(f) => toH' \in [Conns -> Seq(ToHolder)]
  BY DEF ProxySends, TypeOK, LoopOK
<1>3. ASSUME NEW t, ReadFrame(t)
      PROVE  /\ client \in Conns
             /\ toH' \in [Conns -> Seq(ToHolder)]
             /\ Head(toH[client]) \in ToHolder
             /\ Head(toH[client]).tag = t
             /\ ready' \subseteq {"listener", "client", "uhid"}
  <2>1. client \in Conns
    BY <1>3 DEF ReadFrame, TypeOK, LoopOK
  <2>2. toH[client] \in Seq(ToHolder) /\ toH[client] # <<>>
    BY <1>3, <2>1 DEF ReadFrame, TypeOK
  <2> QED BY <1>3, <2>1, <2>2 DEF ReadFrame, TypeOK
<1>4. \A t : ReadEvent(t) => /\ events' \in Seq(Events)
                             /\ Head(events) \in Events
                             /\ Head(events).tag = t
                             /\ ready' \subseteq {"listener", "client", "uhid"}
  BY DEF ReadEvent, TypeOK
<1> QED BY <1>1, <1>2, <1>3, <1>4

\* Every step keeps the types.
LEMMA TypeStep ==
  ASSUME TypeOK, LoopOK, [Next]_vars
  PROVE  TypeOK'
<1> USE HolderAssumption
<1>1. CASE Poll
  BY <1>1 DEF TypeOK, holderVars, kernelVars, netVars, proxyVars, Poll, Readable
<1>2. CASE AcceptServes
  BY <1>2 DEF TypeOK, holderVars, kernelVars, netVars, proxyVars, LoopOK, AcceptServes
<1>3. CASE AcceptRefuses
  BY <1>3, Members DEF TypeOK, holderVars, kernelVars, netVars, proxyVars, LoopOK, AcceptRefuses
<1>4. CASE CreateReuses
  BY <1>4, Members, QueueTypes
  DEF TypeOK, holderVars, kernelVars, netVars, proxyVars, LoopOK, CreateReuses, ReadFrame
<1>5. CASE CreateFails
  BY <1>5, Members, QueueTypes, KernelTypes
  DEF TypeOK, holderVars, kernelVars, netVars, proxyVars, LoopOK, HolderState, CreateFails,
      ReadFrame
<1>6. CASE CreateMakes
  BY <1>6, Members, Payloads, QueueTypes, KernelTypes
  DEF TypeOK, holderVars, kernelVars, netVars, proxyVars, LoopOK, HolderState, CreateMakes,
      ReadFrame
<1>7. CASE FrameDestroy
  BY <1>7, KernelTypes
  DEF TypeOK, holderVars, kernelVars, netVars, proxyVars, LoopOK, HolderState, NewHolder,
      FrameDestroy
<1>8. CASE FrameInput
  <2>1. ReadFrame("INPUT") /\ h' = h /\ events' = events /\ toP' = toP
    BY <1>8 DEF FrameInput
  <2>2. k' \in Device
    <3> DEFINE f == Head(toH[client])
    <3>1. f.shape \in Shapes /\ f.val \in {"rest", "press"}
      BY <2>1, Payloads, QueueTypes
    <3>2. k' = k \/ KInput(f.shape, f.val)
      BY <1>8 DEF FrameInput
    <3> QED BY <3>1, <3>2, KernelTypes DEF TypeOK
  <2> QED
    BY <2>1, <2>2, QueueTypes
    DEF TypeOK, holderVars, kernelVars, netVars, proxyVars, ReadFrame
<1>9. CASE FrameNeutral
  BY <1>9, Payloads, QueueTypes
  DEF TypeOK, holderVars, kernelVars, netVars, proxyVars, HolderState, FrameNeutral, ReadFrame
<1>10. CASE FrameReply
  BY <1>10, Payloads, QueueTypes, KernelTypes
  DEF TypeOK, holderVars, kernelVars, netVars, proxyVars, FrameReply, ReadFrame
<1>11. CASE ClientGone
  BY <1>11, KernelTypes
  DEF TypeOK, holderVars, kernelVars, netVars, proxyVars, HolderState, ClientGone
<1>12. CASE EventStart
  BY <1>12, QueueTypes
  DEF TypeOK, holderVars, kernelVars, netVars, proxyVars, HolderState, EventStart, ReadEvent
<1>13. CASE EventStop
  BY <1>13, QueueTypes
  DEF TypeOK, holderVars, kernelVars, netVars, proxyVars, HolderState, EventStop, ReadEvent
<1>14. CASE EventOutput
  BY <1>14, QueueTypes, Members
  DEF TypeOK, holderVars, kernelVars, netVars, proxyVars, EventOutput, ReadEvent
<1>15. CASE EventRequest
  BY <1>15, QueueTypes, Members, Payloads, KernelTypes
  DEF TypeOK, holderVars, kernelVars, netVars, proxyVars, EventRequest, ReadEvent
<1>16. CASE HolderStops
  <2>1. k' \in Device /\ events' \in Seq(Events)
    BY <1>16, KernelTypes DEF HolderStops
  <2>2. NewHolder \in HolderState /\ [c \in Conns |-> <<>>] \in [Conns -> Seq(ToHolder)]
    BY DEF NewHolder, HolderState
  <2>3. toH' \in [Conns -> Seq(ToHolder)] /\ h' \in HolderState
    BY <1>16, <2>2 DEF HolderStops
  <2>4. ready' = {} /\ hopen' = {} /\ backlog' = <<>> /\ client' = None /\ up' = FALSE
        /\ popen' = popen /\ toP' = toP /\ pc' = pc /\ conn' = conn /\ want' = want
    BY <1>16 DEF HolderStops, proxyVars
  <2>5. backlog' \in Seq(Conns) /\ hopen' \subseteq Conns
    BY <2>4
  <2> QED BY <2>1, <2>3, <2>4, <2>5 DEF TypeOK
<1>17. CASE HolderStarts
  BY <1>17 DEF TypeOK, holderVars, kernelVars, netVars, proxyVars, HolderStarts
<1>18. CASE DriverBinds
  <2>1. k' \in Device
    BY <1>18, DeviceUpdates DEF DriverBinds, TypeOK
  <2>2. events' \in Seq(Events)
    BY <1>18, Members DEF DriverBinds, TypeOK
  <2> QED BY <1>18, <2>1, <2>2 DEF TypeOK, holderVars, kernelVars, netVars, proxyVars, DriverBinds
<1>19. CASE DriverUnbinds
  <2>1. k' \in Device
    BY <1>19, DeviceUpdates DEF DriverUnbinds, TypeOK
  <2>2. events' \in Seq(Events)
    BY <1>19, Members DEF DriverUnbinds, TypeOK
  <2> QED
    BY <1>19, <2>1, <2>2
    DEF TypeOK, holderVars, kernelVars, netVars, proxyVars, DriverUnbinds
<1>20. CASE KernelOutput
  BY <1>20, Members DEF TypeOK, holderVars, kernelVars, netVars, proxyVars, KernelOutput
<1>21. CASE KernelGivesUp
  BY <1>21 DEF TypeOK, holderVars, kernelVars, netVars, proxyVars, Device, KernelGivesUp
<1>22. CASE \E kind \in Kinds : KernelAsks(kind)
  <2> PICK kind \in Kinds : KernelAsks(kind)
    BY <1>22
  <2> DEFINE r == [kind |-> kind, id |-> k.nreq + 1, dev |-> k.dev]
  <2>1. k.nreq \in 0..MaxReq /\ k.nreq < MaxReq /\ k.dev \in 0..1
    BY DEF KernelAsks, TypeOK, Device
  <2>2. r \in Requests
    BY <2>1 DEF Requests
  <2> HIDE DEF r
  <2>3. k' = [k EXCEPT !.asked = r, !.nreq = @ + 1]
        /\ events' = Append(events, [tag |-> "REQ", req |-> r])
    BY DEF KernelAsks, r
  <2>4. k' \in Device
    BY <2>1, <2>2, <2>3, DeviceUpdates DEF TypeOK
  <2>5. [tag |-> "REQ", req |-> r] \in Events
    BY <2>2, Members
  <2>6. events' \in Seq(Events)
    BY <2>3, <2>5 DEF TypeOK
  <2> QED BY <2>4, <2>6 DEF TypeOK, holderVars, kernelVars, netVars, proxyVars, KernelAsks
<1>23. CASE \E c \in Conns, s \in Shapes : ProxyConnects(c, s)
  BY <1>23 DEF TypeOK, holderVars, kernelVars, netVars, proxyVars, ProxyConnects
<1>24. CASE \E v \in {"rest", "press"} : ProxyInput(v)
  BY <1>24, Members, QueueTypes DEF TypeOK, holderVars, kernelVars, netVars, proxyVars, ProxyInput
<1>25. CASE ProxyCreates
  BY <1>25, Members, QueueTypes
  DEF TypeOK, holderVars, kernelVars, netVars, proxyVars, ProxyCreates
<1>26. CASE ProxyArms
  <2>1. [tag |-> "NEUTRAL", shape |-> NeutralOf(want)] \in ToHolder
    BY Members DEF NeutralOf, TypeOK
  <2>2. toH' \in [Conns -> Seq(ToHolder)]
    BY <1>26, <2>1, QueueTypes DEF ProxyArms
  <2>3. toP' \in [Conns -> Seq(ToProxy)]
    <3>1. conn \in Conns /\ toP[conn] \in Seq(ToProxy)
      BY <1>26 DEF ProxyArms, TypeOK, LoopOK
    <3>2. CASE Waits
      <4>1. toP[conn] # <<>> /\ toP' = [toP EXCEPT ![conn] = Tail(@)]
        BY <1>26, <3>2 DEF ProxyArms
      <4> QED BY <3>1, <4>1 DEF TypeOK
    <3>3. CASE ~Waits
      BY <1>26, <3>3 DEF ProxyArms, TypeOK
    <3> QED BY <3>2, <3>3
  <2> QED BY <1>26, <2>2, <2>3 DEF TypeOK, holderVars, kernelVars, netVars, proxyVars, ProxyArms
<1>27. CASE ProxyReads
  <2>1. conn \in Conns /\ toP[conn] \in Seq(ToProxy) /\ toP[conn] # <<>>
    BY <1>27 DEF ProxyReads, TypeOK, LoopOK
  <2>2. Head(toP[conn]) \in ToProxy
    BY <2>1
  <2>3. toP' \in [Conns -> Seq(ToProxy)]
    BY <1>27, <2>1 DEF ProxyReads, TypeOK
  <2>4. toH' \in [Conns -> Seq(ToHolder)]
    <3>1. CASE Head(toP[conn]).tag = "REQ"
      BY <1>27, <2>2, <3>1, Members, Payloads, QueueTypes DEF ProxyReads
    <3>2. CASE Head(toP[conn]).tag # "REQ"
      BY <1>27, <3>2 DEF ProxyReads, TypeOK
    <3> QED BY <3>1, <3>2
  <2> QED BY <1>27, <2>3, <2>4 DEF TypeOK, holderVars, kernelVars, netVars, proxyVars, ProxyReads
<1>28. CASE ProxyLowers
  BY <1>28, Members, QueueTypes
  DEF TypeOK, holderVars, kernelVars, netVars, proxyVars, LoopOK, HangUp, ProxyLowers
<1>29. CASE ProxyDrops
  BY <1>29 DEF TypeOK, holderVars, kernelVars, netVars, proxyVars, LoopOK, HangUp, ProxyDrops
<1>30. CASE UNCHANGED vars
  BY <1>30 DEF TypeOK, holderVars, kernelVars, netVars, proxyVars, vars
<1> QED
  BY <1>1, <1>2, <1>3, <1>4, <1>5, <1>6, <1>7, <1>8, <1>9, <1>10, <1>11, <1>12, <1>13, <1>14,
     <1>15, <1>16, <1>17, <1>18, <1>19, <1>20, <1>21, <1>22, <1>23, <1>24, <1>25, <1>26, <1>27,
     <1>28, <1>29, <1>30
  DEF Next, HolderStep, KernelStep, ProxyStep

\* Every step keeps what the loop knows of its snapshot.
LEMMA LoopStep ==
  ASSUME TypeOK, LoopOK, [Next]_vars
  PROVE  LoopOK'
<1> USE HolderAssumption
<1>1. CASE Poll
  BY <1>1 DEF LoopOK, holderVars, kernelVars, netVars, proxyVars, Poll, Readable
<1>2. CASE AcceptServes
  BY <1>2 DEF LoopOK, holderVars, kernelVars, netVars, proxyVars, AcceptServes, TypeOK
<1>3. CASE AcceptRefuses
  BY <1>3 DEF LoopOK, holderVars, kernelVars, netVars, proxyVars, AcceptRefuses
<1>4. CASE CreateReuses
  BY <1>4 DEF LoopOK, holderVars, kernelVars, netVars, proxyVars, CreateReuses, ReadFrame
<1>5. CASE CreateFails
  BY <1>5 DEF LoopOK, holderVars, kernelVars, netVars, proxyVars, CreateFails, ReadFrame
<1>6. CASE CreateMakes
  BY <1>6 DEF LoopOK, holderVars, kernelVars, netVars, proxyVars, CreateMakes, ReadFrame
<1>7. CASE FrameDestroy
  BY <1>7 DEF LoopOK, holderVars, kernelVars, netVars, proxyVars, FrameDestroy
<1>8. CASE FrameInput
  BY <1>8 DEF LoopOK, holderVars, kernelVars, netVars, proxyVars, FrameInput, ReadFrame
<1>9. CASE FrameNeutral
  BY <1>9 DEF LoopOK, holderVars, kernelVars, netVars, proxyVars, FrameNeutral, ReadFrame
<1>10. CASE FrameReply
  BY <1>10 DEF LoopOK, holderVars, kernelVars, netVars, proxyVars, FrameReply, ReadFrame
<1>11. CASE ClientGone
  BY <1>11 DEF LoopOK, holderVars, kernelVars, netVars, proxyVars, ClientGone
<1>12. CASE EventStart
  BY <1>12 DEF LoopOK, holderVars, kernelVars, netVars, proxyVars, EventStart, ReadEvent
<1>13. CASE EventStop
  BY <1>13 DEF LoopOK, holderVars, kernelVars, netVars, proxyVars, EventStop, ReadEvent
<1>14. CASE EventOutput
  BY <1>14 DEF LoopOK, holderVars, kernelVars, netVars, proxyVars, EventOutput, ReadEvent
<1>15. CASE EventRequest
  BY <1>15 DEF LoopOK, holderVars, kernelVars, netVars, proxyVars, EventRequest, ReadEvent
<1>16. CASE HolderStops
  BY <1>16 DEF LoopOK, holderVars, kernelVars, netVars, proxyVars, HolderStops
<1>17. CASE HolderStarts
  BY <1>17 DEF LoopOK, holderVars, kernelVars, netVars, proxyVars, HolderStarts
<1>18. CASE DriverBinds
  BY <1>18 DEF LoopOK, holderVars, kernelVars, netVars, proxyVars, DriverBinds
<1>19. CASE DriverUnbinds
  BY <1>19 DEF LoopOK, holderVars, kernelVars, netVars, proxyVars, DriverUnbinds
<1>20. CASE KernelOutput
  BY <1>20 DEF LoopOK, holderVars, kernelVars, netVars, proxyVars, KernelOutput
<1>21. CASE KernelGivesUp
  BY <1>21 DEF LoopOK, holderVars, kernelVars, netVars, proxyVars, KernelGivesUp
<1>22. CASE \E kind \in Kinds : KernelAsks(kind)
  BY <1>22 DEF LoopOK, holderVars, kernelVars, netVars, proxyVars, KernelAsks
<1>23. CASE \E c \in Conns, s \in Shapes : ProxyConnects(c, s)
  <2> PICK c \in Conns, s \in Shapes : ProxyConnects(c, s)
    BY <1>23
  <2>1. Append(backlog, c) # <<>>
    <3>1. backlog \in Seq(Conns)
      BY DEF TypeOK
    <3>2. Len(Append(backlog, c)) = Len(backlog) + 1 /\ Len(backlog) \in Nat
      BY <3>1
    <3> QED BY <3>2
  <2>2. conn' = c /\ c # None
    BY DEF ProxyConnects
  <2> QED BY <2>1, <2>2 DEF LoopOK, holderVars, kernelVars, ProxyConnects
<1>24. CASE \E v \in {"rest", "press"} : ProxyInput(v)
  BY <1>24 DEF LoopOK, holderVars, kernelVars, netVars, proxyVars, ProxyInput
<1>25. CASE ProxyCreates
  BY <1>25 DEF LoopOK, holderVars, kernelVars, netVars, proxyVars, ProxyCreates
<1>26. CASE ProxyArms
  BY <1>26 DEF LoopOK, holderVars, kernelVars, netVars, proxyVars, ProxyArms
<1>27. CASE ProxyReads
  BY <1>27 DEF LoopOK, holderVars, kernelVars, netVars, proxyVars, ProxyReads
<1>28. CASE ProxyLowers
  BY <1>28 DEF LoopOK, holderVars, kernelVars, netVars, proxyVars, ProxyLowers, HangUp
<1>29. CASE ProxyDrops
  BY <1>29 DEF LoopOK, holderVars, kernelVars, netVars, proxyVars, ProxyDrops, HangUp
<1>30. CASE UNCHANGED vars
  BY <1>30 DEF LoopOK, holderVars, kernelVars, netVars, proxyVars, vars
<1> QED
  BY <1>1, <1>2, <1>3, <1>4, <1>5, <1>6, <1>7, <1>8, <1>9, <1>10, <1>11, <1>12, <1>13, <1>14,
     <1>15, <1>16, <1>17, <1>18, <1>19, <1>20, <1>21, <1>22, <1>23, <1>24, <1>25, <1>26, <1>27,
     <1>28, <1>29, <1>30
  DEF Next, HolderStep, KernelStep, ProxyStep

\* Every step keeps the daemon's record of its device in agreement with it.
LEMMA DeviceStep ==
  ASSUME TypeOK, LoopOK, DeviceOK, [Next]_vars
  PROVE  DeviceOK'
<1> USE HolderAssumption
<1>1. CASE Poll
  BY <1>1 DEF DeviceOK, TypeOK, HolderState, holderVars, kernelVars, netVars, proxyVars, Poll
<1>2. CASE AcceptServes
  BY <1>2
  DEF DeviceOK, TypeOK, HolderState, holderVars, kernelVars, netVars, proxyVars, AcceptServes
<1>3. CASE AcceptRefuses
  BY <1>3
  DEF DeviceOK, TypeOK, HolderState, holderVars, kernelVars, netVars, proxyVars, AcceptRefuses
<1>4. CASE CreateReuses
  BY <1>4, Payloads, QueueTypes
  DEF DeviceOK, TypeOK, HolderState, holderVars, kernelVars, netVars, proxyVars, CreateReuses,
      ReadFrame
<1>5. CASE CreateFails
  BY <1>5, Payloads, QueueTypes
  DEF DeviceOK, TypeOK, HolderState, holderVars, kernelVars, netVars, proxyVars, CreateFails,
      ReadFrame, KDestroy, Fresh
<1>6. CASE CreateMakes
  BY <1>6, Payloads, QueueTypes
  DEF DeviceOK, TypeOK, HolderState, holderVars, kernelVars, netVars, proxyVars, CreateMakes,
      ReadFrame, KCreate, Fresh
<1>7. CASE FrameDestroy
  BY <1>7
  DEF DeviceOK, TypeOK, HolderState, holderVars, kernelVars, netVars, proxyVars, FrameDestroy,
      KClose, NoDevice, Fresh, NewHolder
<1>8. CASE FrameInput
  <2>1. k'.bound = k.bound /\ k'.alive = k.alive /\ k'.shape = k.shape
    BY <1>8 DEF FrameInput, KInput, TypeOK, Device
  <2> QED BY <1>8, <2>1 DEF DeviceOK, FrameInput, ReadFrame
<1>9. CASE FrameNeutral
  BY <1>9, Payloads, QueueTypes
  DEF DeviceOK, TypeOK, HolderState, holderVars, kernelVars, netVars, proxyVars, FrameNeutral,
      ReadFrame
<1>10. CASE FrameReply
  <2>1. k'.bound = k.bound /\ k'.alive = k.alive /\ k'.shape = k.shape
    BY <1>10 DEF FrameReply, KReply, TypeOK, Device
  <2> QED BY <1>10, <2>1 DEF DeviceOK, FrameReply, ReadFrame
<1>11. CASE ClientGone
  BY <1>11
  DEF DeviceOK, TypeOK, HolderState, holderVars, kernelVars, netVars, proxyVars, ClientGone,
      KInput, Device
<1>12. CASE EventStart
  BY <1>12
  DEF DeviceOK, TypeOK, HolderState, holderVars, kernelVars, netVars, proxyVars, EventStart,
      ReadEvent
<1>13. CASE EventStop
  BY <1>13
  DEF DeviceOK, TypeOK, HolderState, holderVars, kernelVars, netVars, proxyVars, EventStop,
      ReadEvent
<1>14. CASE EventOutput
  BY <1>14
  DEF DeviceOK, TypeOK, HolderState, holderVars, kernelVars, netVars, proxyVars, EventOutput,
      ReadEvent
<1>15. CASE EventRequest
  BY <1>15
  DEF DeviceOK, TypeOK, HolderState, holderVars, kernelVars, netVars, proxyVars, EventRequest,
      ReadEvent, KReply, Device
<1>16. CASE HolderStops
  BY <1>16
  DEF DeviceOK, TypeOK, HolderState, holderVars, kernelVars, netVars, proxyVars, HolderStops,
      KClose, NoDevice, Fresh, NewHolder
<1>17. CASE HolderStarts
  BY <1>17
  DEF DeviceOK, TypeOK, HolderState, holderVars, kernelVars, netVars, proxyVars, HolderStarts
<1>18. CASE DriverBinds
  BY <1>18
  DEF DeviceOK, TypeOK, HolderState, holderVars, kernelVars, netVars, proxyVars, DriverBinds,
      Device
<1>19. CASE DriverUnbinds
  BY <1>19
  DEF DeviceOK, TypeOK, HolderState, holderVars, kernelVars, netVars, proxyVars, DriverUnbinds,
      Device
<1>20. CASE KernelOutput
  BY <1>20
  DEF DeviceOK, TypeOK, HolderState, holderVars, kernelVars, netVars, proxyVars, KernelOutput
<1>21. CASE KernelGivesUp
  BY <1>21
  DEF DeviceOK, TypeOK, HolderState, holderVars, kernelVars, netVars, proxyVars, KernelGivesUp,
      Device
<1>22. CASE \E kind \in Kinds : KernelAsks(kind)
  BY <1>22
  DEF DeviceOK, TypeOK, HolderState, holderVars, kernelVars, netVars, proxyVars, KernelAsks,
      Device
<1>23. CASE \E c \in Conns, s \in Shapes : ProxyConnects(c, s)
  BY <1>23
  DEF DeviceOK, TypeOK, HolderState, holderVars, kernelVars, netVars, proxyVars, ProxyConnects
<1>24. CASE \E v \in {"rest", "press"} : ProxyInput(v)
  BY <1>24
  DEF DeviceOK, TypeOK, HolderState, holderVars, kernelVars, netVars, proxyVars, ProxyInput
<1>25. CASE ProxyCreates
  BY <1>25
  DEF DeviceOK, TypeOK, HolderState, holderVars, kernelVars, netVars, proxyVars, ProxyCreates
<1>26. CASE ProxyArms
  BY <1>26
  DEF DeviceOK, TypeOK, HolderState, holderVars, kernelVars, netVars, proxyVars, ProxyArms
<1>27. CASE ProxyReads
  BY <1>27
  DEF DeviceOK, TypeOK, HolderState, holderVars, kernelVars, netVars, proxyVars, ProxyReads
<1>28. CASE ProxyLowers
  BY <1>28
  DEF DeviceOK, TypeOK, HolderState, holderVars, kernelVars, netVars, proxyVars, ProxyLowers
<1>29. CASE ProxyDrops
  BY <1>29
  DEF DeviceOK, TypeOK, HolderState, holderVars, kernelVars, netVars, proxyVars, ProxyDrops
<1>30. CASE UNCHANGED vars
  BY <1>30 DEF DeviceOK, TypeOK, HolderState, holderVars, kernelVars, netVars, proxyVars, vars
<1> QED
  BY <1>1, <1>2, <1>3, <1>4, <1>5, <1>6, <1>7, <1>8, <1>9, <1>10, <1>11, <1>12, <1>13, <1>14,
     <1>15, <1>16, <1>17, <1>18, <1>19, <1>20, <1>21, <1>22, <1>23, <1>24, <1>25, <1>26, <1>27,
     <1>28, <1>29, <1>30
  DEF Next, HolderStep, KernelStep, ProxyStep

\* An unread STOP stays in the queue, and one that is queued is there, until it
\* is read.
LEMMA StopsStay ==
  ASSUME NEW ev \in Seq(Events), NEW e \in Events
  PROVE  /\ \A i \in DOMAIN ev :
              i \in DOMAIN Append(ev, e) /\ Append(ev, e)[i] = ev[i]
         /\ Len(ev) + 1 \in DOMAIN Append(ev, e) /\ Append(ev, e)[Len(ev) + 1] = e
         /\ ev # <<>> => \A i \in DOMAIN ev :
              i = 1 \/ (i - 1 \in DOMAIN Tail(ev) /\ Tail(ev)[i - 1] = ev[i])
         /\ ev # <<>> => Head(ev) = ev[1]
OBVIOUS

\* Reading another event leaves the STOP unread.
LEMMA StopsUnread ==
  ASSUME TypeOK, NEW t, ReadEvent(t), t # "STOP", StopUnread
  PROVE  StopUnread'
<1>1. events \in Seq(Events) /\ events # <<>> /\ events' = Tail(events) /\ Head(events).tag = t
  BY DEF ReadEvent, TypeOK
<1>2. PICK i \in DOMAIN events : events[i].tag = "STOP"
  BY DEF StopUnread
<1>3. [tag |-> "STOP"] \in Events
  BY Members
<1>4. i # 1 /\ i - 1 \in DOMAIN events' /\ events'[i - 1].tag = "STOP"
  BY <1>1, <1>2, <1>3, StopsStay
<1> QED BY <1>4 DEF StopUnread

\* Queueing an event leaves a STOP unread, and queueing a STOP makes one.
LEMMA StopsQueue ==
  ASSUME TypeOK, NEW e \in Events, events' = Append(events, e), StopUnread \/ e.tag = "STOP"
  PROVE  StopUnread'
<1>1. events \in Seq(Events)
  BY DEF TypeOK
<1>2. CASE StopUnread
  <2>1. PICK i \in DOMAIN events : events[i].tag = "STOP"
    BY <1>2 DEF StopUnread
  <2>2. i \in DOMAIN events' /\ events'[i] = events[i]
    BY <1>1, StopsStay
  <2> QED BY <2>1, <2>2 DEF StopUnread
<1>3. CASE e.tag = "STOP"
  <2>1. Len(events) + 1 \in DOMAIN events' /\ events'[Len(events) + 1] = e
    BY <1>1, StopsStay
  <2> QED BY <1>3, <2>1 DEF StopUnread
<1> QED BY <1>2, <1>3

\* Every step keeps the key only as long as there is a driver to lose or its
\* STOP to read.
LEMMA KeyStep ==
  ASSUME TypeOK, LoopOK, DeviceOK, KeyOK, [Next]_vars
  PROVE  KeyOK'
<1> USE HolderAssumption
<1>1. CASE CreateFails
  <2>1. h'.key = h.key
    BY <1>1 DEF CreateFails, TypeOK, HolderState
  <2>2. CASE UNCHANGED kernelVars
    BY <2>1, <2>2 DEF KeyOK, StopUnread, kernelVars
  <2>3. CASE KDestroy
    <3>1. k'.binds = k.binds
      BY <2>3 DEF KDestroy, Fresh
    <3>2. CASE k.bound
      <4>1. [tag |-> "STOP"] \in Events /\ events' = Append(events, [tag |-> "STOP"])
        BY <2>3, <3>2, Members DEF KDestroy
      <4>2. StopUnread'
        BY <4>1, StopsQueue
      <4> QED BY <4>2 DEF KeyOK
    <3>3. CASE ~k.bound
      <4>1. events' = events
        BY <2>3, <3>3 DEF KDestroy
      <4> QED BY <2>1, <3>1, <3>3, <4>1 DEF KeyOK, StopUnread
    <3> QED BY <3>2, <3>3
  <2> QED BY <1>1, <2>2, <2>3 DEF CreateFails
<1>2. CASE CreateMakes
  BY <1>2 DEF CreateMakes, KCreate, Fresh, KeyOK
<1>3. CASE FrameDestroy \/ HolderStops
  BY <1>3 DEF FrameDestroy, HolderStops, NewHolder, KeyOK
<1>4. CASE FrameInput \/ ClientGone
  <2>1. h' = h /\ events' = events
    BY <1>4 DEF FrameInput, ClientGone
  <2>2. k' = k \/ \E s, v : KInput(s, v)
    BY <1>4 DEF FrameInput, ClientGone
  <2>3. k'.bound = k.bound /\ k'.binds = k.binds
    BY <2>2 DEF KInput, TypeOK, Device
  <2> QED BY <2>1, <2>3 DEF KeyOK, StopUnread
<1>5. CASE FrameReply
  <2>1. h' = h /\ events' = events /\ k'.bound = k.bound /\ k'.binds = k.binds
    BY <1>5 DEF FrameReply, KReply, TypeOK, Device
  <2> QED BY <2>1 DEF KeyOK, StopUnread
<1>6. CASE FrameNeutral
  <2>1. h'.key = h.key /\ events' = events /\ k' = k
    BY <1>6 DEF FrameNeutral, kernelVars, TypeOK, HolderState
  <2> QED BY <2>1 DEF KeyOK, StopUnread
<1>7. CASE EventStop
  BY <1>7 DEF EventStop, KeyOK, TypeOK, HolderState
<1>8. ASSUME NEW t, ReadEvent(t), t # "STOP", h'.key = h.key, k'.bound = k.bound,
             k'.binds = k.binds
      PROVE  KeyOK'
  BY <1>8, StopsUnread DEF KeyOK
<1>9. CASE EventStart
  <2>1. h'.key = h.key /\ k' = k
    BY <1>9 DEF EventStart, TypeOK, HolderState
  <2> QED BY <1>8, <1>9, <2>1 DEF EventStart
<1>10. CASE EventOutput
  BY <1>8, <1>10 DEF EventOutput
<1>11. CASE EventRequest
  <2>1. h' = h /\ k'.bound = k.bound /\ k'.binds = k.binds
    BY <1>11 DEF EventRequest, KReply, TypeOK, Device
  <2> QED BY <1>8, <1>11, <2>1 DEF EventRequest
<1>12. CASE DriverBinds
  BY <1>12 DEF DriverBinds, KeyOK, TypeOK, Device
<1>13. CASE DriverUnbinds
  <2>1. [tag |-> "STOP"] \in Events /\ events' = Append(events, [tag |-> "STOP"])
    BY <1>13, Members DEF DriverUnbinds
  <2>2. StopUnread'
    BY <2>1, StopsQueue
  <2> QED BY <2>2 DEF KeyOK
<1>14. ASSUME NEW e \in Events, events' = Append(events, e), h' = h, k'.bound = k.bound,
              k'.binds = k.binds
       PROVE  KeyOK'
  BY <1>14, StopsQueue DEF KeyOK
<1>15. CASE KernelOutput
  BY <1>14, <1>15, Members DEF KernelOutput, holderVars
<1>16. CASE \E kind \in Kinds : KernelAsks(kind)
  <2> PICK kind \in Kinds : KernelAsks(kind)
    BY <1>16
  <2> DEFINE r == [kind |-> kind, id |-> k.nreq + 1, dev |-> k.dev]
  <2>1. r \in Requests
    BY DEF KernelAsks, TypeOK, Device, Requests
  <2>2. [tag |-> "REQ", req |-> r] \in Events
    BY <2>1, Members
  <2>3. /\ h' = h /\ k'.bound = k.bound /\ k'.binds = k.binds
        /\ events' = Append(events, [tag |-> "REQ", req |-> r])
    BY DEF KernelAsks, TypeOK, Device, holderVars
  <2> QED BY <1>14, <2>2, <2>3
<1>17. CASE KernelGivesUp
  <2>1. h' = h /\ events' = events /\ k'.bound = k.bound /\ k'.binds = k.binds
    BY <1>17 DEF KernelGivesUp, TypeOK, Device, holderVars
  <2> QED BY <2>1 DEF KeyOK, StopUnread
<1>18. CASE UNCHANGED <<h, k, events>>
  BY <1>18 DEF KeyOK, StopUnread
<1> QED
  BY <1>1, <1>2, <1>3, <1>4, <1>5, <1>6, <1>7, <1>9, <1>10, <1>11, <1>12, <1>13, <1>15, <1>16,
     <1>17, <1>18
  DEF Next, HolderStep, KernelStep, ProxyStep, Poll, AcceptServes, AcceptRefuses, CreateReuses,
      HolderStarts, ProxyConnects, ProxyInput, ProxyCreates, ProxyArms, ProxyReads, ProxyLowers,
      ProxyDrops, holderVars, kernelVars, vars

\* The unread events of a device nobody has bound to.
LEMMA TracksEmpty == Tracks(<<>>, FALSE, FALSE)
BY DEF Tracks, DriverEvents

\* A START or STOP made by the driver, or another event, at the queue's end.
LEMMA TracksAppend ==
  ASSUME NEW ev \in Seq(Events), NEW e \in Events, NEW s, NEW s2, NEW b, Tracks(ev, s, b)
  PROVE  /\ e.tag = "START" => Tracks(Append(ev, e), s2, TRUE)
         /\ e.tag = "STOP" => Tracks(Append(ev, e), s2, FALSE)
         /\ e.tag \notin {"START", "STOP"} => Tracks(Append(ev, e), s, b)
<1> DEFINE q == Append(ev, e)
<1>1. /\ Len(ev) \in Nat /\ Len(q) = Len(ev) + 1 /\ q[Len(ev) + 1] = e
      /\ \A i \in 1..Len(ev) : q[i] = ev[i]
  OBVIOUS
<1> HIDE DEF q
<1>2. ASSUME e.tag \in {"START", "STOP"}
      PROVE  Tracks(q, s2, e.tag = "START")
  <2>1. Len(ev) + 1 \in DriverEvents(q)
    BY <1>1, <1>2 DEF DriverEvents
  <2>2. \A i \in DriverEvents(q) :
          (\A j \in DriverEvents(q) : j <= i) => i = Len(ev) + 1
    BY <1>1, <2>1 DEF DriverEvents
  <2> QED BY <1>1, <2>1, <2>2 DEF Tracks
<1>3. ASSUME e.tag \notin {"START", "STOP"}
      PROVE  Tracks(q, s, b)
  <2>1. DriverEvents(q) = DriverEvents(ev)
    BY <1>1, <1>3 DEF DriverEvents
  <2>2. \A i \in DriverEvents(ev) : q[i] = ev[i]
    BY <1>1 DEF DriverEvents
  <2> QED BY <2>1, <2>2 DEF Tracks
<1>4. e.tag = "START" => Tracks(q, s2, TRUE)
  BY <1>2
<1>5. e.tag = "STOP" => Tracks(q, s2, FALSE)
  BY <1>2
<1> QED BY <1>3, <1>4, <1>5 DEF q

\* The daemon reads the oldest event.
LEMMA TracksTail ==
  ASSUME NEW ev \in Seq(Events), ev # <<>>, NEW s, NEW b, Tracks(ev, s, b)
  PROVE  /\ Head(ev).tag = "START" => Tracks(Tail(ev), TRUE, b)
         /\ Head(ev).tag = "STOP" => Tracks(Tail(ev), FALSE, b)
         /\ Head(ev).tag \notin {"START", "STOP"} => Tracks(Tail(ev), s, b)
<1> DEFINE t == Tail(ev)
<1>1. /\ Len(ev) \in Nat /\ Len(ev) > 0 /\ Len(t) = Len(ev) - 1 /\ Head(ev) = ev[1]
      /\ \A i \in 1..Len(t) : t[i] = ev[i + 1]
  OBVIOUS
<1> HIDE DEF t
<1>2. \A i \in DriverEvents(t) : i + 1 \in DriverEvents(ev) /\ t[i] = ev[i + 1]
  BY <1>1 DEF DriverEvents
<1>3. \A i \in DriverEvents(ev) : i = 1 \/ i - 1 \in DriverEvents(t)
  BY <1>1 DEF DriverEvents
<1>4. ASSUME NEW i \in DriverEvents(t), \A j \in DriverEvents(t) : j <= i
      PROVE  (t[i].tag = "START") = b
  <2>1. i \in 1..Len(t)
    BY DEF DriverEvents
  <2>2. \A j \in DriverEvents(ev) : j <= i + 1
    <3> TAKE j \in DriverEvents(ev)
    <3>1. j \in 1..Len(ev)
      BY DEF DriverEvents
    <3> QED BY <1>1, <1>3, <1>4, <2>1, <3>1
  <2> QED BY <1>2, <2>2 DEF Tracks
<1>5. ASSUME DriverEvents(t) = {}, Head(ev).tag \notin {"START", "STOP"}
      PROVE  s = b
  BY <1>1, <1>3, <1>5 DEF Tracks, DriverEvents
<1>6. ASSUME DriverEvents(t) = {}, Head(ev).tag \in {"START", "STOP"}
      PROVE  (Head(ev).tag = "START") = b
  <2>1. 1 \in DriverEvents(ev) /\ \A j \in DriverEvents(ev) : j <= 1
    BY <1>1, <1>3, <1>6 DEF DriverEvents
  <2> QED BY <1>1, <2>1 DEF Tracks
<1> QED BY <1>4, <1>5, <1>6 DEF Tracks, t

\* Destroying a device without a driver says nothing to the daemon.
LEMMA TracksReset ==
  ASSUME NEW ev, NEW s, Tracks(ev, s, FALSE)
  PROVE  Tracks(ev, FALSE, FALSE)
BY DEF Tracks

\* Every step keeps `started` and the unread events in agreement with the driver.
LEMMA TracksStep ==
  ASSUME TypeOK, LoopOK, DeviceOK, StartedTracksDriver, [Next]_vars
  PROVE  StartedTracksDriver'
<1> USE HolderAssumption
<1>1. CASE Poll
  BY <1>1
  DEF StartedTracksDriver, TypeOK, HolderState, holderVars, kernelVars, netVars, proxyVars, Poll
<1>2. CASE AcceptServes
  BY <1>2
  DEF StartedTracksDriver, TypeOK, HolderState, holderVars, kernelVars, netVars, proxyVars,
      AcceptServes
<1>3. CASE AcceptRefuses
  BY <1>3
  DEF StartedTracksDriver, TypeOK, HolderState, holderVars, kernelVars, netVars, proxyVars,
      AcceptRefuses
<1>4. CASE CreateReuses
  BY <1>4
  DEF StartedTracksDriver, TypeOK, HolderState, holderVars, kernelVars, netVars, proxyVars,
      CreateReuses, ReadFrame
<1>5. CASE CreateFails
  <2>1. CASE ~h.uhid
    BY <1>5, <2>1 DEF StartedTracksDriver, TypeOK, HolderState, kernelVars, CreateFails
  <2>2. CASE h.uhid
    <3>1. KDestroy /\ h'.started = FALSE
      BY <1>5, <2>2 DEF CreateFails, TypeOK, HolderState
    <3>2. k'.bound = FALSE
      BY <3>1 DEF KDestroy, Fresh
    <3>3. Tracks(events, h.started, k.bound) /\ events \in Seq(Events) /\ k.bound \in BOOLEAN
      BY <2>2 DEF StartedTracksDriver, TypeOK, Device
    <3>4. CASE k.bound
      <4> DEFINE e == [tag |-> "STOP"]
      <4>1. e \in Events /\ e.tag = "STOP"
        BY Members
      <4>2. events' = Append(events, e)
        BY <3>1, <3>4 DEF KDestroy
      <4>3. Tracks(Append(events, e), FALSE, FALSE)
        BY <3>3, <4>1, TracksAppend
      <4> QED BY <3>1, <3>2, <4>2, <4>3 DEF StartedTracksDriver
    <3>5. CASE ~k.bound
      BY <3>1, <3>2, <3>3, <3>5, TracksReset DEF StartedTracksDriver, KDestroy
    <3> QED BY <3>3, <3>4, <3>5
  <2> QED BY <2>1, <2>2
<1>6. CASE CreateMakes
  BY <1>6, TracksEmpty
  DEF StartedTracksDriver, TypeOK, HolderState, holderVars, kernelVars, netVars, proxyVars,
      CreateMakes, ReadFrame, KCreate, Fresh
<1>7. CASE FrameDestroy
  BY <1>7
  DEF StartedTracksDriver, TypeOK, HolderState, holderVars, kernelVars, netVars, proxyVars,
      FrameDestroy, NewHolder
<1>8. CASE FrameInput
  BY <1>8
  DEF StartedTracksDriver, TypeOK, HolderState, holderVars, kernelVars, netVars, proxyVars,
      FrameInput, ReadFrame, KInput, Device
<1>9. CASE FrameNeutral
  BY <1>9
  DEF StartedTracksDriver, TypeOK, HolderState, holderVars, kernelVars, netVars, proxyVars,
      FrameNeutral, ReadFrame
<1>10. CASE FrameReply
  BY <1>10
  DEF StartedTracksDriver, TypeOK, HolderState, holderVars, kernelVars, netVars, proxyVars,
      FrameReply, ReadFrame, KReply, Device
<1>11. CASE ClientGone
  BY <1>11
  DEF StartedTracksDriver, TypeOK, HolderState, holderVars, kernelVars, netVars, proxyVars,
      ClientGone, KInput, Device
<1>12. CASE EventStart
  BY <1>12, TracksTail
  DEF StartedTracksDriver, TypeOK, HolderState, holderVars, kernelVars, netVars, proxyVars,
      EventStart, ReadEvent
<1>13. CASE EventStop
  BY <1>13, TracksTail
  DEF StartedTracksDriver, TypeOK, HolderState, holderVars, kernelVars, netVars, proxyVars,
      EventStop, ReadEvent
<1>14. CASE EventOutput
  BY <1>14, TracksTail
  DEF StartedTracksDriver, TypeOK, HolderState, holderVars, kernelVars, netVars, proxyVars,
      EventOutput, ReadEvent
<1>15. CASE EventRequest
  BY <1>15, TracksTail
  DEF StartedTracksDriver, TypeOK, HolderState, holderVars, kernelVars, netVars, proxyVars,
      EventRequest, ReadEvent, KReply, Device
<1>16. CASE HolderStops
  BY <1>16
  DEF StartedTracksDriver, TypeOK, HolderState, holderVars, kernelVars, netVars, proxyVars,
      HolderStops, NewHolder
<1>17. CASE HolderStarts
  BY <1>17
  DEF StartedTracksDriver, TypeOK, HolderState, holderVars, kernelVars, netVars, proxyVars,
      HolderStarts
<1>18. CASE DriverBinds
  BY <1>18, TracksAppend, Members
  DEF StartedTracksDriver, TypeOK, HolderState, holderVars, kernelVars, netVars, proxyVars,
      DriverBinds, Device, DeviceOK
<1>19. CASE DriverUnbinds
  BY <1>19, TracksAppend, Members
  DEF StartedTracksDriver, TypeOK, HolderState, holderVars, kernelVars, netVars, proxyVars,
      DriverUnbinds, Device, DeviceOK
<1>20. CASE KernelOutput
  BY <1>20, TracksAppend, Members
  DEF StartedTracksDriver, TypeOK, HolderState, holderVars, kernelVars, netVars, proxyVars,
      KernelOutput
<1>21. CASE KernelGivesUp
  BY <1>21
  DEF StartedTracksDriver, TypeOK, HolderState, holderVars, kernelVars, netVars, proxyVars,
      KernelGivesUp, Device, DeviceOK
<1>22. CASE \E kind \in Kinds : KernelAsks(kind)
  <2> PICK kind \in Kinds : KernelAsks(kind)
    BY <1>22
  <2> DEFINE r == [kind |-> kind, id |-> k.nreq + 1, dev |-> k.dev]
             e == [tag |-> "REQ", req |-> r]
  <2>1. r \in Requests
    BY DEF KernelAsks, TypeOK, Device, Requests
  <2>2. e \in Events /\ e.tag \notin {"START", "STOP"}
    BY <2>1, Members
  <2>3. events' = Append(events, e) /\ h' = h
    BY DEF KernelAsks, holderVars
  <2>4. k'.bound = k.bound
    BY DEF KernelAsks, TypeOK, Device
  <2> HIDE DEF e
  <2>5. h.uhid => Tracks(Append(events, e), h.started, k.bound)
    BY <2>2, TracksAppend DEF StartedTracksDriver, TypeOK
  <2> QED BY <2>3, <2>4, <2>5 DEF StartedTracksDriver
<1>23. CASE \E c \in Conns, s \in Shapes : ProxyConnects(c, s)
  BY <1>23
  DEF StartedTracksDriver, TypeOK, HolderState, holderVars, kernelVars, netVars, proxyVars,
      ProxyConnects
<1>24. CASE \E v \in {"rest", "press"} : ProxyInput(v)
  BY <1>24
  DEF StartedTracksDriver, TypeOK, HolderState, holderVars, kernelVars, netVars, proxyVars,
      ProxyInput
<1>25. CASE ProxyCreates
  BY <1>25
  DEF StartedTracksDriver, TypeOK, HolderState, holderVars, kernelVars, netVars, proxyVars,
      ProxyCreates
<1>26. CASE ProxyArms
  BY <1>26
  DEF StartedTracksDriver, TypeOK, HolderState, holderVars, kernelVars, netVars, proxyVars,
      ProxyArms
<1>27. CASE ProxyReads
  BY <1>27
  DEF StartedTracksDriver, TypeOK, HolderState, holderVars, kernelVars, netVars, proxyVars,
      ProxyReads
<1>28. CASE ProxyLowers
  BY <1>28
  DEF StartedTracksDriver, TypeOK, HolderState, holderVars, kernelVars, netVars, proxyVars,
      ProxyLowers
<1>29. CASE ProxyDrops
  BY <1>29
  DEF StartedTracksDriver, TypeOK, HolderState, holderVars, kernelVars, netVars, proxyVars,
      ProxyDrops
<1>30. CASE UNCHANGED vars
  BY <1>30
  DEF StartedTracksDriver, TypeOK, HolderState, holderVars, kernelVars, netVars, proxyVars, vars
<1> QED
  BY <1>1, <1>2, <1>3, <1>4, <1>5, <1>6, <1>7, <1>8, <1>9, <1>10, <1>11, <1>12, <1>13, <1>14,
     <1>15, <1>16, <1>17, <1>18, <1>19, <1>20, <1>21, <1>22, <1>23, <1>24, <1>25, <1>26, <1>27,
     <1>28, <1>29, <1>30
  DEF Next, HolderStep, KernelStep, ProxyStep

-----------------------------------------------------------------------------

LEMMA InitOK == Init => IInv
BY HolderAssumption, TracksEmpty
   DEF Init, IInv, TypeOK, LoopOK, DeviceOK, KeyOK, StartedTracksDriver, HolderState, NewHolder,
       Device, NoDevice, Fresh

LEMMA NextOK == IInv /\ [Next]_vars => IInv'
BY TypeStep, LoopStep, DeviceStep, KeyStep, TracksStep DEF IInv

\* Every state the daemon, the kernel device and the proxy reach is well typed
\* and satisfies the inductive invariant.
THEOREM Invariance == Spec => []IInv
BY InitOK, NextOK, PTL DEF Spec

\* Type correctness of the holder.
THEOREM Typing == Spec => []TypeOK
BY Invariance, PTL DEF IInv

\* No START or STOP is lost or taken for another device's, however creates,
\* failed creates, destroys and kernel events interleave (frame, uhid_event).
THEOREM StartedAgrees == Spec => []StartedTracksDriver
BY Invariance, PTL DEF IInv

\* What it takes for a step to put "reused" in the served connection's queue.
LEMMA Sent ==
  ASSUME TypeOK, client # None, NewlySent(client, Ack(1))
  PROVE  /\ client \in Conns /\ toP' # toP
         /\ Len(toP'[client]) = Len(toP[client]) + 1 /\ Len(toP[client]) \in Nat
         /\ \A f : SendClient(f) => f = Ack(1)
<1>1. client \in Conns /\ toP[client] \in Seq(ToProxy) /\ Ack(1) \in ToProxy
  BY Members DEF TypeOK
<1>2. toP'[client] = Append(toP[client], Ack(1))
  BY <1>1 DEF NewlySent, TypeOK
<1>3. /\ Len(toP'[client]) = Len(toP[client]) + 1 /\ Len(toP[client]) \in Nat
      /\ toP'[client][Len(toP[client]) + 1] = Ack(1)
  BY <1>1, <1>2
<1>4. toP'[client] # toP[client]
  BY <1>3
<1>5. ASSUME NEW f, SendClient(f)
      PROVE  f = Ack(1)
  <2>1. toP'[client] = Append(toP[client], f)
    BY <1>1, <1>4, <1>5 DEF SendClient, TypeOK
  <2>2. Append(toP[client], f)[Len(toP[client]) + 1] = f
    BY <1>1
  <2> QED BY <1>3, <2>1, <2>2
<1> QED BY <1>1, <1>3, <1>4, <1>5

\* "Reused" is answered for the device of the shape asked for, also when creates
\* fail: if a driver was ever bound to it, it is there or its STOP has still to
\* be read (frame, CREATE; uhid_event, STOP).
THEOREM ReuseIsTheDevice == Spec => ReuseIsLive
<1>1. ASSUME IInv, Next, client # None, NewlySent(client, Ack(1))
      PROVE  /\ k.shape = Head(toH[client]).shape
             /\ k.alive \/ k.binds = 0 \/ StopUnread
  <2> USE <1>1
  <2>1. TypeOK /\ LoopOK /\ DeviceOK /\ KeyOK
    BY DEF IInv
  <2>2. /\ client \in Conns /\ toP' # toP
        /\ Len(toP'[client]) = Len(toP[client]) + 1 /\ Len(toP[client]) \in Nat
        /\ \A f : SendClient(f) => f = Ack(1)
    BY <2>1, Sent
  <2>3. toP'[client] # <<>>
    BY <2>2
  <2>4. CASE CreateReuses
    <3>1. Head(toH[client]).shape \in Shapes
      BY <2>1, <2>4, Payloads, QueueTypes DEF CreateReuses
    <3>2. h.key # None /\ h.key = Head(toH[client]).shape
      BY <2>4, <3>1, HolderAssumption DEF CreateReuses
    <3> QED BY <2>1, <3>2 DEF DeviceOK, KeyOK
  <2>5. ~CreateMakes /\ ~CreateFails /\ ~EventOutput
    <3>1. Ack(0) # Ack(1) /\ Ack(2) # Ack(1) /\ [tag |-> "OUTPUT"] # Ack(1)
      BY DEF Ack
    <3> QED BY <2>2, <3>1 DEF CreateMakes, CreateFails, EventOutput
  <2>6. ~EventRequest
    BY <2>2 DEF EventRequest, Ack
  <2>7. ~AcceptRefuses
    <3> SUFFICES ASSUME AcceptRefuses PROVE FALSE
      OBVIOUS
    <3>1. toP'[client] = toP[client] \/ SendClient([tag |-> "NOTICE"])
      BY <2>1, <2>2 DEF AcceptRefuses, SendClient, TypeOK
    <3> QED BY <2>2, <3>1 DEF Ack
  <2>8. \A c \in Conns, s \in Shapes : ~ProxyConnects(c, s)
    <3> SUFFICES ASSUME NEW c \in Conns, NEW s \in Shapes, ProxyConnects(c, s) PROVE FALSE
      OBVIOUS
    <3>1. toP'[client] = IF c = client THEN <<>> ELSE toP[client]
      BY <2>1, <2>2 DEF ProxyConnects, TypeOK
    <3> QED BY <2>2, <2>3, <3>1
  <2>9. ~HangUp
    BY <2>1, <2>2, <2>3 DEF HangUp, TypeOK
  <2>10. ~ProxyArms /\ ~ProxyReads
    <3> SUFFICES ASSUME ProxyArms \/ ProxyReads PROVE FALSE
      OBVIOUS
    <3>1. conn \in Conns /\ toP[conn] \in Seq(ToProxy)
      BY <2>1 DEF ProxyArms, ProxyReads, LoopOK, TypeOK
    <3>2. toP[conn] # <<>> /\ toP' = [toP EXCEPT ![conn] = Tail(@)]
      BY <2>2 DEF ProxyArms, ProxyReads
    <3>3. Len(Tail(toP[conn])) = Len(toP[conn]) - 1
      BY <3>1, <3>2
    <3>4. toP'[client] = IF conn = client THEN Tail(toP[conn]) ELSE toP[client]
      BY <2>1, <2>2, <3>2 DEF TypeOK
    <3> QED BY <2>2, <3>3, <3>4
  <2>11. CASE HolderStep
    BY <2>2, <2>4, <2>5, <2>6, <2>7, <2>11
       DEF HolderStep, Poll, AcceptServes, FrameDestroy, FrameInput, FrameNeutral, FrameReply,
           ClientGone, EventStart, EventStop, proxyVars, kernelVars, netVars
  <2>12. CASE HolderStops \/ HolderStarts
    BY <2>2, <2>12 DEF HolderStops, HolderStarts, netVars
  <2>13. CASE KernelStep
    BY <2>2, <2>13
       DEF KernelStep, DriverBinds, DriverUnbinds, KernelOutput, KernelGivesUp, KernelAsks, netVars
  <2>14. CASE ProxyStep
    BY <2>2, <2>8, <2>9, <2>10, <2>14
       DEF ProxyStep, ProxyInput, ProxyCreates, ProxyLowers, ProxyDrops
  <2> QED BY <2>11, <2>12, <2>13, <2>14 DEF Next
<1>2. IInv /\ [Next]_vars
        => [client # None /\ NewlySent(client, Ack(1))
              => /\ k.shape = Head(toH[client]).shape
                 /\ k.alive \/ k.binds = 0 \/ StopUnread]_vars
  BY <1>1
<1> QED BY <1>2, Invariance, PTL DEF Spec, ReuseIsLive

-----------------------------------------------------------------------------
(* The queues to the daemon                                                 *)

\* What a session has sent begins with its CREATE, goes on with the report to
\* rest with, and nothing follows a DESTROY.  Any suffix of it may be left.
SessionOK(q) == \A i \in 1..Len(q) :
  /\ q[i].tag = "CREATE" => i = 1
  /\ q[i].tag = "NEUTRAL" => i = 1 \/ (i = 2 /\ q[1].tag = "CREATE")
  /\ q[i].tag = "NEUTRAL" => q[i].shape \in UsbShapes \cup {None}
  /\ i = 2 /\ q[1].tag = "CREATE" => q[i].tag = "NEUTRAL"
  /\ q[i].tag = "DESTROY" => i = Len(q)
  /\ q[i].tag = "NEUTRAL" /\ q[i].shape = None =>
       \A j \in 1..Len(q) : q[j].tag = "INPUT" => q[j].shape \notin UsbShapes

SessionsOK == \A c \in Conns : SessionOK(toH[c])

\* What the present session has sent is of its shape and goes with where it is.
ConnOK == pc # "down" => LET q == toH[conn] IN
  /\ pc = "hello" => q = << >>
  /\ pc = "await" => \A i \in 1..Len(q) : q[i].tag = "CREATE"
  /\ pc = "relay" /\ q # << >> /\ q[1].tag = "CREATE" => Len(q) >= 2
  /\ \A i \in 1..Len(q) :
       /\ q[i].tag # "DESTROY"
       /\ q[i].tag = "NEUTRAL" => q[i].shape = NeutralOf(want)
       /\ q[i].tag = "INPUT" => q[i].shape = want

\* Of a connection that waits to be served nothing has been read.
WaitingOK ==
  /\ client # None => client \in hopen
  /\ \A i \in 1..Len(backlog) : LET b == backlog[i] IN
       /\ b \in hopen /\ b # client
       /\ \A j \in 1..Len(backlog) : backlog[j] = b => i = j
       /\ toH[b] # << >> => toH[b][1].tag = "CREATE"
       /\ pc # "down" /\ conn = b /\ toH[b] = << >> => pc = "hello"

\* The served connection has the opening of its session still to be read.
Opens(q) == q # << >> /\ q[1].tag \in {"CREATE", "NEUTRAL"}

QueueInv == SessionsOK /\ ConnOK /\ WaitingOK

\* What a step does to the queues: nothing, a frame is read, or one is sent.
Quiet ==
  /\ UNCHANGED <<toH, client, backlog, hopen, want>>
  /\ UNCHANGED <<pc, conn>> \/ pc' = "down"

Reads ==
  /\ client \in Conns /\ toH[client] # << >>
  /\ toH' = [toH EXCEPT ![client] = Tail(@)]
  /\ UNCHANGED <<client, backlog, hopen, proxyVars>>

ReadsFrame ==
  \/ CreateReuses \/ CreateFails \/ CreateMakes
  \/ FrameDestroy \/ FrameInput \/ FrameNeutral \/ FrameReply

Continues(f) ==
  \/ pc = "hello" /\ f = [tag |-> "CREATE", shape |-> want]
  \/ pc = "await" /\ f = [tag |-> "NEUTRAL", shape |-> NeutralOf(want)]
  \/ /\ pc = "relay"
     /\ \/ f.tag = "DESTROY"
        \/ f.tag = "INPUT" /\ f.shape = want
        \/ /\ f.tag = "REPLY" /\ toP[conn] # << >>
           /\ Head(toP[conn]).tag = "REQ" /\ f.req = Head(toP[conn]).req

Sends(f) ==
  /\ pc # "down" /\ conn \in hopen /\ Continues(f)
  /\ toH' = [toH EXCEPT ![conn] = Append(@, f)]
  /\ UNCHANGED <<client, backlog, hopen, want>>
  /\ \/ pc' = "down" /\ conn' = None
     \/ /\ conn' = conn /\ f.tag # "DESTROY"
        /\ pc = "hello" => pc' = "await"
        /\ pc \in {"await", "relay"} => pc' = "relay"

\* Reading a frame of a session leaves a session without its beginning.
LEMMA TailKeeps ==
  ASSUME NEW q \in Seq(ToHolder), q # << >>, SessionOK(q)
  PROVE  /\ SessionOK(Tail(q))
         /\ Opens(Tail(q)) => q[1].tag = "CREATE" /\ Tail(q)[1].tag = "NEUTRAL"
         /\ q[1].tag = "CREATE" /\ Tail(q) # << >> => Opens(Tail(q))
         /\ q[1].tag = "DESTROY" => Tail(q) = << >>
         /\ Tail(q) = << >> => Len(q) < 2
         /\ Tail(q) # << >> => Tail(q)[1].tag # "CREATE"
<1> DEFINE t == Tail(q)
<1>0. /\ t \in Seq(ToHolder) /\ Len(q) \in Nat /\ Len(q) > 0 /\ Len(t) = Len(q) - 1
      /\ \A i \in 1..Len(t) : t[i] = q[i + 1]
  OBVIOUS
<1> HIDE DEF t
<1>1. /\ Len(q) \in Nat /\ Len(q) > 0 /\ Len(t) = Len(q) - 1 /\ (t = << >> <=> Len(t) = 0)
      /\ \A i \in 1..Len(t) : t[i] = q[i + 1] /\ i + 1 \in 1..Len(q) /\ i + 1 > 1
  BY <1>0
<1>2. SessionOK(t)
  <2> SUFFICES ASSUME NEW i \in 1..Len(t)
               PROVE  /\ t[i].tag = "CREATE" => i = 1
                      /\ t[i].tag = "NEUTRAL" => i = 1 \/ (i = 2 /\ t[1].tag = "CREATE")
                      /\ t[i].tag = "NEUTRAL" => t[i].shape \in UsbShapes \cup {None}
                      /\ i = 2 /\ t[1].tag = "CREATE" => t[i].tag = "NEUTRAL"
                      /\ t[i].tag = "DESTROY" => i = Len(t)
                      /\ t[i].tag = "NEUTRAL" /\ t[i].shape = None =>
                           \A j \in 1..Len(t) : t[j].tag = "INPUT" => t[j].shape \notin UsbShapes
    BY DEF SessionOK
  <2>1. t[i] = q[i + 1] /\ i + 1 \in 1..Len(q) /\ i + 1 > 1 /\ i \in Nat
    BY <1>1
  <2>2. t[i].tag # "CREATE"
    BY <2>1 DEF SessionOK
  <2>3. t[1].tag # "CREATE"
    <3>1. 1 \in 1..Len(t)
      BY <1>1, <2>1
    <3>2. t[1] = q[1 + 1] /\ 1 + 1 \in 1..Len(q)
      BY <1>1, <3>1
    <3> QED BY <3>2 DEF SessionOK
  <2>4. t[i].tag = "NEUTRAL" => i = 1 /\ t[i].shape \in UsbShapes \cup {None}
    <3>1. t[i].tag = "NEUTRAL" => i + 1 = 2 /\ t[i].shape \in UsbShapes \cup {None}
      BY <2>1 DEF SessionOK
    <3> QED BY <2>1, <3>1
  <2>5. t[i].tag = "DESTROY" => i = Len(t)
    <3>1. t[i].tag = "DESTROY" => i + 1 = Len(q)
      BY <2>1 DEF SessionOK
    <3> QED BY <1>1, <2>1, <3>1
  <2>6. ASSUME t[i].tag = "NEUTRAL", t[i].shape = None, NEW j \in 1..Len(t), t[j].tag = "INPUT"
        PROVE  t[j].shape \notin UsbShapes
    <3>1. t[j] = q[j + 1] /\ j + 1 \in 1..Len(q)
      BY <1>1
    <3> QED BY <2>1, <2>6, <3>1 DEF SessionOK
  <2> QED BY <2>2, <2>3, <2>4, <2>5, <2>6
<1>3. t # << >> => 2 \in 1..Len(q) /\ t[1] = q[2]
  BY <1>1
<1>4. t # << >> => t[1].tag # "CREATE" /\ (t[1].tag = "NEUTRAL" <=> q[1].tag = "CREATE")
  <2>1. SUFFICES ASSUME t # << >> PROVE q[2].tag # "CREATE" /\ (q[2].tag = "NEUTRAL" <=> q[1].tag = "CREATE")
    BY <1>3
  <2>2. 2 \in 1..Len(q)
    BY <1>3, <2>1
  <2> QED BY <2>2 DEF SessionOK
<1>5. q[1].tag = "DESTROY" => t = << >>
  BY <1>1 DEF SessionOK
<1>6. t = << >> => Len(q) < 2
  <2>1. ASSUME t = << >> PROVE Len(q) < 2
    <3>1. Len(q) - 1 = 0
      BY <1>1, <2>1
    <3>2. Len(q) \in Nat
      BY <1>1
    <3>3. \A n \in Nat : n - 1 = 0 => n < 2
      OBVIOUS
    <3> QED BY <3>1, <3>2, <3>3
  <2> QED BY <2>1
<1> QED BY <1>2, <1>4, <1>5, <1>6 DEF Opens, t

\* What the proxy sends at each point of its session continues it.
LEMMA AppendKeeps ==
  ASSUME TypeOK, LoopOK, SessionsOK, ConnOK, pc # "down", NEW f \in ToHolder,
         Continues(f)
  PROVE  LET q == Append(toH[conn], f) IN
         /\ SessionOK(q)
         /\ pc = "relay" /\ q[1].tag = "CREATE" => Len(q) >= 2
         /\ pc = "hello" => q[1].tag = "CREATE" /\ Len(q) = 1
         /\ pc = "await" => Len(q) = 1 \/ (Len(q) = 2 /\ q[1].tag = "CREATE")
         /\ Opens(toH[conn]) => Opens(q)
         /\ Opens(q) => Opens(toH[conn]) \/ pc \in {"hello", "await"}
         /\ pc \in {"hello", "await"} => Opens(q)
         /\ \A i \in 1..Len(q) : q[i] = f \/ (i \in 1..Len(toH[conn]) /\ q[i] = toH[conn][i])
<1> DEFINE p == toH[conn]
           q == Append(p, f)
           n == Len(p)
<1> USE HolderAssumption
<1> USE DEF Continues
<1>1. conn \in Conns /\ p \in Seq(ToHolder) /\ want \in Shapes
  BY DEF TypeOK, LoopOK
<1>2. /\ n \in Nat /\ Len(q) = n + 1 /\ q[n + 1] = f /\ q # << >> /\ (p = << >> <=> n = 0)
      /\ \A i \in 1..n : q[i] = p[i]
  BY <1>1
<1>3. SessionOK(p)
  BY <1>1 DEF SessionsOK
<1> HIDE DEF q
<1>4. /\ pc = "hello" => p = << >>
      /\ pc = "await" => \A i \in 1..n : p[i].tag = "CREATE"
      /\ pc = "relay" /\ p # << >> /\ p[1].tag = "CREATE" => n >= 2
      /\ \A i \in 1..n : /\ p[i].tag # "DESTROY"
                         /\ p[i].tag = "NEUTRAL" => p[i].shape = NeutralOf(want)
                         /\ p[i].tag = "INPUT" => p[i].shape = want
  BY DEF ConnOK
<1>12. n \in Nat /\ n = Len(p)
  BY <1>2
<1> HIDE DEF p, n
<1>5. pc = "await" => n = 0 \/ (n = 1 /\ p[1].tag = "CREATE")
  <2> SUFFICES ASSUME pc = "await" PROVE n = 0 \/ (n = 1 /\ p[1].tag = "CREATE")
    OBVIOUS
  <2>1. \A i \in 1..n : i = 1 /\ p[i].tag = "CREATE"
    BY <1>3, <1>4, <1>12 DEF SessionOK
  <2>2. n = 0 \/ (n \in 1..n /\ 1 \in 1..n)
    BY <1>12
  <2>3. CASE n = 0
    BY <2>3
  <2>4. CASE n \in 1..n /\ 1 \in 1..n
    <3>1. n = 1 /\ p[1].tag = "CREATE"
      BY <2>1, <2>4
    <3> QED BY <3>1
  <2> QED BY <2>2, <2>3, <2>4
<1>6. \A i \in 1..Len(q) : (i \in 1..n /\ q[i] = p[i]) \/ (i = n + 1 /\ q[i] = f)
  BY <1>2
<1>7. p # << >> => q[1] = p[1] /\ 1 \in 1..n
  BY <1>2
<1>8. p = << >> => q[1] = f
  BY <1>2
<1>9. CASE pc = "hello"
  <2>1. p = << >> /\ n = 0 /\ Len(q) = 1 /\ q[1] = f /\ f.tag = "CREATE"
    BY <1>2, <1>4, <1>9
  <2>2. SessionOK(q)
    BY <2>1 DEF SessionOK
  <2> QED BY <1>6, <1>9, <2>1, <2>2, <1>2 DEF Opens, p, q, n
<1>10. CASE pc = "await"
  <2>1. f.tag = "NEUTRAL" /\ f.shape = NeutralOf(want) /\ NeutralOf(want) \in UsbShapes \cup {None}
    BY <1>10 DEF NeutralOf
  <2>2. CASE n = 0
    <3>1. SessionOK(q)
      BY <1>2, <2>1, <2>2 DEF SessionOK
    <3>2. q[1] = f /\ Len(q) = 1 /\ q # << >>
      BY <1>2, <2>2
    <3>3. \A i \in 1..Len(q) : q[i] = f
      BY <3>2
    <3>4. Opens(q)
      BY <2>1, <3>2 DEF Opens
    <3> QED BY <1>10, <3>1, <3>2, <3>3, <3>4 DEF p, q
  <2>3. CASE n = 1 /\ p[1].tag = "CREATE"
    <3>1. Len(q) = 2 /\ q[1] = p[1] /\ q[2] = f
      BY <1>2, <2>3
    <3>2. SessionOK(q)
      <4>1. \A i \in 1..Len(q) : (i = 1 /\ q[i].tag = "CREATE") \/ (i = 2 /\ q[i] = f)
        <5> TAKE i \in 1..Len(q)
        <5>1. i = 1 \/ i = 2
          BY <3>1
        <5> QED BY <2>3, <3>1, <5>1
      <4> QED BY <2>1, <2>3, <3>1, <4>1 DEF SessionOK
    <3> QED BY <1>2, <1>6, <1>10, <2>3, <3>1, <3>2 DEF Opens, p, q, n
  <2> QED BY <1>5, <1>10, <2>2, <2>3
<1>11. CASE pc = "relay"
  <2>1. f.tag \in {"REPLY", "DESTROY", "INPUT"} /\ (f.tag = "INPUT" => f.shape = want)
    BY <1>11
  <2>2. q[1].tag = "CREATE" => p # << >> /\ p[1].tag = "CREATE" /\ n >= 2
    BY <1>4, <1>7, <1>8, <1>11, <2>1
  <2>3. Opens(q) <=> Opens(p)
    BY <1>2, <1>7, <1>8, <2>1 DEF Opens
  <2>4. SessionOK(q)
    <3>1. \A i \in 1..n : q[i].tag = "NEUTRAL" /\ q[i].shape = None => want \notin UsbShapes
      BY <1>2, <1>4 DEF NeutralOf
    <3> SUFFICES ASSUME NEW i \in 1..Len(q)
                 PROVE  /\ q[i].tag = "CREATE" => i = 1
                        /\ q[i].tag = "NEUTRAL" => i = 1 \/ (i = 2 /\ q[1].tag = "CREATE")
                        /\ q[i].tag = "NEUTRAL" => q[i].shape \in UsbShapes \cup {None}
                        /\ i = 2 /\ q[1].tag = "CREATE" => q[i].tag = "NEUTRAL"
                        /\ q[i].tag = "DESTROY" => i = Len(q)
                        /\ q[i].tag = "NEUTRAL" /\ q[i].shape = None =>
                             \A j \in 1..Len(q) : q[j].tag = "INPUT" => q[j].shape \notin UsbShapes
      BY DEF SessionOK
    <3>2. CASE i = n + 1
      BY <1>2, <2>1, <2>2, <3>2
    <3>3. CASE i \in 1..n
      <4>1. q[i] = p[i] /\ q[1] = p[1]
        BY <1>2, <3>3
      <4>2. /\ q[i].tag = "CREATE" => i = 1
            /\ q[i].tag = "NEUTRAL" => i = 1 \/ (i = 2 /\ q[1].tag = "CREATE")
            /\ q[i].tag = "NEUTRAL" => q[i].shape \in UsbShapes \cup {None}
            /\ i = 2 /\ q[1].tag = "CREATE" => q[i].tag = "NEUTRAL"
        BY <1>3, <3>3, <4>1 DEF SessionOK, n
      <4>3. q[i].tag # "DESTROY"
        BY <1>4, <3>3, <4>1
      <4>4. ASSUME q[i].tag = "NEUTRAL", q[i].shape = None, NEW j \in 1..Len(q), q[j].tag = "INPUT"
            PROVE  q[j].shape \notin UsbShapes
        <5>1. want \notin UsbShapes
          BY <3>1, <3>3, <4>4
        <5>2. q[j].shape = want
          BY <1>4, <1>6, <2>1, <4>4
        <5> QED BY <5>1, <5>2
      <4> QED BY <4>2, <4>3, <4>4
    <3> QED BY <1>6, <3>2, <3>3
  <2> QED BY <1>2, <1>6, <1>11, <2>2, <2>3, <2>4 DEF p, q, n
<1> QED BY <1>9, <1>10, <1>11

\* There is no other kind of step.
LEMMA QueueSteps ==
  ASSUME TypeOK, LoopOK, [Next]_vars
  PROVE  \/ Quiet \/ (Reads /\ ReadsFrame) \/ (\E f \in ToHolder : Sends(f))
         \/ AcceptServes \/ AcceptRefuses \/ ClientGone \/ HolderStops
         \/ \E c \in Conns, s \in Shapes : ProxyConnects(c, s)
<1>1. CASE \/ CreateReuses \/ CreateFails \/ CreateMakes
           \/ FrameInput \/ FrameNeutral \/ FrameReply
  <2>1. \E t : ReadFrame(t)
    BY <1>1 DEF CreateReuses, CreateFails, CreateMakes, FrameInput, FrameNeutral, FrameReply
  <2>2. Reads
    BY <2>1, QueueTypes DEF ReadFrame, Reads
  <2> QED BY <1>1, <2>2 DEF ReadsFrame
<1>2. CASE FrameDestroy
  BY <1>2 DEF FrameDestroy, Reads, ReadsFrame, TypeOK, LoopOK
<1>3. CASE ProxyCreates
  <2> DEFINE f == [tag |-> "CREATE", shape |-> want]
  <2>1. f \in ToHolder /\ Sends(f)
    BY <1>3, Members DEF ProxyCreates, ProxySends, Sends, Continues, TypeOK, holderVars
  <2> QED BY <2>1
<1>4. CASE ProxyArms
  <2> DEFINE f == [tag |-> "NEUTRAL", shape |-> NeutralOf(want)]
  <2>1. f \in ToHolder
    BY Members DEF NeutralOf, TypeOK
  <2>2. Sends(f)
    BY <1>4 DEF ProxyArms, ProxySends, Sends, Continues, holderVars
  <2> QED BY <2>1, <2>2
<1>5. CASE \E v \in {"rest", "press"} : ProxyInput(v)
  <2> PICK v \in {"rest", "press"} : ProxyInput(v)
    BY <1>5
  <2> DEFINE f == [tag |-> "INPUT", shape |-> want, val |-> v]
  <2>1. f \in ToHolder
    BY Members DEF TypeOK
  <2>2. Sends(f)
    BY DEF ProxyInput, ProxySends, Sends, Continues, holderVars, proxyVars
  <2> QED BY <2>1, <2>2
<1>6. CASE ProxyReads
  <2> DEFINE f == [tag |-> "REPLY", req |-> Head(toP[conn]).req]
  <2>1. CASE Head(toP[conn]).tag = "REQ"
    <3>1. Head(toP[conn]) \in ToProxy
      BY <1>6 DEF ProxyReads, TypeOK, LoopOK
    <3>2. f \in ToHolder
      BY <2>1, <3>1, Members, Payloads
    <3>3. Sends(f)
      BY <1>6, <2>1 DEF ProxyReads, ProxySends, Sends, Continues, holderVars, proxyVars
    <3> QED BY <3>2, <3>3
  <2>2. CASE Head(toP[conn]).tag # "REQ"
    BY <1>6, <2>2 DEF ProxyReads, Quiet, holderVars, proxyVars
  <2> QED BY <2>1, <2>2
<1>7. CASE ProxyLowers
  <2> DEFINE f == [tag |-> "DESTROY"]
  <2>1. f \in ToHolder
    BY Members
  <2>2. Sends(f)
    BY <1>7 DEF ProxyLowers, ProxySends, HangUp, Sends, Continues, holderVars
  <2> QED BY <2>1, <2>2
<1>8. CASE Poll \/ EventStart \/ EventStop \/ EventOutput \/ EventRequest
  BY <1>8 DEF Poll, EventStart, EventStop, EventOutput, EventRequest, ReadEvent, Quiet,
              netVars, proxyVars
<1>9. CASE \/ HolderStarts \/ DriverBinds \/ DriverUnbinds \/ KernelOutput \/ KernelGivesUp
           \/ \E kind \in Kinds : KernelAsks(kind)
  BY <1>9 DEF HolderStarts, DriverBinds, DriverUnbinds, KernelOutput, KernelGivesUp, KernelAsks,
              Quiet, holderVars, netVars, proxyVars
<1>10. CASE ProxyDrops \/ UNCHANGED vars
  BY <1>10 DEF ProxyDrops, HangUp, Quiet, vars, holderVars, netVars, proxyVars
<1> QED
  BY <1>1, <1>2, <1>3, <1>4, <1>5, <1>6, <1>7, <1>8, <1>9, <1>10
  DEF Next, HolderStep, KernelStep, ProxyStep

\* The queue that is touched, and the others.
LEMMA QueueOf ==
  ASSUME TypeOK, LoopOK
  PROVE  /\ Reads => /\ toH'[client] = Tail(toH[client])
                     /\ \A c \in Conns : c # client => toH'[c] = toH[c]
         /\ \A f : Sends(f) => /\ conn \in Conns /\ toH'[conn] = Append(toH[conn], f)
                               /\ \A c \in Conns : c # conn => toH'[c] = toH[c]
         /\ \A c \in Conns, s \in Shapes : ProxyConnects(c, s) =>
              /\ toH'[c] = << >>
              /\ \A d \in Conns : d # c => toH'[d] = toH[d]
         /\ AcceptRefuses => /\ Head(backlog) \in Conns /\ toH'[Head(backlog)] = << >>
                             /\ \A c \in Conns : c # Head(backlog) => toH'[c] = toH[c]
<1>0. toH \in [Conns -> Seq(ToHolder)]
  BY DEF TypeOK
<1>1. Reads => /\ toH'[client] = Tail(toH[client])
               /\ \A c \in Conns : c # client => toH'[c] = toH[c]
  BY <1>0 DEF Reads
<1>2. ASSUME NEW f, Sends(f)
      PROVE  /\ conn \in Conns /\ toH'[conn] = Append(toH[conn], f)
             /\ \A c \in Conns : c # conn => toH'[c] = toH[c]
  <2>1. conn \in Conns
    BY <1>2 DEF Sends, TypeOK, LoopOK
  <2> QED BY <1>0, <1>2, <2>1 DEF Sends
<1>3. \A c \in Conns, s \in Shapes : ProxyConnects(c, s) =>
        /\ toH'[c] = << >>
        /\ \A d \in Conns : d # c => toH'[d] = toH[d]
  BY <1>0 DEF ProxyConnects
<1>4. AcceptRefuses => /\ Head(backlog) \in Conns /\ toH'[Head(backlog)] = << >>
                       /\ \A c \in Conns : c # Head(backlog) => toH'[c] = toH[c]
  <2> SUFFICES ASSUME AcceptRefuses
               PROVE  /\ Head(backlog) \in Conns /\ toH'[Head(backlog)] = << >>
                      /\ \A c \in Conns : c # Head(backlog) => toH'[c] = toH[c]
    OBVIOUS
  <2>1. Head(backlog) \in Conns
    BY DEF AcceptRefuses, TypeOK, LoopOK
  <2>2. toH' = [toH EXCEPT ![Head(backlog)] = << >>]
    BY DEF AcceptRefuses
  <2> QED BY <1>0, <2>1, <2>2
<1> QED BY <1>1, <1>2, <1>3, <1>4

\* Every step keeps the order of the frames of a session.
LEMMA SessionsStep ==
  ASSUME TypeOK, LoopOK, SessionsOK, ConnOK, [Next]_vars
  PROVE  SessionsOK'
<1>1. SessionOK(<< >>)
  BY DEF SessionOK
<1>2. CASE Quiet \/ AcceptServes \/ ClientGone
  BY <1>2 DEF Quiet, AcceptServes, ClientGone, SessionsOK
<1>3. CASE Reads
  <2>1. client \in Conns /\ toH[client] \in Seq(ToHolder) /\ toH[client] # << >>
    BY <1>3 DEF Reads, TypeOK
  <2>2. SessionOK(Tail(toH[client]))
    BY <2>1, TailKeeps DEF SessionsOK
  <2> QED BY <1>3, <2>2, QueueOf DEF SessionsOK
<1>4. CASE \E f \in ToHolder : Sends(f)
  <2> PICK f \in ToHolder : Sends(f)
    BY <1>4
  <2>1. SessionOK(Append(toH[conn], f))
    BY AppendKeeps DEF Sends
  <2> QED BY <2>1, QueueOf DEF SessionsOK
<1>5. CASE AcceptRefuses
  BY <1>1, <1>5, QueueOf DEF SessionsOK
<1>6. CASE HolderStops
  BY <1>1, <1>6 DEF HolderStops, SessionsOK
<1>7. CASE \E c \in Conns, s \in Shapes : ProxyConnects(c, s)
  BY <1>1, <1>7, QueueOf DEF SessionsOK
<1> QED BY <1>2, <1>3, <1>4, <1>5, <1>6, <1>7, QueueSteps

\* Every step keeps the proxy's session and its queue in agreement.
LEMMA ConnStep ==
  ASSUME TypeOK, LoopOK, SessionsOK, ConnOK, [Next]_vars
  PROVE  ConnOK'
<1>1. ASSUME UNCHANGED <<pc, conn, want>>, pc # "down", toH'[conn] = toH[conn] PROVE ConnOK'
  BY <1>1 DEF ConnOK, NeutralOf
<1>2. ASSUME UNCHANGED <<pc, conn, want>>, pc # "down", toH'[conn] = << >> PROVE ConnOK'
  BY <1>2 DEF ConnOK
<1>3. ASSUME pc' = "down" PROVE ConnOK'
  BY <1>3 DEF ConnOK
<1>4. pc # "down" => conn \in Conns /\ toH[conn] \in Seq(ToHolder)
  BY DEF TypeOK, LoopOK
<1>5. CASE Quiet
  BY <1>1, <1>3, <1>5 DEF Quiet
<1>6. CASE AcceptServes \/ ClientGone
  BY <1>1, <1>3, <1>6 DEF AcceptServes, ClientGone, proxyVars
<1>7. CASE Reads
  <2>1. UNCHANGED <<pc, conn, want>>
    BY <1>7 DEF Reads, proxyVars
  <2>2. CASE pc # "down" /\ conn # client
    BY <1>1, <1>4, <1>7, <2>1, <2>2, QueueOf
  <2>3. CASE pc # "down" /\ conn = client
    <3> DEFINE q == toH[conn]
               t == Tail(q)
    <3>1. q \in Seq(ToHolder) /\ q # << >> /\ SessionOK(q) /\ toH'[conn] = t
      BY <1>4, <1>7, <2>3, QueueOf DEF Reads, SessionsOK
    <3>2. \A i \in 1..Len(t) : t[i] = q[i + 1] /\ i + 1 \in 1..Len(q)
      BY <3>1
    <3>3. t # << >> => t[1].tag # "CREATE"
      BY <3>1, TailKeeps
    <3>4. pc # "hello"
      BY <2>3, <3>1 DEF ConnOK
    <3>5. pc = "await" => \A i \in 1..Len(t) : t[i].tag = "CREATE"
      BY <2>3, <3>2 DEF ConnOK
    <3>6. \A i \in 1..Len(t) :
            /\ t[i].tag # "DESTROY"
            /\ t[i].tag = "NEUTRAL" => t[i].shape = NeutralOf(want)
            /\ t[i].tag = "INPUT" => t[i].shape = want
      BY <2>3, <3>2 DEF ConnOK
    <3> HIDE DEF q, t
    <3> QED BY <2>1, <3>1, <3>3, <3>4, <3>5, <3>6 DEF ConnOK, NeutralOf
  <2> QED BY <1>3, <2>1, <2>2, <2>3
<1>8. CASE \E f \in ToHolder : Sends(f)
  <2> PICK f \in ToHolder : Sends(f)
    BY <1>8
  <2>1. CASE pc' = "down"
    BY <1>3, <2>1
  <2>2. CASE pc' # "down"
    <3> DEFINE q == Append(toH[conn], f)
    <3>1. /\ pc # "down" /\ conn' = conn /\ want' = want /\ Continues(f) /\ f.tag # "DESTROY"
          /\ pc = "hello" => pc' = "await"
          /\ pc \in {"await", "relay"} => pc' = "relay"
          /\ toH'[conn] = q
      BY <2>2, QueueOf DEF Sends
    <3>2. /\ pc = "relay" /\ q[1].tag = "CREATE" => Len(q) >= 2
          /\ pc = "hello" => q[1].tag = "CREATE" /\ Len(q) = 1
          /\ pc = "await" => Len(q) = 1 \/ (Len(q) = 2 /\ q[1].tag = "CREATE")
          /\ \A i \in 1..Len(q) : q[i] = f \/ (i \in 1..Len(toH[conn]) /\ q[i] = toH[conn][i])
      BY <3>1, AppendKeeps
    <3>3. pc \in {"hello", "await", "relay"}
      BY <3>1 DEF Continues
    <3> HIDE DEF q
    <3>4. \A i \in 1..Len(q) : /\ q[i].tag # "DESTROY"
                               /\ q[i].tag = "NEUTRAL" => q[i].shape = NeutralOf(want)
                               /\ q[i].tag = "INPUT" => q[i].shape = want
      BY <3>1, <3>2 DEF ConnOK, Continues
    <3>5. pc' = "await" => \A i \in 1..Len(q) : q[i].tag = "CREATE"
      <4> SUFFICES ASSUME pc' = "await", NEW i \in 1..Len(q) PROVE q[i].tag = "CREATE"
        OBVIOUS
      <4>1. pc = "hello"
        BY <3>1, <3>3
      <4>2. i = 1
        BY <3>2, <4>1
      <4> QED BY <3>2, <4>1, <4>2
    <3>6. pc' = "relay" /\ q[1].tag = "CREATE" => Len(q) >= 2
      <4> SUFFICES ASSUME pc' = "relay", q[1].tag = "CREATE" PROVE Len(q) >= 2
        OBVIOUS
      <4>1. CASE pc = "relay"
        BY <3>2, <4>1
      <4>2. CASE pc = "await"
        <5>1. ASSUME Len(q) = 1 PROVE FALSE
          <6>1. f.tag = "NEUTRAL"
            BY <3>1, <4>2 DEF Continues
          <6>2. 1 \in 1..Len(q)
            BY <5>1
          <6>3. 1 \in 1..Len(toH[conn])
            BY <3>2, <6>1, <6>2
          <6>4. Len(q) = Len(toH[conn]) + 1 /\ Len(toH[conn]) \in Nat
            BY <1>4, <3>1 DEF q
          <6> QED BY <5>1, <6>3, <6>4
        <5> QED BY <3>2, <4>2, <5>1
      <4> QED BY <3>1, <3>3, <4>1, <4>2
    <3>7. pc' \in {"await", "relay"}
      BY <3>1, <3>3
    <3> QED BY <3>1, <3>4, <3>5, <3>6, <3>7 DEF ConnOK, NeutralOf
  <2> QED BY <2>1, <2>2
<1>9. CASE AcceptRefuses
  <2>1. UNCHANGED <<pc, conn, want>>
    BY <1>9 DEF AcceptRefuses, proxyVars
  <2> QED BY <1>1, <1>2, <1>3, <1>4, <1>9, <2>1, QueueOf
<1>10. CASE HolderStops
  BY <1>2, <1>3, <1>4, <1>10 DEF HolderStops, proxyVars
<1>11. CASE \E c \in Conns, s \in Shapes : ProxyConnects(c, s)
  <2> PICK c \in Conns, s \in Shapes : ProxyConnects(c, s)
    BY <1>11
  <2>1. pc' = "hello" /\ conn' = c /\ toH'[c] = << >>
    BY QueueOf DEF ProxyConnects
  <2> QED BY <2>1 DEF ConnOK
<1> QED BY <1>5, <1>6, <1>7, <1>8, <1>9, <1>10, <1>11, QueueSteps

\* The same of each connection: it waits once, and what is known of it then.
Waiting(b) == \E i \in 1..Len(backlog) : backlog[i] = b

WaitsUnread(b) ==
  /\ b \in hopen /\ b # client
  /\ toH[b] # << >> => toH[b][1].tag = "CREATE"
  /\ pc # "down" /\ conn = b /\ toH[b] = << >> => pc = "hello"

Once == \A i, j \in 1..Len(backlog) : backlog[i] = backlog[j] => i = j

LEMMA WaitingParts ==
  ASSUME backlog \in Seq(Conns)
  PROVE  WaitingOK <=> /\ client # None => client \in hopen
                       /\ \A b \in Conns : Waiting(b) => WaitsUnread(b)
                       /\ Once
<1>1. \A i \in 1..Len(backlog) : backlog[i] \in Conns
  OBVIOUS
<1> QED BY <1>1 DEF WaitingOK, Waiting, WaitsUnread, Once

\* Every step keeps the connections that wait, and their opening frames.
LEMMA WaitStep ==
  ASSUME TypeOK, LoopOK, TypeOK', SessionsOK, ConnOK, WaitingOK, [Next]_vars
  PROVE  WaitingOK'
<1> USE HolderAssumption
<1>1. /\ client # None => client \in hopen
      /\ \A b \in Conns : Waiting(b) => WaitsUnread(b)
      /\ Once
  BY WaitingParts DEF TypeOK
<1>2. backlog \in Seq(Conns) /\ backlog' \in Seq(Conns)
  BY DEF TypeOK
<1>3. SUFFICES /\ client' # None => client' \in hopen'
               /\ \A b \in Conns : Waiting(b)' => WaitsUnread(b)'
               /\ Once'
  <2>1. \A i \in 1..Len(backlog') : backlog'[i] \in Conns
    BY <1>2
  <2> QED BY <2>1 DEF WaitingOK, Waiting, WaitsUnread, Once
<1>4. ASSUME backlog' = backlog PROVE Once' /\ \A b \in Conns : Waiting(b)' => Waiting(b)
  BY <1>1, <1>4 DEF Once, Waiting
<1>5. CASE Quiet
  <2>1. \A b \in Conns : WaitsUnread(b) => WaitsUnread(b)'
    BY <1>5 DEF Quiet, WaitsUnread
  <2>2. backlog' = backlog /\ client' = client /\ hopen' = hopen
    BY <1>5 DEF Quiet
  <2> QED BY <1>1, <1>4, <2>1, <2>2
<1>6. CASE Reads
  <2>1. UNCHANGED <<client, backlog, hopen, pc, conn, want>>
    BY <1>6 DEF Reads, proxyVars
  <2>2. ASSUME NEW b \in Conns, WaitsUnread(b) PROVE WaitsUnread(b)'
    <3>1. toH'[b] = toH[b]
      BY <1>6, <2>2, QueueOf DEF WaitsUnread
    <3> QED BY <2>1, <2>2, <3>1 DEF WaitsUnread
  <2> QED BY <1>1, <1>4, <2>1, <2>2
<1>7. CASE \E f \in ToHolder : Sends(f)
  <2> PICK f \in ToHolder : Sends(f)
    BY <1>7
  <2>1. UNCHANGED <<client, backlog, hopen>> /\ pc # "down" /\ Continues(f)
    BY DEF Sends
  <2>2. ASSUME NEW b \in Conns, WaitsUnread(b) PROVE WaitsUnread(b)'
    <3>1. CASE b # conn
      <4>1. toH'[b] = toH[b]
        BY <3>1, QueueOf
      <4>2. pc' # "down" => conn' # b
        BY <3>1 DEF Sends
      <4> QED BY <2>1, <2>2, <4>1, <4>2 DEF WaitsUnread
    <3>2. CASE b = conn
      <4>1. toH[b] \in Seq(ToHolder) /\ toH'[b] = Append(toH[b], f)
        BY <3>2, QueueOf DEF TypeOK
      <4>2. toH'[b] # << >>
        BY <4>1
      <4>3. toH[b] = << >> => pc = "hello"
        BY <2>1, <2>2, <3>2 DEF WaitsUnread
      <4>4. toH[b] = << >> => toH'[b][1].tag = "CREATE"
        <5>1. toH[b] = << >> => toH'[b][1] = f
          BY <4>1
        <5>2. pc = "hello" => f.tag = "CREATE"
          BY <2>1 DEF Continues
        <5> QED BY <4>3, <5>1, <5>2
      <4>5. toH[b] # << >> => toH'[b][1] = toH[b][1]
        BY <4>1
      <4> QED BY <2>1, <2>2, <4>2, <4>4, <4>5 DEF WaitsUnread
    <3> QED BY <3>1, <3>2
  <2> QED BY <1>1, <1>4, <2>1, <2>2
<1>8. CASE AcceptServes \/ AcceptRefuses
  <2>1. PICK a \in Conns : a = Head(backlog)
    BY <1>2, <1>8 DEF AcceptServes, AcceptRefuses, LoopOK
  <2>2. /\ backlog # << >> /\ backlog' = Tail(backlog) /\ a = backlog[1]
        /\ UNCHANGED <<pc, conn, want>>
    BY <1>2, <1>8, <2>1 DEF AcceptServes, AcceptRefuses, LoopOK, proxyVars
  <2>3. /\ Len(backlog) \in Nat /\ Len(backlog) > 0 /\ Len(backlog') = Len(backlog) - 1
        /\ \A i \in 1..Len(backlog') : backlog'[i] = backlog[i + 1]
    BY <1>2, <2>2
  <2>4. \A i \in 1..Len(backlog') : i + 1 \in 1..Len(backlog) /\ i + 1 # 1 /\ i \in Nat
    BY <2>3
  <2>5. Once'
    <3> SUFFICES ASSUME NEW i \in 1..Len(backlog'), NEW j \in 1..Len(backlog'),
                        backlog'[i] = backlog'[j]
                 PROVE  i = j
      BY DEF Once
    <3>1. i + 1 = j + 1
      BY <1>1, <2>3, <2>4 DEF Once
    <3> QED BY <2>4, <3>1
  <2>6. 1 \in 1..Len(backlog)
    BY <2>3
  <2>7. WaitsUnread(a)
    BY <1>1, <2>2, <2>6 DEF Waiting
  <2>8. \A b \in Conns : Waiting(b)' => b # a /\ WaitsUnread(b)
    <3> SUFFICES ASSUME NEW b \in Conns, NEW i \in 1..Len(backlog'), backlog'[i] = b
                 PROVE  b # a /\ WaitsUnread(b)
      BY DEF Waiting
    <3>1. backlog[i + 1] = b /\ i + 1 \in 1..Len(backlog) /\ i + 1 # 1
      BY <2>3, <2>4
    <3>2. b # a
      BY <1>1, <2>2, <2>6, <3>1 DEF Once
    <3>3. WaitsUnread(b)
      BY <1>1, <3>1 DEF Waiting
    <3> QED BY <3>2, <3>3
  <2>9. CASE AcceptServes
    <3>1. client' = a /\ hopen' = hopen /\ toH' = toH
      BY <2>1, <2>9 DEF AcceptServes
    <3>2. ASSUME NEW b \in Conns, Waiting(b)' PROVE WaitsUnread(b)'
      <4>1. b # a /\ WaitsUnread(b)
        BY <2>8, <3>2
      <4> QED BY <2>2, <3>1, <4>1 DEF WaitsUnread
    <3>3. client' \in hopen'
      BY <2>7, <3>1 DEF WaitsUnread
    <3> QED BY <2>5, <3>2, <3>3
  <2>10. CASE AcceptRefuses
    <3>1. client' = client /\ hopen' = hopen \ {a} /\ client # None
      BY <2>1, <2>10 DEF AcceptRefuses
    <3>2. ASSUME NEW b \in Conns, Waiting(b)' PROVE WaitsUnread(b)'
      <4>1. b # a /\ WaitsUnread(b)
        BY <2>8, <3>2
      <4>2. toH'[b] = toH[b]
        BY <2>1, <2>10, <4>1, QueueOf
      <4> QED BY <2>2, <3>1, <4>1, <4>2 DEF WaitsUnread
    <3>3. client' \in hopen'
      BY <1>1, <2>7, <3>1 DEF WaitsUnread
    <3> QED BY <2>5, <3>2, <3>3
  <2> QED BY <1>8, <2>9, <2>10
<1>9. CASE ClientGone
  <2>1. client' = None /\ hopen' = hopen \ {client} /\ UNCHANGED <<backlog, toH, pc, conn, want>>
    BY <1>9 DEF ClientGone, proxyVars
  <2>2. \A b \in Conns : WaitsUnread(b) => WaitsUnread(b)'
    BY <2>1 DEF WaitsUnread
  <2> QED BY <1>1, <1>4, <2>1, <2>2
<1>10. CASE HolderStops
  <2>1. client' = None /\ backlog' = << >>
    BY <1>10 DEF HolderStops
  <2>2. 1..Len(backlog') = {}
    BY <2>1
  <2> QED BY <2>1, <2>2 DEF Once, Waiting
<1>11. CASE \E c \in Conns, s \in Shapes : ProxyConnects(c, s)
  <2> PICK c \in Conns, s \in Shapes : ProxyConnects(c, s)
    BY <1>11
  <2>1. /\ c \notin hopen /\ hopen' = hopen \cup {c} /\ backlog' = Append(backlog, c)
        /\ client' = client /\ pc' = "hello" /\ conn' = c
    BY DEF ProxyConnects, holderVars
  <2>2. /\ Len(backlog) \in Nat /\ Len(backlog') = Len(backlog) + 1
        /\ backlog'[Len(backlog) + 1] = c
        /\ \A i \in 1..Len(backlog) : backlog'[i] = backlog[i]
    BY <1>2, <2>1
  <2>3. \A i \in 1..Len(backlog') : i = Len(backlog) + 1 \/ i \in 1..Len(backlog)
    BY <2>2
  <2>4. \A i \in 1..Len(backlog) : backlog[i] # c
    <3> TAKE i \in 1..Len(backlog)
    <3>1. backlog[i] \in Conns /\ Waiting(backlog[i])
      BY <1>2 DEF Waiting
    <3> QED BY <1>1, <2>1, <3>1 DEF WaitsUnread
  <2>5. \A b \in Conns : Waiting(b)' => b = c \/ (b # c /\ WaitsUnread(b))
    BY <1>1, <2>2, <2>3 DEF Waiting
  <2>6. ASSUME NEW b \in Conns, b # c, WaitsUnread(b) PROVE WaitsUnread(b)'
    <3>1. toH'[b] = toH[b]
      BY <2>6, QueueOf
    <3> QED BY <2>1, <2>6, <3>1 DEF WaitsUnread
  <2>7. WaitsUnread(c)'
    <3>1. toH'[c] = << >>
      BY QueueOf
    <3>2. c # client
      BY <1>1, <2>1
    <3> QED BY <2>1, <3>1, <3>2 DEF WaitsUnread
  <2>8. Once'
    <3> SUFFICES ASSUME NEW i \in 1..Len(backlog'), NEW j \in 1..Len(backlog'),
                        backlog'[i] = backlog'[j]
                 PROVE  i = j
      BY DEF Once
    <3> QED BY <1>1, <2>2, <2>3, <2>4 DEF Once
  <2>9. client' # None => client' \in hopen'
    BY <1>1, <2>1
  <2> QED BY <2>5, <2>6, <2>7, <2>8, <2>9
<1> QED BY <1>5, <1>6, <1>7, <1>8, <1>9, <1>10, <1>11, QueueSteps

\* The frame that is read, and what is left of the served queue.
LEMMA ReadFacts ==
  ASSUME TypeOK, LoopOK, SessionsOK, Reads
  PROVE  LET q == toH[client] IN
         /\ client \in Conns /\ client # None
         /\ q \in Seq(ToHolder) /\ q # << >> /\ SessionOK(q)
         /\ Head(q) = q[1] /\ 1 \in 1..Len(q)
         /\ toH'[client] = Tail(q)
         /\ \A i \in 1..Len(Tail(q)) : Tail(q)[i] = q[i + 1] /\ i + 1 \in 1..Len(q)
         /\ UNCHANGED <<client, pc, conn, want>>
<1> DEFINE q == toH[client]
<1>1. client \in Conns /\ q # << >> /\ UNCHANGED <<client, pc, conn, want>>
  BY DEF Reads, proxyVars
<1>2. q \in Seq(ToHolder) /\ SessionOK(q) /\ client # None
  BY <1>1, HolderAssumption DEF TypeOK, SessionsOK
<1>3. Head(q) = q[1] /\ 1 \in 1..Len(q)
  BY <1>1, <1>2
<1>4. \A i \in 1..Len(Tail(q)) : Tail(q)[i] = q[i + 1] /\ i + 1 \in 1..Len(q)
  BY <1>1, <1>2
<1>5. toH'[client] = Tail(q)
  BY QueueOf
<1> QED BY <1>1, <1>2, <1>3, <1>4, <1>5

\* Which frame each action reads; no other action reads one.
LEMMA ReadTags ==
  ASSUME TypeOK, LoopOK
  PROVE  LET tag == Head(toH[client]).tag IN
         /\ CreateReuses \/ CreateFails \/ CreateMakes => Reads /\ tag = "CREATE"
         /\ FrameDestroy => Reads /\ tag = "DESTROY"
         /\ FrameInput => Reads /\ tag = "INPUT"
         /\ FrameNeutral => Reads /\ tag = "NEUTRAL"
         /\ FrameReply => Reads /\ tag = "REPLY"
<1>1. FrameDestroy => Reads /\ Head(toH[client]).tag = "DESTROY"
  BY DEF FrameDestroy, Reads, TypeOK, LoopOK
<1>2. \A t : ReadFrame(t) => Reads /\ Head(toH[client]).tag = t
  BY QueueTypes DEF ReadFrame, Reads
<1> QED
  BY <1>1, <1>2 DEF CreateReuses, CreateFails, CreateMakes, FrameInput, FrameNeutral, FrameReply

\* No queue holds anything at first.
LEMMA QueueInit == Init => QueueInv
BY HolderAssumption DEF Init, QueueInv, SessionsOK, SessionOK, ConnOK, WaitingOK

-----------------------------------------------------------------------------
(* Requests and replies                                                     *)

\* The kernel waits for, and the daemon has yet to read, only requests of the
\* device that is there.
AskedOK ==
  /\ k.asked # None => k.asked.dev = k.dev
  /\ \A i \in 1..Len(events) : events[i].tag = "REQ" => events[i].req.dev = k.dev

\* The proxy's only open end is that of its session.
OpenOK == popen = IF pc = "down" THEN {} ELSE {conn}

\* The proxy's connection is served, or will never be.
Settled == conn = client \/ conn \notin hopen

\* A proxy that waits for its ack relays only once it is served and its CREATE
\* has been read; there is one ack to a session.
AckOK == pc # "down" => LET p == toP[conn]  q == toH[conn] IN
  /\ pc = "relay" => Settled /\ \A i \in 1..Len(q) : q[i].tag # "CREATE"
  /\ \A i \in 1..Len(p) : p[i].tag = "ACK" =>
       /\ pc = "await" /\ q = << >> /\ Settled
       /\ \A j \in 1..Len(p) : p[j].tag = "ACK" => j = i

\* What the proxy will answer was asked by the device that is there.
RequestsOK == pc # "down" /\ conn = client => LET p == toP[conn] IN
  \A i \in 1..Len(p) :
    /\ p[i].tag = "REQ"
    /\ pc = "relay" \/ \E j \in 1..i : p[j].tag = "ACK"
    => p[i].req.dev = k.dev

\* So is what it has answered, and no CREATE is left to make another.
RepliesOK == \A c \in Conns : LET q == toH[c] IN
  \A i \in 1..Len(q) : q[i].tag = "REPLY" =>
    /\ c = client /\ q[i].req.dev = k.dev
    /\ \A j \in 1..Len(q) : q[j].tag # "CREATE"

\* The inductive invariant of the requests and replies.
ReplyInv == IInv /\ QueueInv /\ AskedOK /\ OpenOK /\ AckOK /\ RequestsOK /\ RepliesOK

\* Only a CREATE of another shape brings another device.
LEMMA DevSteps ==
  ASSUME TypeOK, [Next]_vars
  PROVE  CreateMakes \/ k'.dev = k.dev
<1>1. CASE CreateFails \/ FrameDestroy \/ HolderStops
  <2>1. KDestroy \/ KClose \/ k' = k
    BY <1>1 DEF CreateFails, FrameDestroy, HolderStops, kernelVars
  <2> QED BY <2>1 DEF KDestroy, KClose, NoDevice, Fresh
<1>2. CASE \/ k' = k
           \/ \E s, v : KInput(s, v)
           \/ \E r : KReply(r)
  BY <1>2 DEF KInput, KReply, TypeOK, Device
<1>3. CASE DriverBinds \/ DriverUnbinds \/ KernelGivesUp \/ \E kind \in Kinds : KernelAsks(kind)
  BY <1>3, Zenon DEF DriverBinds, DriverUnbinds, KernelGivesUp, KernelAsks, TypeOK, Device
<1> QED
  BY <1>1, <1>2, <1>3
  DEF Next, HolderStep, KernelStep, ProxyStep, Poll, AcceptServes, AcceptRefuses, CreateReuses,
      FrameInput, FrameNeutral, FrameReply, ClientGone, EventStart, EventStop, EventOutput,
      EventRequest, HolderStarts, KernelOutput, ProxyConnects, ProxyInput, ProxyCreates,
      ProxyArms, ProxyReads, ProxyLowers, ProxyDrops, holderVars, kernelVars, vars

\* Every step keeps the requests with their device.
LEMMA AskedStep ==
  ASSUME TypeOK, AskedOK, [Next]_vars
  PROVE  AskedOK'
<1> DEFINE FromOld == \A i \in 1..Len(events') :
                        \/ events'[i].tag # "REQ"
                        \/ \E j \in 1..Len(events) : events'[i] = events[j]
<1>0. events \in Seq(Events)
  BY DEF TypeOK
<1>1. ASSUME k'.dev = k.dev, k'.asked \in {k.asked, None}, FromOld
      PROVE  AskedOK'
  BY <1>1 DEF AskedOK
<1>2. ASSUME events' = events PROVE FromOld
  BY <1>2
<1>3. ASSUME NEW e, e.tag # "REQ", events' = Append(events, e) PROVE FromOld
  <2>1. \A i \in 1..Len(events') : events'[i] = e
          \/ (i \in 1..Len(events) /\ events'[i] = events[i])
    BY <1>0, <1>3
  <2> QED BY <1>3, <2>1
<1>4. ASSUME NEW t, ReadEvent(t) PROVE FromOld
  <2>1. \A i \in 1..Len(events') : i + 1 \in 1..Len(events) /\ events'[i] = events[i + 1]
    BY <1>0, <1>4 DEF ReadEvent
  <2> QED BY <2>1
<1>5. ASSUME events' = << >> PROVE FromOld
  BY <1>5
<1> HIDE DEF FromOld
<1>6. CASE CreateMakes
  BY <1>6 DEF CreateMakes, KCreate, Fresh, AskedOK
<1>7. CASE FrameDestroy \/ HolderStops
  BY <1>1, <1>5, <1>7 DEF FrameDestroy, HolderStops, KClose, NoDevice, Fresh
<1>8. CASE CreateFails
  <2>1. CASE KDestroy
    <3>1. k'.dev = k.dev /\ k'.asked = None
      BY <2>1 DEF KDestroy, Fresh
    <3>2. FromOld
      <4>1. [tag |-> "STOP"].tag # "REQ"
        OBVIOUS
      <4> QED BY <1>2, <1>3, <2>1, <4>1 DEF KDestroy
    <3> QED BY <1>1, <3>1, <3>2
  <2>2. CASE UNCHANGED kernelVars
    BY <1>1, <1>2, <2>2 DEF kernelVars
  <2> QED BY <1>8, <2>1, <2>2 DEF CreateFails
<1>9. CASE UNCHANGED events /\ (k' = k \/ (\E s, v : KInput(s, v)) \/ \E r : KReply(r))
  BY <1>1, <1>2, <1>9 DEF KInput, KReply, TypeOK, Device
<1>10. CASE (\E t : ReadEvent(t)) /\ (k' = k \/ \E r : KReply(r))
  <2>1. k'.dev = k.dev /\ k'.asked \in {k.asked, None}
    BY <1>10 DEF KReply, TypeOK, Device
  <2> QED BY <1>1, <1>4, <1>10, <2>1
<1>11. CASE DriverBinds
  <2>1. k'.dev = k.dev /\ k'.asked = k.asked
    BY <1>11 DEF DriverBinds, TypeOK, Device
  <2>2. FromOld
    BY <1>3, <1>11 DEF DriverBinds
  <2> QED BY <1>1, <2>1, <2>2
<1>12. CASE DriverUnbinds
  <2>1. k'.dev = k.dev /\ k'.asked = None
    BY <1>12 DEF DriverUnbinds, TypeOK, Device
  <2>2. FromOld
    BY <1>3, <1>12 DEF DriverUnbinds
  <2> QED BY <1>1, <2>1, <2>2
<1>13. CASE KernelOutput
  <2>1. FromOld
    BY <1>3, <1>13 DEF KernelOutput
  <2> QED BY <1>1, <1>13, <2>1 DEF KernelOutput
<1>14. CASE KernelGivesUp
  BY <1>1, <1>2, <1>14 DEF KernelGivesUp, TypeOK, Device
<1>15. CASE \E kind \in Kinds : KernelAsks(kind)
  <2> PICK kind \in Kinds : KernelAsks(kind)
    BY <1>15
  <2> DEFINE r == [kind |-> kind, id |-> k.nreq + 1, dev |-> k.dev]
             e == [tag |-> "REQ", req |-> r]
  <2>1. r.dev = k.dev /\ e.req = r
    OBVIOUS
  <2>2. k'.asked = r /\ k'.dev = k.dev /\ events' = Append(events, e)
    BY DEF KernelAsks, TypeOK, Device
  <2> HIDE DEF r, e
  <2>3. \A i \in 1..Len(events') : events'[i] = e
          \/ (i \in 1..Len(events) /\ events'[i] = events[i])
    BY <1>0, <2>2
  <2> QED BY <2>1, <2>2, <2>3 DEF AskedOK
<1> QED
  BY <1>6, <1>7, <1>8, <1>9, <1>10, <1>11, <1>12, <1>13, <1>14, <1>15
  DEF Next, HolderStep, KernelStep, ProxyStep, Poll, AcceptServes, AcceptRefuses, CreateReuses,
      FrameInput, FrameNeutral, FrameReply, ClientGone, EventStart, EventStop, EventOutput,
      EventRequest, HolderStarts, ProxyConnects, ProxyInput, ProxyCreates,
      ProxyArms, ProxyReads, ProxyLowers, ProxyDrops, holderVars, kernelVars, vars

\* The proxy's only open end is that of its session.
LEMMA OpenStep ==
  ASSUME TypeOK, LoopOK, OpenOK, [Next]_vars
  PROVE  OpenOK'
<1>1. CASE \E c \in Conns, s \in Shapes : ProxyConnects(c, s)
  BY <1>1 DEF OpenOK, ProxyConnects
<1>2. CASE HangUp
  BY <1>2 DEF OpenOK, HangUp
<1>3. CASE UNCHANGED <<popen, conn>> /\ (pc' = pc \/ (pc # "down" /\ pc' # "down"))
  BY <1>3 DEF OpenOK
<1> QED
  BY <1>1, <1>2, <1>3
  DEF Next, HolderStep, KernelStep, ProxyStep, Poll, AcceptServes, AcceptRefuses, CreateReuses,
      CreateFails, CreateMakes, FrameDestroy, HolderStops, DriverBinds, DriverUnbinds,
      KernelGivesUp, KernelAsks, ReadFrame, ReadEvent,
      FrameInput, FrameNeutral, FrameReply, ClientGone, EventStart, EventStop, EventOutput,
      EventRequest, HolderStarts, KernelOutput, ProxyInput, ProxyCreates,
      ProxyArms, ProxyReads, ProxyLowers, ProxyDrops, netVars, proxyVars, vars

\* What happens to the frames on their way to the proxy: nothing, the daemon adds
\* one, or the proxy takes one.
Keeps == toP'[conn] = toP[conn] /\ ~ProxyArms /\ (k'.dev = k.dev \/ conn # client)

Answers(f) ==
  /\ toP'[conn] = Append(toP[conn], f)
  /\ pc' = pc /\ client' = client
  /\ \/ f.tag \notin {"ACK", "REQ"} /\ k'.dev = k.dev
     \/ /\ f.tag = "REQ" /\ k'.dev = k.dev
        /\ events # << >> /\ f = Head(events)
     \/ /\ f.tag = "ACK" /\ client = conn
        /\ CreateReuses \/ CreateFails \/ CreateMakes

Takes ==
  /\ toP[conn] # << >> /\ toP'[conn] = Tail(toP[conn])
  /\ client' = client /\ k' = k
  /\ \/ ProxyArms /\ Head(toP[conn]).tag = "ACK"
     \/ pc = "relay" /\ pc' = "relay"

\* There is no other kind of step for a proxy that waits for its ack.
LEMMA ToProxySteps ==
  ASSUME Waits, TypeOK, LoopOK, OpenOK, [Next]_vars, pc # "down", pc' # "down"
  PROVE  /\ conn \in Conns /\ toP[conn] \in Seq(ToProxy)
         /\ conn' = conn
         /\ Keeps \/ Takes \/ \E f : Answers(f)
<1>1. conn \in Conns /\ toP[conn] \in Seq(ToProxy) /\ toP \in [Conns -> Seq(ToProxy)]
  BY DEF TypeOK, LoopOK
<1>2. popen = {conn}
  BY DEF OpenOK
<1>3. conn' = conn
  BY DEF Next, HolderStep, KernelStep, ProxyStep, Poll, AcceptServes, AcceptRefuses, CreateReuses,
      CreateFails, CreateMakes, FrameDestroy, HolderStops, DriverBinds, DriverUnbinds,
      KernelGivesUp, KernelAsks, ReadFrame, ReadEvent,
      FrameInput, FrameNeutral, FrameReply, ClientGone, EventStart, EventStop, EventOutput,
      EventRequest, HolderStarts, KernelOutput, ProxyInput, ProxyCreates, ProxyConnects, HangUp,
      ProxyArms, ProxyReads, ProxyLowers, ProxyDrops, netVars, proxyVars, vars
<1> SUFFICES Keeps \/ Takes \/ \E f : Answers(f)
  BY <1>1, <1>3
<1>4. ASSUME NEW f, SendClient(f), client # None
      PROVE  \/ toP'[conn] = toP[conn] /\ conn # client
             \/ toP'[conn] = Append(toP[conn], f) /\ client = conn
  BY <1>1, <1>2, <1>4 DEF SendClient
<1>5. CreateMakes \/ k'.dev = k.dev
  BY DevSteps
<1>6. CASE CreateReuses \/ CreateFails \/ CreateMakes
  <2>1. SendClient(Ack(0)) \/ SendClient(Ack(1)) \/ SendClient(Ack(2))
    BY <1>6 DEF CreateReuses, CreateFails, CreateMakes
  <2>2. \A n : Ack(n).tag = "ACK"
    BY DEF Ack
  <2>3. client # None /\ client' = client /\ pc' = pc /\ ~ProxyArms
    BY <1>6 DEF CreateReuses, CreateFails, CreateMakes, ReadFrame, LoopOK, proxyVars, ProxyArms
  <2> QED BY <1>4, <1>6, <2>1, <2>2, <2>3 DEF Keeps, Answers
<1>7. CASE EventRequest
  <2>1. /\ ~CreateMakes /\ ~ProxyArms /\ client' = client /\ pc' = pc
        /\ events # << >> /\ Head(events).tag = "REQ" /\ Head(events) \in Events
    BY <1>7 DEF EventRequest, ReadEvent, CreateMakes, ReadFrame, ProxyArms, TypeOK, proxyVars
  <2>2. Head(events) = [tag |-> "REQ", req |-> Head(events).req]
    BY <2>1 DEF Events
  <2>3. CASE toP' = toP
    BY <1>5, <2>1, <2>3 DEF Keeps
  <2>4. CASE client # None /\ SendClient(Head(events))
    BY <1>4, <1>5, <2>1, <2>4 DEF Keeps, Answers
  <2> QED BY <1>7, <2>2, <2>3, <2>4 DEF EventRequest
<1>8. CASE EventOutput
  <2>1. ~CreateMakes /\ ~ProxyArms /\ client' = client /\ pc' = pc
    BY <1>8 DEF EventOutput, ReadEvent, CreateMakes, ReadFrame, ProxyArms, proxyVars
  <2>2. CASE toP' = toP
    BY <1>5, <2>1, <2>2 DEF Keeps
  <2>3. CASE client # None /\ SendClient([tag |-> "OUTPUT"])
    BY <1>4, <1>5, <2>1, <2>3 DEF Keeps, Answers
  <2> QED BY <1>8, <2>2, <2>3 DEF EventOutput
<1>9. CASE AcceptRefuses
  <2>1. ~CreateMakes /\ ~ProxyArms /\ client' = client /\ pc' = pc
    BY <1>9 DEF AcceptRefuses, CreateMakes, ReadFrame, ProxyArms, proxyVars
  <2>2. toP'[conn] = toP[conn] \/ toP'[conn] = Append(toP[conn], [tag |-> "NOTICE"])
    BY <1>1, <1>9 DEF AcceptRefuses
  <2> QED BY <1>5, <2>1, <2>2 DEF Keeps, Answers
<1>10. CASE ProxyArms
  <2>1. /\ toP[conn] # << >> /\ toP'[conn] = Tail(toP[conn]) /\ client' = client /\ k' = k
        /\ Head(toP[conn]) \in {Ack(0), Ack(1)}
    BY <1>1, <1>10 DEF ProxyArms, holderVars, kernelVars
  <2> QED BY <1>10, <2>1 DEF Takes, Ack
<1>11. CASE ProxyReads
  BY <1>1, <1>11 DEF ProxyReads, Takes, holderVars, kernelVars, proxyVars
<1>12. CASE toP' = toP /\ ~ProxyArms /\ ~CreateMakes
  BY <1>5, <1>12 DEF Keeps
<1>13. ~HangUp /\ \A c \in Conns, s \in Shapes : ~ProxyConnects(c, s)
  BY DEF HangUp, ProxyConnects
<1> QED
  BY <1>6, <1>7, <1>8, <1>9, <1>10, <1>11, <1>12, <1>13
  DEF Next, HolderStep, KernelStep, ProxyStep, Poll, AcceptServes, FrameDestroy, HolderStops,
      DriverBinds, DriverUnbinds, KernelGivesUp, KernelAsks, ReadEvent, ReadFrame,
      FrameInput, FrameNeutral, FrameReply, ClientGone, EventStart, EventStop,
      HolderStarts, KernelOutput, ProxyInput, ProxyCreates,
      ProxyLowers, ProxyDrops, netVars, vars

\* A connection that is served stays so until its end, and one that will not be
\* never is.
LEMMA SettledStep ==
  ASSUME TypeOK, LoopOK, Settled, pc # "down", pc' # "down", conn' = conn, [Next]_vars
  PROVE  Settled'
<1>1. CASE \E c \in Conns, s \in Shapes : ProxyConnects(c, s)
  BY <1>1 DEF ProxyConnects
<1>2. CASE client = conn /\ (ClientGone \/ HolderStops)
  BY <1>2 DEF ClientGone, HolderStops, Settled
<1>3. CASE AcceptServes
  BY <1>3, HolderAssumption DEF AcceptServes, Settled, LoopOK
<1>4. CASE hopen' \subseteq hopen /\ (client' = client \/ client # conn)
  BY <1>4 DEF Settled
<1> QED
  BY <1>1, <1>2, <1>3, <1>4, QueueSteps
  DEF Quiet, Reads, Sends, AcceptRefuses, ClientGone, HolderStops

\* What a step does to the queue of the proxy's session on its way to the daemon.
LEMMA SessionSteps ==
  ASSUME Waits, TypeOK, LoopOK, SessionsOK, ConnOK, pc # "down", pc' # "down", conn' = conn,
         [Next]_vars
  PROVE  LET q == toH[conn]  r == toH'[conn] IN
         /\ pc = "await" /\ pc' = "await" /\ q = << >> => r = << >>
         /\ pc = "relay" => pc' = "relay"
         /\ pc' = "relay" => pc = "relay" \/ ProxyArms
         /\ pc = "relay" /\ (\A i \in 1..Len(q) : q[i].tag # "CREATE")
              => \A i \in 1..Len(r) : r[i].tag # "CREATE"
         /\ ProxyArms /\ q = << >> => \A i \in 1..Len(r) : r[i].tag # "CREATE"
<1> DEFINE q == toH[conn]
           r == toH'[conn]
<1>1. conn \in Conns /\ q \in Seq(ToHolder)
  BY DEF TypeOK, LoopOK
<1>2. pc' = pc \/ ProxyArms \/ ProxyCreates
  BY DEF Next, HolderStep, KernelStep, ProxyStep, Poll, AcceptServes, AcceptRefuses, CreateReuses,
      CreateFails, CreateMakes, FrameDestroy, HolderStops, DriverBinds, DriverUnbinds,
      KernelGivesUp, KernelAsks, ReadFrame, ReadEvent,
      FrameInput, FrameNeutral, FrameReply, ClientGone, EventStart, EventStop, EventOutput,
      EventRequest, HolderStarts, KernelOutput, ProxyInput, ProxyConnects, HangUp,
      ProxyReads, ProxyLowers, ProxyDrops, netVars, proxyVars, vars
<1>3. ASSUME NEW f, toH' = [toH EXCEPT ![conn] = Append(@, f)]
      PROVE  \A i \in 1..Len(r) : r[i] = f \/ (i \in 1..Len(q) /\ r[i] = q[i])
  <2>1. r = Append(q, f)
    BY <1>1, <1>3 DEF TypeOK
  <2> QED BY <1>1, <2>1
<1>4. CASE ProxyArms
  <2> DEFINE f == [tag |-> "NEUTRAL", shape |-> NeutralOf(want)]
  <2>1. pc = "await" /\ pc' = "relay" /\ toH' = [toH EXCEPT ![conn] = Append(@, f)]
    BY <1>4 DEF ProxyArms, ProxySends
  <2>2. f.tag # "CREATE"
    OBVIOUS
  <2> HIDE DEF f
  <2>3. \A i \in 1..Len(r) : r[i] = f \/ (i \in 1..Len(q) /\ r[i] = q[i])
    BY <1>3, <2>1
  <2>4. q = << >> => Len(q) = 0
    OBVIOUS
  <2> HIDE DEF q, r
  <2>5. q = << >> => \A i \in 1..Len(r) : r[i].tag # "CREATE"
    BY <2>2, <2>3, <2>4
  <2> QED BY <1>4, <2>1, <2>5 DEF q, r
<1>5. CASE ProxyCreates
  BY <1>5 DEF ProxyCreates, ProxyArms
<1>6. CASE pc' = pc /\ ~ProxyArms
  <2>1. CASE Quiet \/ AcceptServes \/ ClientGone
    BY <1>6, <2>1 DEF Quiet, AcceptServes, ClientGone
  <2>2. CASE Reads
    <3>1. CASE conn = client
      <4>1. q # << >> /\ r = Tail(q)
        BY <2>2, <3>1, QueueOf DEF Reads
      <4>2. \A i \in 1..Len(r) : r[i] = q[i + 1] /\ i + 1 \in 1..Len(q)
        BY <1>1, <4>1
      <4> QED BY <1>6, <4>1, <4>2
    <3>2. CASE conn # client
      BY <1>1, <1>6, <2>2, <3>2, QueueOf
    <3> QED BY <3>1, <3>2
  <2>3. CASE \E f \in ToHolder : Sends(f)
    <3> PICK f \in ToHolder : Sends(f)
      BY <2>3
    <3>1. pc = "relay" /\ f.tag # "CREATE"
      BY <1>6 DEF Sends, Continues
    <3>2. \A i \in 1..Len(r) : r[i] = f \/ (i \in 1..Len(q) /\ r[i] = q[i])
      BY <1>3 DEF Sends
    <3> QED BY <1>6, <3>1, <3>2
  <2>4. CASE AcceptRefuses \/ HolderStops
    <3>1. r = q \/ r = << >>
      BY <1>1, <2>4, QueueOf DEF HolderStops
    <3> QED BY <1>6, <3>1
  <2>5. CASE \E c \in Conns, s \in Shapes : ProxyConnects(c, s)
    BY <2>5 DEF ProxyConnects
  <2> QED BY <2>1, <2>2, <2>3, <2>4, <2>5, QueueSteps
<1> QED BY <1>2, <1>4, <1>5, <1>6

\* The session whose CREATE is being read has no ack yet, and no more to read.
LEMMA AckedOnce ==
  ASSUME TypeOK, LoopOK, SessionsOK, ConnOK, AckOK, pc # "down", client = conn,
         CreateReuses \/ CreateFails \/ CreateMakes
  PROVE  /\ pc = "await" /\ toH'[conn] = << >>
         /\ \A i \in 1..Len(toP[conn]) : toP[conn][i].tag # "ACK"
<1> DEFINE q == toH[conn]
<1>1. Reads /\ Head(q).tag = "CREATE"
  BY ReadTags
<1>2. /\ q \in Seq(ToHolder) /\ q # << >> /\ SessionOK(q) /\ q[1].tag = "CREATE" /\ 1 \in 1..Len(q)
      /\ toH'[conn] = Tail(q)
      /\ \A i \in 1..Len(Tail(q)) : Tail(q)[i] = q[i + 1] /\ i + 1 \in 1..Len(q)
  BY <1>1, ReadFacts
<1>3. pc = "await"
  BY <1>2 DEF AckOK, ConnOK, TypeOK
<1>4. Tail(q) = << >>
  <2>1. SUFFICES ASSUME Tail(q) # << >> PROVE FALSE
    OBVIOUS
  <2>2. Tail(q)[1].tag # "CREATE"
    BY <1>2, <2>1, TailKeeps
  <2>3. 1 \in 1..Len(Tail(q))
    BY <1>2, <2>1
  <2>4. Tail(q)[1].tag = "CREATE"
    BY <1>2, <1>3, <2>3 DEF ConnOK
  <2> QED BY <2>2, <2>4
<1>5. \A i \in 1..Len(toP[conn]) : toP[conn][i].tag # "ACK"
  BY <1>2 DEF AckOK
<1> QED BY <1>2, <1>3, <1>4, <1>5

\* A session begins with a connection.
LEMMA Connecting ==
  ASSUME pc = "down", pc' # "down", [Next]_vars
  PROVE  \E c \in Conns, s \in Shapes : ProxyConnects(c, s)
BY DEF Next, HolderStep, KernelStep, ProxyStep, Poll, AcceptServes, AcceptRefuses,
       CreateReuses, CreateFails, CreateMakes, FrameDestroy, HolderStops, DriverBinds,
       DriverUnbinds, KernelGivesUp, KernelAsks, ReadFrame, ReadEvent, FrameInput, FrameNeutral,
       FrameReply, ClientGone, EventStart, EventStop, EventOutput, EventRequest, HolderStarts,
       KernelOutput, ProxyInput, ProxyCreates, HangUp, ProxyArms, ProxyReads, ProxyLowers,
       ProxyDrops, netVars, proxyVars, vars

\* Every step keeps the acks in their place.
LEMMA AckStep ==
  ASSUME Waits, TypeOK, LoopOK, SessionsOK, ConnOK, OpenOK, AckOK, [Next]_vars
  PROVE  AckOK'
<1>1. CASE pc' = "down"
  BY <1>1 DEF AckOK
<1>2. CASE pc = "down" /\ pc' # "down"
  <2>1. PICK c \in Conns, s \in Shapes : ProxyConnects(c, s)
    BY <1>2, Connecting
  <2>2. pc' = "hello" /\ conn' = c /\ toP'[c] = << >>
    BY <2>1 DEF ProxyConnects, TypeOK
  <2> QED BY <2>2 DEF AckOK
<1>3. CASE pc # "down" /\ pc' # "down"
  <2> DEFINE p == toP[conn]
             q == toH[conn]
             r == toH'[conn]
             t == toP'[conn]
  <2>1. /\ conn \in Conns /\ p \in Seq(ToProxy) /\ conn' = conn
        /\ Keeps \/ Takes \/ \E f : Answers(f)
    BY <1>3, ToProxySteps
  <2>2. Settled => Settled'
    BY <1>3, <2>1, SettledStep
  <2>3. /\ pc = "await" /\ pc' = "await" /\ q = << >> => r = << >>
        /\ pc = "relay" => pc' = "relay"
        /\ pc' = "relay" => pc = "relay" \/ ProxyArms
        /\ pc = "relay" /\ (\A i \in 1..Len(q) : q[i].tag # "CREATE")
             => \A i \in 1..Len(r) : r[i].tag # "CREATE"
        /\ ProxyArms /\ q = << >> => \A i \in 1..Len(r) : r[i].tag # "CREATE"
    BY <1>3, <2>1, SessionSteps
  <2>4. /\ pc = "relay" => Settled /\ \A i \in 1..Len(q) : q[i].tag # "CREATE"
        /\ \A i \in 1..Len(p) : p[i].tag = "ACK" =>
             /\ pc = "await" /\ q = << >> /\ Settled
             /\ \A j \in 1..Len(p) : p[j].tag = "ACK" => j = i
    BY <1>3 DEF AckOK
  <2>5. /\ pc \in {"hello", "await", "relay"} /\ pc' \in {"hello", "await", "relay"}
        /\ pc = "await" => pc' # "hello"
    <3>1. pc \in {"hello", "await", "relay"}
      BY <1>3 DEF TypeOK
    <3> QED
      BY <1>3, <3>1
      DEF Next, HolderStep, KernelStep, ProxyStep, Poll, AcceptServes, AcceptRefuses, CreateReuses,
          CreateFails, CreateMakes, FrameDestroy, HolderStops, DriverBinds, DriverUnbinds,
          KernelGivesUp, KernelAsks, ReadFrame, ReadEvent, FrameInput, FrameNeutral, FrameReply,
          ClientGone, EventStart, EventStop, EventOutput, EventRequest, HolderStarts,
          KernelOutput, ProxyInput, ProxyCreates, ProxyConnects, HangUp, ProxyArms, ProxyReads,
          ProxyLowers, ProxyDrops, netVars, proxyVars, vars
  <2>6. SUFFICES /\ pc' = "relay" => Settled' /\ \A i \in 1..Len(r) : r[i].tag # "CREATE"
                 /\ \A i \in 1..Len(t) : t[i].tag = "ACK" =>
                      /\ pc' = "await" /\ r = << >> /\ Settled'
                      /\ \A j \in 1..Len(t) : t[j].tag = "ACK" => j = i
    BY <2>1 DEF AckOK
  <2>7. p # << >> => 1 \in 1..Len(p) /\ Head(p) = p[1]
    BY <2>1
  <2>8. ASSUME p # << >>, t = Tail(p)
        PROVE  \A i \in 1..Len(t) : t[i] = p[i + 1] /\ i + 1 \in 1..Len(p) /\ i + 1 # 1
    BY <2>1, <2>8
  <2>9. ASSUME NEW f, t = Append(p, f)
        PROVE  \A i \in 1..Len(t) : (i \in 1..Len(p) /\ t[i] = p[i]) \/ (i = Len(p) + 1 /\ t[i] = f)
    BY <2>1, <2>9
  <2> HIDE DEF p, q, r, t
  <2>10. CASE Keeps
    BY <2>10, <2>2, <2>3, <2>4, <2>5 DEF Keeps, p, t
  <2>11. CASE Takes
    <3>1. /\ p # << >> /\ t = Tail(p)
          /\ \/ ProxyArms /\ p[1].tag = "ACK"
             \/ pc = "relay" /\ pc' = "relay"
      BY <2>7, <2>11 DEF Takes, p, t
    <3>2. \A i \in 1..Len(t) : t[i].tag # "ACK"
      BY <2>4, <2>7, <2>8, <3>1
    <3> QED BY <2>2, <2>3, <2>4, <2>7, <3>1, <3>2
  <2>12. CASE \E f : Answers(f)
    <3> PICK f : Answers(f)
      BY <2>12
    <3>1. t = Append(p, f) /\ pc' = pc /\ client' = client
      BY DEF Answers, p, t
    <3>2. \A i \in 1..Len(t) : (i \in 1..Len(p) /\ t[i] = p[i]) \/ (i = Len(p) + 1 /\ t[i] = f)
      BY <2>9, <3>1
    <3>3. ~ProxyArms
      BY <3>1 DEF ProxyArms
    <3>4. CASE f.tag = "ACK"
      <4>1. /\ pc = "await" /\ r = << >> /\ conn = client
            /\ \A i \in 1..Len(p) : p[i].tag # "ACK"
        BY <1>3, <3>4, AckedOnce DEF Answers, p, r
      <4>2. Settled'
        BY <2>1, <3>1, <4>1 DEF Settled
      <4> QED BY <3>1, <3>2, <4>1, <4>2
    <3>5. CASE f.tag # "ACK"
      BY <2>2, <2>3, <2>4, <3>1, <3>2, <3>3, <3>5
    <3> QED BY <3>4, <3>5
  <2> QED BY <2>1, <2>10, <2>11, <2>12
<1> QED BY <1>1, <1>2, <1>3

\* Every step keeps what will be answered with the device it is about.
LEMMA RequestsStep ==
  ASSUME Waits, TypeOK, LoopOK, SessionsOK, ConnOK, WaitingOK, AskedOK, OpenOK, AckOK, RequestsOK,
         [Next]_vars
  PROVE  RequestsOK'
<1>1. CASE pc' = "down"
  BY <1>1 DEF RequestsOK
<1>2. CASE pc = "down" /\ pc' # "down"
  <2>1. PICK c \in Conns, s \in Shapes : ProxyConnects(c, s)
    BY <1>2, Connecting
  <2>2. conn' = c /\ toP'[c] = << >>
    BY <2>1 DEF ProxyConnects, TypeOK
  <2> QED BY <2>2 DEF RequestsOK
<1>3. CASE pc # "down" /\ pc' # "down"
  <2> DEFINE p == toP[conn]
             t == toP'[conn]
             Due(s, i) == pc = "relay" \/ \E j \in 1..i : s[j].tag = "ACK"
  <2>1. /\ conn \in Conns /\ p \in Seq(ToProxy) /\ conn' = conn
        /\ Keeps \/ Takes \/ \E f : Answers(f)
    BY <1>3, ToProxySteps
  <2>2. pc' = "relay" => pc = "relay" \/ ProxyArms
    BY <1>3, <2>1, SessionSteps
  <2>3. SUFFICES ASSUME conn = client',
                        NEW i \in 1..Len(t), t[i].tag = "REQ",
                        pc' = "relay" \/ \E j \in 1..i : t[j].tag = "ACK"
                 PROVE  t[i].req.dev = k'.dev
    BY <2>1 DEF RequestsOK
  <2>4. client = conn
    <3>1. SUFFICES ASSUME client # conn PROVE FALSE
      OBVIOUS
    <3>2. AcceptServes /\ pc' = pc
      <4>1. client' # client /\ client' # None
        BY <2>1, <2>3, <3>1, HolderAssumption
      <4> QED
        BY <4>1, QueueSteps
        DEF Quiet, Reads, Sends, AcceptServes, AcceptRefuses, ClientGone,
                                       HolderStops, ProxyConnects, holderVars, proxyVars
    <3>3. conn = backlog[1] /\ 1 \in 1..Len(backlog) /\ toP' = toP
      BY <2>3, <3>2 DEF AcceptServes, LoopOK, TypeOK
    <3>4. ~Settled
      BY <3>1, <3>3 DEF WaitingOK, Settled
    <3>5. pc # "relay" /\ \A j \in 1..Len(p) : p[j].tag # "ACK"
      BY <1>3, <3>4 DEF AckOK
    <3> QED BY <2>3, <3>2, <3>3, <3>5
  <2>5. \A n \in 1..Len(p) : p[n].tag = "REQ" /\ Due(p, n) => p[n].req.dev = k.dev
    BY <1>3, <2>4 DEF RequestsOK
  <2>6. CASE Keeps
    <3>1. t = p /\ k'.dev = k.dev /\ (pc' = "relay" => pc = "relay")
      BY <2>2, <2>4, <2>6 DEF Keeps
    <3> QED BY <2>3, <2>5, <3>1
  <2>7. CASE Takes
    <3>1. p # << >> /\ t = Tail(p) /\ k' = k
          /\ ((ProxyArms /\ Head(p).tag = "ACK") \/ pc = "relay")
      BY <2>7 DEF Takes
    <3>2. t[i] = p[i + 1] /\ i + 1 \in 1..Len(p) /\ Head(p) = p[1] /\ 1 \in 1..(i + 1)
      BY <2>1, <3>1
    <3>3. Due(p, i + 1)
      BY <3>1, <3>2
    <3> QED BY <2>3, <2>5, <3>1, <3>2, <3>3
  <2>8. CASE \E f : Answers(f)
    <3> PICK f : Answers(f)
      BY <2>8
    <3>1. t = Append(p, f) /\ pc' = pc
      BY DEF Answers
    <3>2. \A n \in 1..Len(t) : (n \in 1..Len(p) /\ t[n] = p[n]) \/ (n = Len(p) + 1 /\ t[n] = f)
      BY <2>1, <3>1
    <3>3. Len(p) \in Nat
      BY <2>1
    <3> HIDE DEF p, t
    <3>4. ASSUME i \in 1..Len(p), k'.dev = k.dev PROVE t[i].req.dev = k'.dev
      <4>1. t[i] = p[i] /\ \A j \in 1..i : j \in 1..Len(p) /\ t[j] = p[j]
        BY <3>2, <3>3, <3>4
      <4>2. Due(p, i)
        BY <2>3, <3>1, <4>1
      <4> QED BY <2>3, <2>5, <3>4, <4>1, <4>2
    <3>5. CASE f.tag = "ACK"
      <4>1. pc = "await" /\ \A j \in 1..Len(p) : p[j].tag # "ACK"
        BY <1>3, <2>4, <3>5, AckedOnce DEF Answers, p
      <4>2. i \in 1..Len(p)
        BY <2>3, <3>2, <3>5
      <4>3. \A j \in 1..i : j \in 1..Len(p) /\ t[j] = p[j]
        BY <3>2, <3>3, <4>2
      <4> QED BY <2>3, <3>1, <4>1, <4>3
    <3>6. CASE f.tag = "REQ"
      <4>1. k'.dev = k.dev /\ f = events[1] /\ 1 \in 1..Len(events)
        BY <3>6 DEF Answers, TypeOK
      <4>2. f.req.dev = k.dev
        BY <3>6, <4>1 DEF AskedOK
      <4> QED BY <2>3, <3>2, <3>4, <4>1, <4>2
    <3>7. CASE f.tag \notin {"ACK", "REQ"}
      BY <2>3, <3>2, <3>4, <3>7 DEF Answers
    <3> QED BY <3>5, <3>6, <3>7
  <2> QED BY <2>1, <2>6, <2>7, <2>8
<1> QED BY <1>1, <1>2, <1>3

\* Every step keeps the replies with the device they are for.
LEMMA RepliesStep ==
  ASSUME Waits, TypeOK, LoopOK, SessionsOK, ConnOK, OpenOK, AckOK, RequestsOK, RepliesOK,
         [Next]_vars
  PROVE  RepliesOK'
<1> DEFINE Good(q, d) == \A i \in 1..Len(q) : q[i].tag = "REPLY" =>
                           /\ q[i].req.dev = d
                           /\ \A j \in 1..Len(q) : q[j].tag # "CREATE"
           NoReply(q) == \A i \in 1..Len(q) : q[i].tag # "REPLY"
<1> USE HolderAssumption
<1>1. \A c \in Conns : /\ toH[c] \in Seq(ToHolder)
                       /\ Good(toH[c], k.dev)
                       /\ c # client => NoReply(toH[c])
  BY DEF RepliesOK, TypeOK
<1>2. SUFFICES ASSUME NEW c \in Conns
               PROVE  Good(toH'[c], k'.dev) /\ (c # client' => NoReply(toH'[c]))
  BY DEF RepliesOK
<1>3. Good(<< >>, k'.dev) /\ NoReply(<< >>)
  OBVIOUS
<1>4. ASSUME NEW q \in Seq(ToHolder), NoReply(q) PROVE Good(q, k'.dev)
  BY <1>4
<1>5. ASSUME NEW q \in Seq(ToHolder), q # << >>, Good(q, k.dev)
      PROVE  Good(Tail(q), k.dev) /\ (NoReply(q) => NoReply(Tail(q)))
  <2>1. \A i \in 1..Len(Tail(q)) : Tail(q)[i] = q[i + 1] /\ i + 1 \in 1..Len(q)
    BY <1>5
  <2> QED BY <1>5, <2>1
<1> HIDE DEF Good, NoReply
<1>6. CASE CreateMakes
  <2>1. Reads /\ Head(toH[client]).tag = "CREATE"
    BY <1>6, ReadTags
  <2>2. /\ client \in Conns /\ toH[client][1].tag = "CREATE" /\ 1 \in 1..Len(toH[client])
        /\ toH[client] # << >> /\ toH'[client] = Tail(toH[client]) /\ client' = client
    BY <2>1, ReadFacts
  <2>3. NoReply(toH[client])
    BY <1>1, <2>2 DEF Good, NoReply
  <2>4. NoReply(toH'[c]) /\ toH'[c] \in Seq(ToHolder)
    <3>1. CASE c = client
      <4>1. toH[c] \in Seq(ToHolder) /\ toH[c] # << >> /\ Good(toH[c], k.dev) /\ NoReply(toH[c])
        BY <1>1, <2>2, <2>3, <3>1
      <4>2. NoReply(Tail(toH[c]))
        BY <1>5, <4>1
      <4>3. Tail(toH[c]) \in Seq(ToHolder)
        BY <4>1
      <4> QED BY <2>2, <3>1, <4>2, <4>3
    <3>2. CASE c # client
      BY <1>1, <2>1, <3>2, QueueOf
    <3> QED BY <3>1, <3>2
  <2> QED BY <1>4, <2>4
<1>7. CASE k'.dev = k.dev
  <2>1. CASE Quiet
    BY <1>1, <1>7, <2>1 DEF Quiet
  <2>2. CASE AcceptServes
    <3>1. toH' = toH /\ c # client
      BY <2>2, <1>2 DEF AcceptServes
    <3> QED BY <1>1, <1>7, <3>1
  <2>3. CASE ClientGone
    <3>1. toH' = toH /\ toH[client] = << >>
      BY <2>3 DEF ClientGone
    <3> QED BY <1>1, <1>3, <1>7, <3>1
  <2>4. CASE AcceptRefuses
    <3>1. client' = client
      BY <2>4 DEF AcceptRefuses
    <3> QED BY <1>1, <1>3, <1>7, <2>4, <3>1, QueueOf
  <2>5. CASE HolderStops
    BY <1>3, <2>5 DEF HolderStops
  <2>6. CASE \E d \in Conns, s \in Shapes : ProxyConnects(d, s)
    <3> PICK d \in Conns, s \in Shapes : ProxyConnects(d, s)
      BY <2>6
    <3>1. client' = client
      BY DEF ProxyConnects, holderVars
    <3> QED BY <1>1, <1>3, <1>7, <3>1, QueueOf
  <2>7. CASE Reads
    <3>1. client' = client /\ toH[client] # << >>
      BY <2>7 DEF Reads
    <3>2. CASE c = client
      BY <1>1, <1>5, <1>7, <2>7, <3>1, <3>2, QueueOf
    <3>3. CASE c # client
      BY <1>1, <1>7, <2>7, <3>1, <3>3, QueueOf
    <3> QED BY <3>2, <3>3
  <2>8. CASE \E f \in ToHolder : Sends(f)
    <3> PICK f \in ToHolder : Sends(f)
      BY <2>8
    <3>1. client' = client /\ conn \in Conns /\ conn \in hopen /\ pc # "down"
      BY DEF Sends, TypeOK, LoopOK
    <3>2. CASE c # conn
      BY <1>1, <1>7, <3>1, <3>2, QueueOf
    <3>3. CASE c = conn
      <4> DEFINE q == toH[c]
                 r == toH'[c]
      <4>1. r = Append(q, f) /\ q \in Seq(ToHolder) /\ Good(q, k.dev) /\ (c # client => NoReply(q))
        BY <1>1, <3>3, QueueOf
      <4>2. \A i \in 1..Len(r) : r[i] = f \/ (i \in 1..Len(q) /\ r[i] = q[i])
        BY <4>1
      <4>3. f.tag = "CREATE" => NoReply(q)
        <5>1. f.tag = "CREATE" => pc = "hello"
          BY DEF Sends, Continues
        <5>2. pc = "hello" => q = << >>
          BY <3>3 DEF ConnOK
        <5> QED BY <1>3, <5>1, <5>2
      <4>4. f.tag = "REPLY" => /\ c = client /\ f.req.dev = k.dev
                               /\ \A i \in 1..Len(q) : q[i].tag # "CREATE"
        <5> SUFFICES ASSUME f.tag = "REPLY"
                     PROVE  /\ c = client /\ f.req.dev = k.dev
                            /\ \A i \in 1..Len(q) : q[i].tag # "CREATE"
          OBVIOUS
        <5>1. /\ pc = "relay" /\ toP[conn] # << >> /\ Head(toP[conn]).tag = "REQ"
              /\ f.req = Head(toP[conn]).req
          BY DEF Sends, Continues
        <5>2. Settled /\ \A i \in 1..Len(q) : q[i].tag # "CREATE"
          BY <3>3, <5>1 DEF AckOK
        <5>3. client = conn
          BY <3>1, <5>2 DEF Settled
        <5>4. Head(toP[conn]) = toP[conn][1] /\ 1 \in 1..Len(toP[conn])
          BY <3>1, <5>1 DEF TypeOK
        <5>5. f.req.dev = k.dev
          BY <5>1, <5>3, <5>4 DEF RequestsOK
        <5> QED BY <3>3, <5>2, <5>3, <5>5
      <4> HIDE DEF q, r
      <4>5. Good(r, k.dev)
        BY <4>1, <4>2, <4>3, <4>4 DEF Good, NoReply
      <4>6. c # client => NoReply(r)
        BY <4>1, <4>2, <4>4 DEF NoReply
      <4> QED BY <1>7, <3>1, <4>5, <4>6 DEF r
    <3> QED BY <3>2, <3>3
  <2> QED BY <2>1, <2>2, <2>3, <2>4, <2>5, <2>6, <2>7, <2>8, QueueSteps
<1> QED BY <1>6, <1>7, DevSteps

\* No request is on its way at first, and every step keeps the invariant.
LEMMA ReplyInvInit == Init => ReplyInv
<1> SUFFICES ASSUME Init PROVE ReplyInv
  OBVIOUS
<1>1. IInv /\ QueueInv
  BY InitOK, QueueInit
<1>2. AskedOK /\ OpenOK /\ AckOK /\ RequestsOK
  BY DEF Init, AskedOK, OpenOK, AckOK, RequestsOK, NoDevice, Fresh
<1>3. RepliesOK
  BY DEF Init, RepliesOK
<1> QED BY <1>1, <1>2, <1>3 DEF ReplyInv

\* Every step keeps requests and replies with their device.
LEMMA ReplyInvariance == Waits => (Spec => []ReplyInv)
<1> SUFFICES ASSUME Waits PROVE Spec => []ReplyInv
  OBVIOUS
<1>1. ASSUME ReplyInv, [Next]_vars PROVE ReplyInv'
  <2>1. /\ TypeOK /\ LoopOK /\ IInv /\ SessionsOK /\ ConnOK /\ WaitingOK
        /\ AskedOK /\ OpenOK /\ AckOK /\ RequestsOK /\ RepliesOK
    BY <1>1 DEF ReplyInv, IInv, QueueInv
  <2>2. IInv' /\ TypeOK'
    BY <1>1, <2>1, NextOK DEF IInv
  <2>3. SessionsOK' /\ ConnOK' /\ WaitingOK'
    BY <1>1, <2>1, <2>2, SessionsStep, ConnStep, WaitStep
  <2>4. AskedOK' /\ OpenOK' /\ AckOK'
    BY <1>1, <2>1, AskedStep, OpenStep, AckStep
  <2>5. RequestsOK' /\ RepliesOK'
    BY <1>1, <2>1, RequestsStep, RepliesStep
  <2> QED BY <2>2, <2>3, <2>4, <2>5 DEF ReplyInv, QueueInv
<1>2. ReplyInv /\ [Next]_vars => ReplyInv'
  BY <1>1
<1> QED BY <1>2, ReplyInvInit, PTL DEF Spec

\* The kernel takes a reply of a proxy that waits for its ack only to the
\* request it was made for, though ids start again at 1 on each device.
THEOREM RepliesFindTheirAsker == Waits => (Spec => ReplyReachesItsAsker)
<1> SUFFICES ASSUME Waits PROVE Spec => ReplyReachesItsAsker
  OBVIOUS
<1>1. ASSUME ReplyInv, FrameReply, k'.asked # k.asked
      PROVE  Head(toH[client]).req = k.asked
  <2> DEFINE r == Head(toH[client]).req
  <2>1. TypeOK /\ LoopOK /\ SessionsOK
    BY <1>1 DEF ReplyInv, IInv, QueueInv
  <2>2. KReply(r)
    BY <1>1 DEF FrameReply
  <2>3. SameRequest(k.asked, r)
    BY <1>1, <2>2 DEF KReply
  <2>4. /\ Head(toH[client]) \in ToHolder /\ Head(toH[client]).tag = "REPLY" /\ client \in Conns
        /\ Head(toH[client]) = toH[client][1] /\ 1 \in 1..Len(toH[client])
    BY <1>1, <2>1, QueueTypes, ReadTags, ReadFacts DEF FrameReply
  <2>5. r \in Requests /\ k.asked \in Requests
    BY <2>1, <2>3, <2>4, Payloads DEF SameRequest, TypeOK, Device
  <2>6. r.dev = k.dev /\ k.asked.dev = k.dev
    BY <1>1, <2>3, <2>4 DEF ReplyInv, RepliesOK, AskedOK, SameRequest
  <2> HIDE DEF r
  <2>7. r = k.asked
    BY <2>3, <2>5, <2>6 DEF SameRequest, Requests
  <2> QED BY <2>7 DEF r
<1>2. ReplyInv /\ [Next]_vars
        => [FrameReply /\ k'.asked # k.asked => Head(toH[client]).req = k.asked]_vars
  BY <1>1
<1> QED BY <1>2, ReplyInvariance, PTL DEF Spec, ReplyReachesItsAsker

=============================================================================
