------------------------------ MODULE PadProofs ------------------------------
(***************************************************************************)
(* The holder implements Pad, for every set of shapes and connections, if a *)
(* driver binds at most once to a device: what a STOP means to the daemon,  *)
(* that the device is gone, is then true.                                   *)
(***************************************************************************)
EXTENDS HolderProofs

\* A driver comes to a device once, so until it has gone the key is the
\* device's shape and no STOP is under way.
OnceOK ==
  /\ ~k.bound => k.input = "rest"
  /\ k.alive => k.shape # None
  /\ k.bound => k.binds # 0
  /\ k.alive /\ (k.bound \/ k.binds = 0) =>
       /\ h.key = k.shape
       /\ \A i \in 1..Len(events) : events[i].tag # "STOP"

PressedUsb == k.alive /\ k.shape \in UsbShapes /\ k.input = "press"

NeutralOK == h.neutral \in UsbShapes \cup {None}

\* A press that can be put to rest is there only with the report to do it.
PressOK == PressedUsb => h.started /\ h.neutral # None /\ client # None

\* The press and the report to rest with are of the session that is served.
ServedOK == client # None => LET q == toH[client] IN
  /\ Opens(q) \/ (conn = client /\ pc \in {"hello", "await"}) => ~PressedUsb
  /\ ~Opens(q) =>
       /\ \A i \in 1..Len(q) : q[i].tag = "INPUT" /\ q[i].shape \in UsbShapes => h.neutral # None
       /\ conn = client /\ pc = "relay" /\ want \in UsbShapes => h.neutral # None

RestInv == NeutralOK /\ PressOK /\ ServedOK
\* The inductive invariant.
PadInv == IInv /\ OnceOK /\ QueueInv /\ RestInv

-----------------------------------------------------------------------------
(* The kernel device.                                                        *)

\* Every step keeps the record of a device that is bound at most once.
LEMMA OnceStep ==
  ASSUME MaxBinds <= 1, TypeOK, LoopOK, DeviceOK, OnceOK, [Next]_vars
  PROVE  OnceOK'
<1> USE HolderAssumption
<1>1. CASE CreateFails
  BY <1>1 DEF OnceOK, DeviceOK, CreateFails, KDestroy, Fresh, kernelVars
<1>2. CASE CreateMakes
  BY <1>2, QueueTypes, Payloads DEF OnceOK, CreateMakes, KCreate, Fresh, TypeOK, HolderState
<1>3. CASE FrameDestroy
  BY <1>3 DEF OnceOK, FrameDestroy, KClose, NoDevice, Fresh
<1>4. CASE HolderStops
  BY <1>4 DEF OnceOK, HolderStops, KClose, NoDevice, Fresh
<1>5. CASE FrameInput \/ ClientGone
  <2>1. h' = h /\ events' = events
    BY <1>5 DEF FrameInput, ClientGone
  <2>2. \/ k' = k
        \/ \E s, v : KInput(s, v)
    BY <1>5 DEF FrameInput, ClientGone
  <2>3. /\ k'.bound = k.bound /\ k'.alive = k.alive /\ k'.shape = k.shape /\ k'.binds = k.binds
        /\ k.bound \/ k'.input = k.input
    BY <2>2 DEF KInput, TypeOK, Device
  <2> QED BY <2>1, <2>3 DEF OnceOK
<1>6. CASE FrameReply
  BY <1>6 DEF OnceOK, FrameReply, KReply, ReadFrame, TypeOK, Device
<1>7. CASE FrameNeutral
  BY <1>7 DEF OnceOK, FrameNeutral, kernelVars, TypeOK, HolderState
<1>8. CASE CreateReuses
  BY <1>8 DEF OnceOK, CreateReuses, kernelVars
<1>9. ASSUME NEW t, ReadEvent(t)
      PROVE  /\ \A i \in 1..Len(events') : events'[i] = events[i + 1] /\ i + 1 \in 1..Len(events)
             /\ events[1].tag = t /\ 1 \in 1..Len(events)
  BY <1>9 DEF ReadEvent, TypeOK
<1>10. CASE EventStart
  <2>1. k' = k /\ h'.key = h.key
    BY <1>10 DEF EventStart, TypeOK, HolderState
  <2> QED BY <1>9, <1>10, <2>1 DEF OnceOK, EventStart
<1>11. CASE EventStop
  BY <1>9, <1>11 DEF OnceOK, EventStop
<1>12. CASE EventOutput
  BY <1>9, <1>12 DEF OnceOK, EventOutput
<1>13. CASE EventRequest
  <2>1. /\ h' = h /\ k'.bound = k.bound /\ k'.alive = k.alive /\ k'.shape = k.shape
        /\ k'.binds = k.binds /\ k'.input = k.input
    BY <1>13 DEF EventRequest, KReply, TypeOK, Device
  <2> QED BY <1>9, <1>13, <2>1 DEF OnceOK, EventRequest
<1>14. CASE DriverBinds
  <2>1. k.binds = 0 /\ k'.binds = 1 /\ k'.bound /\ k'.shape = k.shape /\ k'.alive = k.alive
    <3>1. k.binds \in Nat /\ k.binds < MaxBinds
      BY <1>14 DEF DriverBinds, TypeOK, Device
    <3>2. k.binds = 0
      BY <3>1
    <3>3. k' = [k EXCEPT !.bound = TRUE, !.input = "rest", !.binds = 1]
      BY <1>14, <3>2 DEF DriverBinds
    <3> QED BY <3>2, <3>3 DEF TypeOK, Device
  <2>2. events' = Append(events, [tag |-> "START"]) /\ events \in Seq(Events) /\ h' = h
    BY <1>14 DEF DriverBinds, holderVars, TypeOK
  <2>3. \A i \in 1..Len(events') : events'[i] = [tag |-> "START"]
          \/ (i \in 1..Len(events) /\ events'[i] = events[i])
    BY <2>2
  <2> QED BY <1>14, <2>1, <2>2, <2>3 DEF OnceOK, DriverBinds
<1>15. CASE DriverUnbinds
  BY <1>15 DEF OnceOK, DriverUnbinds, TypeOK, Device
<1>16. ASSUME NEW e \in Events, e.tag # "STOP", events' = Append(events, e), h' = h,
              k'.bound = k.bound, k'.alive = k.alive, k'.shape = k.shape,
              k'.binds = k.binds, k'.input = k.input
       PROVE  OnceOK'
  <2>1. \A i \in 1..Len(events') : events'[i] = e
          \/ (i \in 1..Len(events) /\ events'[i] = events[i])
    BY <1>16 DEF TypeOK
  <2> QED BY <1>16, <2>1 DEF OnceOK
<1>17. CASE KernelOutput
  BY <1>16, <1>17, Members DEF KernelOutput, holderVars
<1>18. CASE \E kind \in Kinds : KernelAsks(kind)
  <2> PICK kind \in Kinds : KernelAsks(kind)
    BY <1>18
  <2> DEFINE r == [kind |-> kind, id |-> k.nreq + 1, dev |-> k.dev]
             e == [tag |-> "REQ", req |-> r]
  <2>1. r \in Requests
    BY DEF KernelAsks, TypeOK, Device, Requests
  <2>2. e \in Events /\ e.tag # "STOP" /\ events' = Append(events, e)
    BY <2>1, Members DEF KernelAsks
  <2>3. /\ h' = h /\ k'.bound = k.bound /\ k'.alive = k.alive /\ k'.shape = k.shape
        /\ k'.binds = k.binds /\ k'.input = k.input
    BY DEF KernelAsks, TypeOK, Device, holderVars
  <2> QED BY <1>16, <2>2, <2>3
<1>19. CASE KernelGivesUp
  BY <1>19 DEF OnceOK, KernelGivesUp, TypeOK, Device, holderVars
<1>20. CASE UNCHANGED <<h, k, events>>
  BY <1>20 DEF OnceOK
<1> QED
  BY <1>1, <1>2, <1>3, <1>4, <1>5, <1>6, <1>7, <1>8, <1>10, <1>11, <1>12, <1>13, <1>14, <1>15,
     <1>17, <1>18, <1>19, <1>20
  DEF Next, HolderStep, KernelStep, ProxyStep, Poll, AcceptServes, AcceptRefuses, HolderStarts,
      ProxyConnects, ProxyInput, ProxyCreates, ProxyArms, ProxyReads, ProxyLowers, ProxyDrops,
      holderVars, kernelVars, vars

-----------------------------------------------------------------------------
(* The press and the report to rest with.                                    *)

\* A press comes from an INPUT only, through a driver the daemon knows of.
LEMMA PressSteps ==
  ASSUME TypeOK, LoopOK, DeviceOK, OnceOK, [Next]_vars, PressedUsb', ~PressedUsb
  PROVE  FrameInput /\ h.started /\ Head(toH[client]).shape \in UsbShapes
<1>1. ASSUME UNCHANGED k PROVE FALSE
  BY <1>1 DEF PressedUsb
<1>2. ASSUME k'.input # "press" PROVE FALSE
  BY <1>2 DEF PressedUsb
<1>3. ASSUME k'.input = k.input, k'.alive = k.alive, k'.shape = k.shape PROVE FALSE
  BY <1>3 DEF PressedUsb
<1>4. ~CreateFails /\ ~CreateMakes /\ ~FrameDestroy /\ ~HolderStops
  <2>1. (KDestroy \/ KClose \/ \E s : KCreate(s)) => k'.input = "rest"
    BY DEF KDestroy, KCreate, KClose, NoDevice, Fresh
  <2>2. ~KDestroy /\ ~KClose /\ \A s : ~KCreate(s)
    BY <1>2, <2>1
  <2>3. ~CreateFails
    BY <1>1, <2>2 DEF CreateFails, kernelVars
  <2>4. ~CreateMakes /\ ~FrameDestroy /\ ~HolderStops
    BY <2>2 DEF CreateMakes, FrameDestroy, HolderStops
  <2> QED BY <2>3, <2>4
<1>5. ~ClientGone
  <2>1. ASSUME NEW s, KInput(s, "rest") PROVE FALSE
    BY <1>1, <1>2, <2>1 DEF KInput, TypeOK, Device
  <2> QED BY <1>1, <2>1 DEF ClientGone
<1>6. ~DriverBinds /\ ~DriverUnbinds
  BY <1>2 DEF DriverBinds, DriverUnbinds, TypeOK, Device
<1>7. ~FrameReply /\ ~EventRequest
  <2>1. ASSUME NEW r, KReply(r) PROVE FALSE
    BY <1>3, <2>1 DEF KReply, TypeOK, Device
  <2> QED BY <1>1, <2>1 DEF FrameReply, EventRequest
<1>8. ~KernelGivesUp /\ \A kind \in Kinds : ~KernelAsks(kind)
  BY <1>3 DEF KernelGivesUp, KernelAsks, TypeOK, Device
<1>9. FrameInput
  BY <1>1, <1>4, <1>5, <1>6, <1>7, <1>8
  DEF Next, HolderStep, KernelStep, ProxyStep, Poll, AcceptServes, AcceptRefuses, CreateReuses,
      FrameNeutral, EventStart, EventStop, EventOutput, HolderStarts, KernelOutput,
      ProxyConnects, ProxyInput, ProxyCreates, ProxyArms, ProxyReads, ProxyLowers, ProxyDrops,
      kernelVars, vars
<1>10. h.started
  BY <1>1, <1>9 DEF FrameInput
<1>11. KInput(Head(toH[client]).shape, Head(toH[client]).val)
  BY <1>1, <1>9 DEF FrameInput
<1>12. Head(toH[client]).shape \in UsbShapes
  <2>1. k.bound
    BY <1>1, <1>11 DEF KInput
  <2>2. Head(toH[client]).shape = k.shape
    BY <1>2, <1>11, <2>1 DEF KInput, TypeOK, Device
  <2>3. k'.shape = k.shape
    BY <1>11 DEF KInput, TypeOK, Device
  <2> QED BY <2>2, <2>3 DEF PressedUsb
<1> QED BY <1>9, <1>10, <1>12

\* The report to rest with changes with a NEUTRAL and goes with the device.
LEMMA NeutralSteps ==
  ASSUME TypeOK, [Next]_vars, ~FrameNeutral, ~FrameDestroy, ~HolderStops
  PROVE  h'.neutral = h.neutral
<1>1. CASE CreateFails \/ CreateMakes \/ EventStart \/ EventStop
  BY <1>1 DEF CreateFails, CreateMakes, EventStart, EventStop, TypeOK, HolderState
<1>2. CASE UNCHANGED h
  BY <1>2
<1> QED
  BY <1>1, <1>2
  DEF Next, HolderStep, KernelStep, ProxyStep, Poll, AcceptServes, AcceptRefuses, CreateReuses,
      FrameInput, FrameReply, ClientGone, EventOutput, EventRequest, HolderStarts,
      DriverBinds, DriverUnbinds, KernelOutput, KernelGivesUp, KernelAsks,
      ProxyConnects, ProxyInput, ProxyCreates, ProxyArms, ProxyReads, ProxyLowers, ProxyDrops,
      holderVars, vars

\* Every step keeps the kind of report to rest with.
LEMMA NeutralStep ==
  ASSUME TypeOK, LoopOK, SessionsOK, NeutralOK, [Next]_vars
  PROVE  NeutralOK'
<1>1. CASE FrameNeutral
  <2>1. h'.neutral = Head(toH[client]).shape
    BY <1>1 DEF FrameNeutral, TypeOK, HolderState
  <2>2. Reads /\ Head(toH[client]).tag = "NEUTRAL"
    BY <1>1, ReadTags
  <2>3. Head(toH[client]).shape \in UsbShapes \cup {None}
    BY <2>2, ReadFacts DEF SessionOK
  <2> QED BY <2>1, <2>3 DEF NeutralOK
<1>2. CASE FrameDestroy \/ HolderStops
  BY <1>2 DEF FrameDestroy, HolderStops, NewHolder, NeutralOK
<1>3. CASE ~FrameNeutral /\ ~FrameDestroy /\ ~HolderStops
  BY <1>3, NeutralSteps DEF NeutralOK
<1> QED BY <1>1, <1>2, <1>3

\* Every step keeps the means to rest a press.
LEMMA PressStep ==
  ASSUME TypeOK, LoopOK, DeviceOK, OnceOK, SessionsOK, NeutralOK, PressOK, ServedOK, [Next]_vars
  PROVE  PressOK'
<1> SUFFICES ASSUME PressedUsb' PROVE h'.started /\ h'.neutral # None /\ client' # None
  BY DEF PressOK
<1> USE HolderAssumption
<1>1. CASE ~PressedUsb
  <2>1. FrameInput /\ h.started /\ Head(toH[client]).shape \in UsbShapes
    BY <1>1, PressSteps
  <2>2. Reads /\ Head(toH[client]).tag = "INPUT"
    BY <2>1, ReadTags
  <2>3. client # None /\ client' = client
    BY <2>2, ReadFacts
  <2>4. h.neutral # None
    BY <2>1, <2>2, <2>3, ReadFacts DEF ServedOK, Opens
  <2>5. h' = h
    BY <2>1 DEF FrameInput
  <2> QED BY <2>1, <2>3, <2>4, <2>5
<1>2. CASE PressedUsb
  <2>1. h.started /\ h.neutral # None /\ client # None /\ k.bound /\ h.uhid
    BY <1>2 DEF PressOK, OnceOK, PressedUsb, DeviceOK
  <2>2. ~CreateFails /\ ~CreateMakes /\ ~FrameDestroy /\ ~HolderStops
    <3>1. (KDestroy \/ KClose \/ \E s : KCreate(s)) => k'.input = "rest"
      BY DEF KDestroy, KCreate, KClose, NoDevice, Fresh
    <3>2. ~KDestroy /\ ~KClose /\ \A s : ~KCreate(s)
      BY <3>1 DEF PressedUsb
    <3> QED BY <2>1, <3>2 DEF CreateFails, CreateMakes, FrameDestroy, HolderStops
  <2>3. ~ClientGone
    <3>1. ~KInput(h.neutral, "rest")
      BY <2>1 DEF KInput, PressedUsb, TypeOK, Device
    <3> QED BY <2>1, <3>1 DEF ClientGone
  <2>4. ~FrameNeutral
    <3>1. ASSUME FrameNeutral PROVE FALSE
      <4>1. Reads /\ Head(toH[client]).tag = "NEUTRAL"
        BY <3>1, ReadTags
      <4>2. Opens(toH[client])
        BY <4>1, ReadFacts DEF Opens
      <4> QED BY <1>2, <2>1, <4>2 DEF ServedOK
    <3> QED BY <3>1
  <2>5. ~EventStop
    <3>1. ASSUME EventStop PROVE FALSE
      <4>1. events[1].tag = "STOP" /\ 1 \in 1..Len(events)
        BY <3>1 DEF EventStop, ReadEvent, TypeOK
      <4>2. k.alive
        BY <1>2 DEF PressedUsb
      <4> QED BY <2>1, <4>1, <4>2 DEF OnceOK
    <3> QED BY <3>1
  <2>6. h'.neutral = h.neutral
    BY <2>2, <2>4, NeutralSteps
  <2>7. h'.started
    <3>1. CASE EventStart
      BY <3>1 DEF EventStart, TypeOK, HolderState
    <3>2. CASE UNCHANGED h
      BY <2>1, <3>2
    <3> QED
      BY <2>2, <2>3, <2>4, <2>5, <3>1, <3>2
      DEF Next, HolderStep, KernelStep, ProxyStep, Poll, AcceptServes, AcceptRefuses, CreateReuses,
          FrameInput, FrameReply, ClientGone, EventOutput, EventRequest, HolderStarts,
          DriverBinds, DriverUnbinds, KernelOutput, KernelGivesUp, KernelAsks,
          ProxyConnects, ProxyInput, ProxyCreates, ProxyArms, ProxyReads, ProxyLowers, ProxyDrops,
          holderVars, vars
  <2>8. client' # None
    <3>1. CASE Quiet \/ Reads \/ \E f \in ToHolder : Sends(f)
      BY <2>1, <3>1 DEF Quiet, Reads, Sends
    <3>2. ~AcceptServes /\ (AcceptRefuses => client' = client)
      BY <2>1 DEF AcceptServes, AcceptRefuses
    <3>3. ASSUME NEW c, NEW s, ProxyConnects(c, s) PROVE client' = client
      BY <3>3 DEF ProxyConnects, holderVars
    <3> QED BY <2>1, <2>2, <2>3, <3>1, <3>2, <3>3, QueueSteps
  <2> QED BY <2>6, <2>7, <2>8, <2>1
<1> QED BY <1>1, <1>2

\* Every step keeps the press and the report to rest with in step with what is
\* served.
LEMMA ServedStep ==
  ASSUME TypeOK, LoopOK, DeviceOK, OnceOK, QueueInv, RestInv, [Next]_vars
  PROVE  ServedOK'
<1> DEFINE q == toH[client]
           t == Tail(q)
           Rests(p, neutral) ==
             /\ \A i \in 1..Len(p) : p[i].tag = "INPUT" /\ p[i].shape \in UsbShapes => neutral # None
             /\ conn = client /\ pc = "relay" /\ want \in UsbShapes => neutral # None
<1> USE HolderAssumption DEF QueueInv, RestInv
<1>1. client # None => /\ Opens(q) \/ (conn = client /\ pc \in {"hello", "await"}) => ~PressedUsb
                       /\ ~Opens(q) => Rests(q, h.neutral)
  BY DEF ServedOK
<1>2. SUFFICES ASSUME client' # None
               PROVE  /\ Opens(toH'[client']) \/ (conn' = client' /\ pc' \in {"hello", "await"})
                           => ~PressedUsb'
                      /\ ~Opens(toH'[client']) =>
                           /\ \A i \in 1..Len(toH'[client']) :
                                toH'[client'][i].tag = "INPUT" /\ toH'[client'][i].shape \in UsbShapes
                                  => h'.neutral # None
                           /\ conn' = client' /\ pc' = "relay" /\ want' \in UsbShapes
                                => h'.neutral # None
  BY DEF ServedOK, Opens
<1>3. CASE Reads /\ ReadsFrame
  <2>1. /\ client \in Conns /\ client # None /\ q \in Seq(ToHolder) /\ q # << >> /\ SessionOK(q)
        /\ Head(q) = q[1] /\ 1 \in 1..Len(q) /\ toH'[client] = t
        /\ \A i \in 1..Len(t) : t[i] = q[i + 1] /\ i + 1 \in 1..Len(q)
        /\ UNCHANGED <<client, pc, conn, want>>
    BY <1>3, ReadFacts
  <2>2. /\ Opens(t) => q[1].tag = "CREATE"
        /\ q[1].tag = "CREATE" /\ t # << >> => Opens(t)
        /\ q[1].tag = "DESTROY" => t = << >>
        /\ t = << >> => Len(q) < 2
    BY <2>1, TailKeeps
  <2>3. SUFFICES /\ Opens(t) \/ (conn = client /\ pc \in {"hello", "await"}) => ~PressedUsb'
                 /\ ~Opens(t) => Rests(t, h'.neutral)
    BY <2>1
  <2>4. conn = client /\ pc \in {"hello", "await"} => pc = "await" /\ q[1].tag = "CREATE"
    BY <2>1 DEF ConnOK
  <2>5. Opens(q) <=> q[1].tag \in {"CREATE", "NEUTRAL"}
    BY <2>1 DEF Opens
  <2> HIDE DEF q, t
  <2>6. CASE q[1].tag = "CREATE"
    <3>1. ~PressedUsb
      BY <1>1, <2>1, <2>5, <2>6
    <3>2. ~FrameInput
      BY <2>1, <2>6, ReadTags DEF q
    <3>3. ~PressedUsb'
      BY <3>1, <3>2, PressSteps
    <3>4. ASSUME ~Opens(t) PROVE Rests(t, h'.neutral)
      <4>1. t = << >>
        BY <2>2, <2>6, <3>4
      <4>2. Len(q) < 2
        BY <2>2, <4>1
      <4>3. ~(conn = client /\ pc = "relay")
        BY <2>1, <2>6, <4>2 DEF ConnOK, q
      <4> QED BY <4>1, <4>3
    <3> QED BY <3>3, <3>4
  <2>7. CASE q[1].tag = "NEUTRAL"
    <3>1. ~PressedUsb
      BY <1>1, <2>1, <2>5, <2>7
    <3>2. ~FrameInput
      BY <2>1, <2>7, ReadTags DEF q
    <3>3. ~PressedUsb'
      BY <3>1, <3>2, PressSteps
    <3>4. ~FrameDestroy /\ ~HolderStops
      <4>1. ~FrameDestroy
        BY <2>1, <2>7, ReadTags DEF q
      <4> QED BY <1>2, <4>1 DEF HolderStops
    <3>5. h'.neutral = q[1].shape \/ (h'.neutral = h.neutral /\ ~FrameNeutral)
      <4>1. FrameNeutral => h'.neutral = q[1].shape
        BY <2>1 DEF FrameNeutral, TypeOK, HolderState, q
      <4> QED BY <3>4, <4>1, NeutralSteps
    <3>6. FrameNeutral
      BY <1>3, <2>1, <2>7, ReadTags DEF q, ReadsFrame
    <3>7. h'.neutral = q[1].shape
      BY <3>5, <3>6
    <3>8. ASSUME NEW i \in 1..Len(t), t[i].tag = "INPUT", t[i].shape \in UsbShapes
          PROVE  q[1].shape # None
      BY <2>1, <2>7, <3>8 DEF SessionOK
    <3>9. conn = client /\ pc = "relay" /\ want \in UsbShapes => q[1].shape # None
      BY <2>1, <2>7 DEF ConnOK, NeutralOf, q
    <3> QED BY <3>3, <3>7, <3>8, <3>9
  <2>8. CASE q[1].tag = "DESTROY"
    <3>1. ~(conn = client /\ pc \in {"hello", "await", "relay"})
      BY <2>1, <2>8 DEF ConnOK, q
    <3> QED BY <2>2, <2>8, <3>1 DEF Opens
  <2>9. CASE q[1].tag \notin {"CREATE", "NEUTRAL", "DESTROY"}
    <3>1. Rests(q, h.neutral) /\ ~Opens(t)
      BY <1>1, <2>1, <2>2, <2>5, <2>9
    <3>2. h'.neutral = h.neutral
      BY <1>2, <2>1, <2>9, ReadTags, NeutralSteps DEF q, HolderStops
    <3> QED BY <2>1, <2>4, <2>9, <3>1, <3>2
  <2> QED BY <2>6, <2>7, <2>8, <2>9
<1>4. CASE ~(Reads /\ ReadsFrame)
  <2>1. h'.neutral = h.neutral /\ (PressedUsb' => PressedUsb)
    BY <1>2, <1>4, ReadTags, NeutralSteps, PressSteps DEF HolderStops, ReadsFrame
  <2>2. CASE Quiet
    BY <1>1, <1>2, <2>1, <2>2 DEF Quiet
  <2>3. CASE AcceptRefuses
    <3>1. client' = client /\ UNCHANGED <<pc, conn, want>> /\ client # Head(backlog)
          /\ client \in Conns
      <4>1. Head(backlog) = backlog[1] /\ 1 \in 1..Len(backlog)
        BY <2>3 DEF AcceptRefuses, LoopOK, TypeOK
      <4>2. Head(backlog) # client
        BY <4>1 DEF WaitingOK
      <4> QED BY <2>3, <4>2 DEF AcceptRefuses, TypeOK, proxyVars
    <3>2. toH'[client'] = q
      BY <2>3, <3>1, QueueOf
    <3> QED BY <1>1, <1>2, <2>1, <3>1, <3>2
  <2>4. CASE AcceptServes
    <3>1. client = None /\ client' = Head(backlog) /\ UNCHANGED <<toH, pc, conn, want>>
      BY <2>4 DEF AcceptServes, proxyVars
    <3>2. ~PressedUsb'
      BY <2>1, <3>1 DEF PressOK
    <3>3. Head(backlog) = backlog[1] /\ 1 \in 1..Len(backlog)
      BY <2>4 DEF AcceptServes, LoopOK, TypeOK
    <3>4. ~Opens(toH[client']) => toH[client'] = << >> /\ (conn = client' /\ pc # "down" => pc = "hello")
      BY <3>1, <3>3 DEF WaitingOK, Opens
    <3> QED BY <3>1, <3>2, <3>4
  <2>5. CASE \E c \in Conns, s \in Shapes : ProxyConnects(c, s)
    <3> PICK c \in Conns, s \in Shapes : ProxyConnects(c, s)
      BY <2>5
    <3>1. client' = client /\ conn' = c /\ c \notin hopen
      BY DEF ProxyConnects, holderVars
    <3>2. client \in hopen /\ c # client /\ client \in Conns
      BY <1>2, <3>1 DEF WaitingOK, TypeOK
    <3>3. toH'[client'] = q
      BY <3>1, <3>2, QueueOf
    <3> QED BY <1>1, <1>2, <2>1, <3>1, <3>2, <3>3
  <2>6. CASE \E f \in ToHolder : Sends(f)
    <3> PICK f \in ToHolder : Sends(f)
      BY <2>6
    <3>1. client' = client /\ client \in Conns /\ want' = want /\ (conn' = conn \/ conn' = None)
      BY <1>2 DEF Sends, TypeOK
    <3>2. CASE conn # client
      <4>1. toH'[client'] = q /\ conn' # client'
        BY <1>2, <3>1, <3>2, QueueOf
      <4> QED BY <1>1, <1>2, <2>1, <3>1, <4>1
    <3>3. CASE conn = client
      <4> DEFINE r == Append(q, f)
      <4>1. toH'[client'] = r
        BY <3>1, <3>3, QueueOf
      <4>2. /\ Opens(q) => Opens(r)
            /\ Opens(r) => Opens(q) \/ pc \in {"hello", "await"}
            /\ pc \in {"hello", "await"} => Opens(r)
            /\ \A i \in 1..Len(r) : r[i] = f \/ (i \in 1..Len(q) /\ r[i] = q[i])
        BY <3>3, AppendKeeps DEF Sends
      <4>3. pc \in {"hello", "await", "relay"} /\ Continues(f)
        BY DEF Sends, Continues
      <4>4. pc' \in {"hello", "await"} => pc \in {"hello", "await"}
        BY <4>3 DEF Sends
      <4> HIDE DEF r, q
      <4>5. Opens(r) \/ (conn' = client' /\ pc' \in {"hello", "await"}) => ~PressedUsb'
        BY <1>1, <1>2, <2>1, <3>1, <3>3, <4>2, <4>4
      <4>6. ASSUME ~Opens(r)
            PROVE  /\ \A i \in 1..Len(r) : r[i].tag = "INPUT" /\ r[i].shape \in UsbShapes
                                             => h'.neutral # None
                   /\ conn' = client' /\ pc' = "relay" /\ want' \in UsbShapes => h'.neutral # None
        <5>1. ~Opens(q) /\ pc = "relay"
          BY <4>2, <4>3, <4>6
        <5>2. Rests(q, h.neutral)
          BY <1>1, <1>2, <3>1, <5>1
        <5>3. f.tag = "INPUT" => f.shape = want
          BY <4>3, <5>1 DEF Continues
        <5> QED BY <2>1, <3>1, <3>3, <4>2, <5>1, <5>2, <5>3
      <4> QED BY <4>1, <4>5, <4>6
    <3> QED BY <3>2, <3>3
  <2> QED BY <1>2, <1>4, <2>2, <2>3, <2>4, <2>5, <2>6, QueueSteps DEF ClientGone, HolderStops
<1> QED BY <1>3, <1>4

-----------------------------------------------------------------------------
(* The refinement.                                                           *)

LEMMA PadInvInit == Init => PadInv
<1> SUFFICES ASSUME Init PROVE PadInv
  OBVIOUS
<1> USE HolderAssumption
<1>1. IInv
  BY InitOK
<1>2. OnceOK /\ NeutralOK /\ PressOK /\ ServedOK
  BY DEF Init, OnceOK, NeutralOK, PressOK, ServedOK, PressedUsb, NewHolder, NoDevice, Fresh
<1> QED BY <1>1, <1>2, QueueInit DEF PadInv, RestInv

LEMMA PadInvStep ==
  ASSUME MaxBinds <= 1, PadInv, [Next]_vars
  PROVE  PadInv'
<1>1. TypeOK /\ LoopOK /\ DeviceOK /\ IInv
  BY DEF PadInv, IInv
<1>2. IInv' /\ TypeOK'
  BY <1>1, NextOK DEF IInv
<1>3. OnceOK'
  BY <1>1, OnceStep DEF PadInv
<1>4. SessionsOK' /\ ConnOK' /\ WaitingOK'
  BY <1>1, <1>2, SessionsStep, ConnStep, WaitStep DEF PadInv, QueueInv
<1>5. NeutralOK' /\ PressOK' /\ ServedOK'
  BY <1>1, NeutralStep, PressStep, ServedStep DEF PadInv, QueueInv, RestInv
<1> QED BY <1>2, <1>3, <1>4, <1>5 DEF PadInv, QueueInv, RestInv

\* In every state the daemon, the sockets and the games reach, a press comes
\* with the means to rest it.
LEMMA PadInvariance == MaxBinds <= 1 => (Spec => []PadInv)
<1> SUFFICES ASSUME MaxBinds <= 1 PROVE Spec => []PadInv
  OBVIOUS
<1>1. PadInv /\ [Next]_vars => PadInv'
  BY PadInvStep
<1> QED BY <1>1, PadInvInit, PTL DEF Spec

\* The end of a proxy's stream leaves the pad as Pad has it.
LEMMA Parks ==
  ASSUME PadInv, ClientGone
  PROVE  Promised!ProxyGoes
<1> USE HolderAssumption
<1>1. /\ TypeOK /\ DeviceOK /\ OnceOK /\ NeutralOK /\ PressOK
      /\ client # None /\ client' = None /\ up' = up
  BY DEF PadInv, IInv, RestInv, LoopOK, ClientGone
<1>2. k.input \in {"rest", "press", "alien"}
  BY <1>1 DEF TypeOK, Device
<1>3. /\ k'.alive = k.alive /\ k'.shape = k.shape /\ k'.bound = k.bound
      /\ \/ k'.input = k.input /\ ~PressedUsb
         \/ k'.input = "alien"
         \/ k'.input = "rest" /\ k.alive /\ k.shape \in UsbShapes
  <2>1. CASE h.started /\ h.neutral # None /\ h.uhid
    <3>1. KInput(h.neutral, "rest") /\ h.neutral \in UsbShapes
      BY <1>1, <2>1 DEF ClientGone, NeutralOK
    <3>2. CASE k.bound
      BY <1>1, <3>1, <3>2 DEF KInput, TypeOK, Device, DeviceOK
    <3>3. CASE ~k.bound
      BY <1>1, <3>1, <3>3 DEF KInput, OnceOK, PressedUsb
    <3> QED BY <3>2, <3>3
  <2>2. CASE ~(h.started /\ h.neutral # None /\ h.uhid)
    BY <1>1, <2>2 DEF ClientGone, PressOK, PressedUsb, DeviceOK
  <2> QED BY <2>1, <2>2
<1> DEFINE pad == IF k.alive THEN k.shape ELSE None
<1>4. k'.input \in (IF pad \in UsbShapes THEN {"rest", "alien"} ELSE {k.input, "alien"})
  <2>1. CASE pad \in UsbShapes
    <3>1. k.alive /\ k.shape \in UsbShapes
      BY <2>1
    <3> QED BY <1>2, <1>3, <2>1, <3>1 DEF PressedUsb
  <2>2. CASE pad \notin UsbShapes
    BY <1>3, <2>2
  <2> QED BY <2>1, <2>2
<1>5. (IF k'.alive THEN k'.shape ELSE None) = pad
  BY <1>3
<1> QED BY <1>1, <1>3, <1>4, <1>5 DEF Promised!ProxyGoes

\* Every step of the daemon, the kernel and the proxy is a step of Pad or shows
\* nothing.
LEMMA PadStep ==
  ASSUME MaxBinds <= 1, PadInv, [Next]_vars
  PROVE  [Promised!Next]_Promised!vars
<1> USE HolderAssumption
<1>1. TypeOK /\ LoopOK /\ DeviceOK /\ OnceOK
  BY DEF PadInv, IInv
<1>2. ASSUME k'.alive = k.alive, k'.shape = k.shape, k'.bound = k.bound, k'.input = k.input,
             client' = client, up' = up
      PROVE  UNCHANGED Promised!vars
  BY <1>2 DEF Promised!vars
<1>3. CASE AcceptServes
  <2>1. up /\ up' = up /\ client = None /\ client' # None /\ k' = k
    BY <1>1, <1>3 DEF AcceptServes, LoopOK, TypeOK, kernelVars
  <2>2. Promised!ProxyComes
    BY <2>1 DEF Promised!ProxyComes
  <2> QED BY <2>2 DEF Promised!Next
<1>4. CASE ClientGone
  BY <1>4, Parks DEF Promised!Next
<1>5. CASE CreateMakes
  <2> DEFINE s == Head(toH[client]).shape
  <2>1. /\ s \in Shapes /\ h.key # s /\ KCreate(s) /\ client # None /\ client' = client
        /\ up' = up
    BY <1>1, <1>5, Payloads, QueueTypes DEF CreateMakes, ReadFrame
  <2>2. k.bound => k.alive /\ k.shape # s
    BY <1>1, <2>1 DEF DeviceOK, OnceOK
  <2> HIDE DEF s
  <2>3. k'.alive = TRUE /\ k'.shape = s /\ k'.bound = FALSE /\ k'.input = "rest"
    BY <2>1 DEF KCreate, Fresh
  <2>4. Promised!Raise(s)
    BY <2>1, <2>2, <2>3 DEF Promised!Raise
  <2> QED BY <2>1, <2>4 DEF Promised!Next
<1>6. CASE CreateFails \/ FrameDestroy
  <2>1. client # None /\ client' = client /\ up' = up
    BY <1>1, <1>6 DEF CreateFails, FrameDestroy, ReadFrame, LoopOK
  <2>2. CASE UNCHANGED kernelVars
    BY <1>2, <2>1, <2>2 DEF kernelVars
  <2>3. CASE KDestroy \/ KClose
    <3>1. k'.alive = FALSE /\ k'.bound = FALSE /\ k'.input = "rest"
      BY <2>3 DEF KDestroy, KClose, NoDevice, Fresh
    <3>2. Promised!Lower
      BY <2>1, <3>1 DEF Promised!Lower
    <3> QED BY <3>2 DEF Promised!Next
  <2> QED BY <1>6, <2>2, <2>3 DEF CreateFails, FrameDestroy
<1>7. CASE FrameInput
  <2>1. client # None /\ client' = client /\ up' = up
    BY <1>1, <1>7 DEF FrameInput, ReadFrame, LoopOK
  <2>2. CASE k' = k
    BY <1>2, <2>1, <2>2
  <2>3. CASE k' # k
    <3>1. PICK s, v : KInput(s, v) /\ v \in {"rest", "press"}
      BY <1>1, <1>7, <2>3, Payloads, QueueTypes DEF FrameInput
    <3>2. /\ k.bound /\ k'.bound = k.bound /\ k'.alive = k.alive /\ k'.shape = k.shape
          /\ k'.input \in {"rest", "press", "alien"}
      BY <1>1, <2>3, <3>1 DEF KInput, TypeOK, Device
    <3>3. Promised!Show
      BY <2>1, <3>2 DEF Promised!Show
    <3> QED BY <3>3 DEF Promised!Next
  <2> QED BY <2>2, <2>3
<1>8. CASE DriverBinds \/ DriverUnbinds
  <2>1. /\ k.alive /\ k.shape # None /\ k'.alive = k.alive /\ k'.shape = k.shape
        /\ k'.bound = ~k.bound /\ k'.input = "rest" /\ client' = client /\ up' = up
    BY <1>1, <1>8 DEF DriverBinds, DriverUnbinds, DeviceOK, OnceOK, TypeOK, Device, holderVars
  <2>2. Promised!DriverMoves
    BY <2>1 DEF Promised!DriverMoves
  <2> QED BY <2>2 DEF Promised!Next
<1>9. CASE HolderStops
  <2>1. /\ up /\ up' = FALSE
        /\ client' = None /\ k'.alive = FALSE /\ k'.bound = FALSE /\ k'.input = "rest"
    BY <1>9 DEF HolderStops, KClose, NoDevice, Fresh
  <2>2. Promised!DaemonDies
    BY <2>1 DEF Promised!DaemonDies
  <2> QED BY <2>2 DEF Promised!Next
<1>10. CASE FrameReply \/ EventRequest
  <2>1. k' = k \/ \E r : KReply(r)
    BY <1>10 DEF FrameReply, EventRequest
  <2>2. client' = client /\ up' = up
    BY <1>10 DEF FrameReply, EventRequest, ReadFrame, ReadEvent
  <2>3. k'.alive = k.alive /\ k'.shape = k.shape /\ k'.bound = k.bound /\ k'.input = k.input
    BY <1>1, <2>1 DEF KReply, TypeOK, Device
  <2> QED BY <1>2, <2>2, <2>3
<1>11. CASE KernelGivesUp \/ \E kind \in Kinds : KernelAsks(kind)
  <2>1. client' = client /\ up' = up
    BY <1>11 DEF KernelGivesUp, KernelAsks, holderVars
  <2>2. k'.alive = k.alive /\ k'.shape = k.shape /\ k'.bound = k.bound /\ k'.input = k.input
    BY <1>1, <1>11 DEF KernelGivesUp, KernelAsks, TypeOK, Device
  <2> QED BY <1>2, <2>1, <2>2
<1>12. CASE HolderStarts
  <2>1. Promised!DaemonStarts
    BY <1>12 DEF HolderStarts, Promised!DaemonStarts, kernelVars
  <2> QED BY <2>1 DEF Promised!Next
<1>13. CASE UNCHANGED <<k, client, up>>
  BY <1>2, <1>13
<1> QED
  BY <1>3, <1>4, <1>5, <1>6, <1>7, <1>8, <1>9, <1>10, <1>11, <1>12, <1>13
  DEF Next, HolderStep, KernelStep, ProxyStep, Poll, AcceptRefuses, CreateReuses, FrameNeutral,
      EventStart, EventStop, EventOutput, ReadFrame, ReadEvent, KernelOutput,
      ProxyConnects, ProxyInput, ProxyCreates, ProxyArms, ProxyReads, ProxyLowers, ProxyDrops,
      holderVars, kernelVars, vars

\* The daemon, with the kernel device behind it and any proxy in front of it,
\* implements Pad for every set of shapes and connections and every bound, if a
\* driver binds at most once to a device.
THEOREM HolderImplementsPad == MaxBinds <= 1 => (Spec => ImplementsPad)
<1> SUFFICES ASSUME MaxBinds <= 1 PROVE Spec => ImplementsPad
  OBVIOUS
<1>1. Init => Promised!Init
  BY DEF Init, Promised!Init, NoDevice, Fresh
<1>2. PadInv /\ [Next]_vars => [Promised!Next]_Promised!vars
  BY PadStep
<1>3. Spec => []PadInv
  BY PadInvariance
<1> QED BY <1>1, <1>2, <1>3, PTL DEF Spec, Promised!Spec, ImplementsPad

\* Whatever implements Pad leaves no press behind.
THEOREM PadParks == Promised!Spec => []Promised!Parked
<1>1. Promised!Init => Promised!Parked
  BY DEF Promised!Init, Promised!Parked
<1>2. Promised!Parked /\ [Promised!Next]_Promised!vars => Promised!Parked'
  BY DEF Promised!Parked, Promised!Next, Promised!vars, Promised!ProxyComes, Promised!ProxyGoes,
         Promised!Raise, Promised!Lower, Promised!Show, Promised!DriverMoves, Promised!DaemonDies,
         Promised!DaemonStarts
<1> QED
  BY <1>1, <1>2, PTL DEF Promised!Spec

\* When the proxy has gone no button is left down on a pad that can be put at
\* rest (the daemon's header: the state cannot freeze at last-pressed values).
THEOREM HolderParks == MaxBinds <= 1 => (Spec => []Promised!Parked)
BY HolderImplementsPad, PadParks DEF ImplementsPad

\* While the daemon runs, a pad with a driver on it goes away only for another
\* shape or on request (Holder::frame, CREATE and DESTROY).
THEOREM PadSurvives == MaxBinds <= 1 => (Spec => BoundPadSurvives)
<1> SUFFICES ASSUME MaxBinds <= 1 PROVE Spec => BoundPadSurvives
  OBVIOUS
<1> DEFINE Asked == /\ client # None
                    /\ \/ Head(toH[client]).tag = "DESTROY"
                       \/ /\ Head(toH[client]).tag = "CREATE"
                          /\ Head(toH[client]).shape # k.shape
           Goes == k.bound /\ up' /\ (k'.dev # k.dev \/ ~k'.alive)
<1>1. ASSUME PadInv, [Next]_vars, Goes PROVE Asked
  <2>1. TypeOK /\ LoopOK /\ DeviceOK /\ OnceOK
    BY <1>1 DEF PadInv, IInv
  <2>2. k.bound /\ k.alive /\ up' /\ h.key = k.shape
    BY <1>1, <2>1 DEF DeviceOK, OnceOK
  <2>3. ASSUME k'.dev = k.dev, k'.alive = k.alive PROVE FALSE
    BY <1>1, <2>2, <2>3
  <2>4. CASE CreateFails \/ CreateMakes
    BY <2>1, <2>2, <2>4 DEF CreateFails, CreateMakes, ReadFrame, LoopOK
  <2>5. CASE FrameDestroy
    BY <2>1, <2>5 DEF FrameDestroy, LoopOK
  <2>6. ~HolderStops
    BY <2>2 DEF HolderStops
  <2>7. CASE \/ k' = k
             \/ \E s, v : KInput(s, v)
             \/ \E r : KReply(r)
    BY <2>1, <2>3, <2>7 DEF KInput, KReply, TypeOK, Device
  <2>8. CASE DriverBinds \/ DriverUnbinds \/ KernelGivesUp \/ \E kind \in Kinds : KernelAsks(kind)
    BY <2>1, <2>3, <2>8, Zenon
       DEF DriverBinds, DriverUnbinds, KernelGivesUp, KernelAsks, TypeOK, Device
  <2> QED
    BY <1>1, <2>4, <2>5, <2>6, <2>7, <2>8
    DEF Next, HolderStep, KernelStep, ProxyStep, Poll, AcceptServes, AcceptRefuses, CreateReuses,
        FrameInput, FrameNeutral, FrameReply, ClientGone, EventStart, EventStop, EventOutput,
        EventRequest, HolderStarts, KernelOutput, ProxyConnects, ProxyInput, ProxyCreates,
        ProxyArms, ProxyReads, ProxyLowers, ProxyDrops, holderVars, kernelVars, vars
<1>2. PadInv /\ [Next]_vars => [Goes => Asked]_vars
  BY <1>1
<1> QED BY <1>2, PadInvariance, PTL DEF Spec, BoundPadSurvives

=============================================================================
