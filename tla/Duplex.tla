------------------------------- MODULE Duplex -------------------------------
(***************************************************************************)
(* The two loops at the ends of a holder connection, and what their writes *)
(* wait for.  Both ends use blocking sockets without timeouts: a daemon     *)
(* that writes to a full socket waits for the proxy to read, and a proxy    *)
(* that writes to a full socket waits for the daemon.  Frames are counted,  *)
(* not looked at.                                                           *)
(***************************************************************************)
EXTENDS Naturals

CONSTANTS
  CapH,    \* frames that fit in the socket towards the daemon
  CapP     \* frames that fit in the socket towards the proxy

ASSUME DuplexAssumption == CapH \in Nat /\ CapP \in Nat

VARIABLES
  toH,      \* frames on their way to the daemon
  toP,      \* frames on their way to the proxy
  hpc,      \* what the daemon's turn does next
  event,    \* did the daemon's poll find a kernel event?
  ppc,      \* what the proxy's turn does next
  frame,    \* did the proxy's poll find a frame from the daemon?
  answered  \* requests answered since an end last found its socket empty

daemonVars == <<hpc, event>>
proxyVars  == <<ppc, frame, answered>>
vars       == <<toH, toP, daemonVars, proxyVars>>

Smaller == IF CapH < CapP THEN CapH ELSE CapP
Larger  == IF CapH < CapP THEN CapP ELSE CapH

\* Nothing limits how many requests are made or are under way: games poll
\* reports for as long as they run, and the kernel that gives up on one makes
\* the next.  The count of answers stops where the properties cease to care.
OneMore == IF answered < Smaller THEN answered + 1 ELSE answered

TypeOK ==
  /\ toH \in 0..CapH /\ toP \in 0..CapP
  /\ hpc \in {"poll", "recv", "send"} /\ event \in BOOLEAN
  /\ ppc \in {"poll", "input", "recv", "reply"} /\ frame \in BOOLEAN
  /\ answered \in 0..Smaller

Init ==
  /\ toH = 0 /\ toP = 0
  /\ hpc = "poll" /\ event = FALSE
  /\ ppc = "poll" /\ frame = FALSE /\ answered = 0

-----------------------------------------------------------------------------
(* The daemon: one frame from the proxy, then one event from the kernel.     *)

DaemonPolls ==
  /\ hpc = "poll"
  /\ event' \in BOOLEAN
  /\ hpc' = CASE toH > 0 -> "recv" [] toH = 0 /\ event' -> "send" [] OTHER -> "poll"
  /\ answered' = IF toH = 0 THEN 0 ELSE answered
  /\ UNCHANGED <<toH, toP, ppc, frame>>

DaemonReceives ==
  /\ hpc = "recv" /\ toH > 0
  /\ toH' = toH - 1
  /\ hpc' = IF event THEN "send" ELSE "poll"
  /\ UNCHANGED <<toP, event, proxyVars>>

\* Mutant: every pending kernel event is forwarded before the next poll.
DrainsEvents ==
  /\ hpc = "send" /\ toP < CapP
  /\ toP' = toP + 1
  /\ hpc' \in {"poll", "send"}
  /\ UNCHANGED <<toH, event, proxyVars>>

\* Mutant: a full socket does not make the daemon wait.
ForwardsAnyway ==
  /\ hpc = "send"
  /\ toP' = toP + 1
  /\ hpc' = "poll"
  /\ UNCHANGED <<toH, event, proxyVars>>

DaemonForwards ==
  /\ hpc = "send" /\ toP < CapP
  /\ toP' = toP + 1
  /\ hpc' = "poll"
  /\ UNCHANGED <<toH, event, proxyVars>>

-----------------------------------------------------------------------------
(* The proxy: one report from the pad, then one frame from the daemon.       *)

AfterInput == IF frame THEN "recv" ELSE "poll"

ProxyPolls ==
  /\ ppc = "poll"
  /\ frame' = (toP > 0)
  /\ ppc' \in {"input", AfterInput'}
  /\ answered' = IF toP = 0 THEN 0 ELSE answered
  /\ UNCHANGED <<toH, toP, daemonVars>>

\* A report that is paused, paced or not a control frame ends the turn.
ProxyDrops ==
  /\ ppc = "input"
  /\ ppc' = "poll"
  /\ UNCHANGED <<toH, toP, daemonVars, frame, answered>>

\* Mutant: the turn also ends after a report is relayed.
RelaysOnly ==
  /\ ppc = "input" /\ toH < CapH
  /\ toH' = toH + 1
  /\ ppc' = "poll"
  /\ UNCHANGED <<toP, daemonVars, frame, answered>>

ProxyRelays ==
  /\ ppc = "input" /\ toH < CapH
  /\ toH' = toH + 1
  /\ ppc' = AfterInput
  /\ UNCHANGED <<toP, daemonVars, frame, answered>>

\* Mutant: the frames are read without another poll.
DrainsFrames ==
  /\ ppc = "recv" /\ toP > 0
  /\ toP' = toP - 1
  /\ \/ ppc' \in {"poll", "recv"} /\ UNCHANGED answered
     \/ ppc' = "reply" /\ answered' = OneMore
  /\ UNCHANGED <<toH, daemonVars, frame>>

ProxyReceives ==
  /\ ppc = "recv" /\ toP > 0
  /\ toP' = toP - 1
  /\ \/ ppc' = "poll" /\ UNCHANGED answered
     \/ ppc' = "reply" /\ answered' = OneMore
  /\ UNCHANGED <<toH, daemonVars, frame>>

ProxyAnswers ==
  /\ ppc = "reply" /\ toH < CapH
  /\ toH' = toH + 1
  /\ ppc' = "poll"
  /\ UNCHANGED <<toP, daemonVars, frame, answered>>

Next ==
  \/ DaemonPolls \/ DaemonReceives \/ DaemonForwards
  \/ ProxyPolls \/ ProxyDrops \/ ProxyRelays \/ ProxyReceives \/ ProxyAnswers

Spec == Init /\ [][Next]_vars

-----------------------------------------------------------------------------

\* Both ends wait in a write for room that only the other can make.
Standoff ==
  /\ hpc = "send" /\ toP = CapP
  /\ ppc \in {"input", "reply"} /\ toH = CapH

\* The daemon and the proxy come to wait for each other only if as many
\* requests, all but one, as a socket holds frames are answered while neither
\* end ever catches up with the other (run, relay_loop): pad input, outputs
\* and a backlog alone, however fast, never stop the pad.
StandoffTakesAnswers == Standoff => answered + 1 >= Smaller

\* A poll that promised a frame is right when the frame is read: neither end
\* blocks in a read, whatever was written in between.
ReadsFindFrames ==
  /\ hpc = "recv" => toH > 0
  /\ ppc = "recv" \/ (ppc = "input" /\ frame) => toP > 0

\* Frames on the wire and writes decided on, less the read to come.  Each turn
\* of either end reads as much as it writes unless it found nothing to read,
\* and then its end of the wire was empty.
One(b) == IF b THEN 1 ELSE 0
Load ==
  toH + toP + One(hpc = "send") + One(ppc = "input" /\ ~frame) + One(ppc = "reply")
LoadBounded == answered < Smaller => Load <= Larger + answered + 2 + One(ppc = "recv")

=============================================================================
