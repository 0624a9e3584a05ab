--------------------------------- MODULE Pad ---------------------------------
(***************************************************************************)
(* What the holder promises to the games: a pad that comes and goes with    *)
(* the daemon and with what a proxy asks for, never with the proxy itself,  *)
(* and that is left at rest when nobody drives it.  Holder implements this. *)
(***************************************************************************)
CONSTANTS
  Shapes,     \* pad presentations
  UsbShapes,  \* the presentations that can be put at rest
  None        \* no pad

VARIABLES
  up,     \* is the daemon running?
  pad,    \* the shape of the virtual pad, or None
  nodes,  \* has a driver made the nodes that games hold?
  shown,  \* the input the games see
  served  \* is a proxy driving the pad?

vars == <<up, pad, nodes, shown, served>>

Init == up = TRUE /\ pad = None /\ nodes = FALSE /\ shown = "rest" /\ served = FALSE

ProxyComes ==
  /\ up /\ ~served /\ served' = TRUE
  /\ UNCHANGED <<up, pad, nodes, shown>>

\* No press is left on a pad that has a report to rest with; a report left over
\* from another shape may be read as something else.
ProxyGoes ==
  /\ served /\ served' = FALSE
  /\ shown' \in (IF pad \in UsbShapes THEN {"rest", "alien"} ELSE {shown, "alien"})
  /\ UNCHANGED <<up, pad, nodes>>

\* A pad that games hold gives way to one of another shape only.
Raise(s) ==
  /\ served /\ (nodes => pad # s)
  /\ pad' = s /\ nodes' = FALSE /\ shown' = "rest"
  /\ UNCHANGED <<up, served>>

Lower ==
  /\ served /\ pad' = None /\ nodes' = FALSE /\ shown' = "rest"
  /\ UNCHANGED <<up, served>>

\* Input reaches the games from a proxy that drives the pad and from no other.
Show ==
  /\ served /\ nodes /\ shown' \in {"rest", "press", "alien"}
  /\ UNCHANGED <<up, pad, nodes, served>>

DriverMoves ==
  /\ pad # None /\ nodes' = ~nodes /\ shown' = "rest"
  /\ UNCHANGED <<up, pad, served>>

\* Only the end of the daemon itself takes the pad away unasked.
DaemonDies ==
  /\ up /\ up' = FALSE
  /\ pad' = None /\ nodes' = FALSE /\ shown' = "rest" /\ served' = FALSE

DaemonStarts ==
  /\ ~up /\ up' = TRUE
  /\ UNCHANGED <<pad, nodes, shown, served>>

Next ==
  \/ ProxyComes \/ ProxyGoes \/ Lower \/ Show \/ DriverMoves
  \/ DaemonDies \/ DaemonStarts
  \/ \E s \in Shapes : Raise(s)

Spec == Init /\ [][Next]_vars

\* With no proxy served, no button is left down on a pad that can be put at
\* rest (the holder's header: the state can't freeze at last-pressed values).
Parked == ~served /\ pad \in UsbShapes => shown # "press"

=============================================================================
