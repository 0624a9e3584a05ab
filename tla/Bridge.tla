------------------------------- MODULE Bridge -------------------------------
(***************************************************************************)
(* The bridge between the proxy and the overlays: an accept loop, a reader  *)
(* thread for the clients, and the relay loop, which feeds them.  The       *)
(* threads share the client list under a mutex and PAUSED as an atomic; the *)
(* relay loop's gate, which PAUSED closes, is in Relay.  A client is known  *)
(* by the number of its file descriptor.                                    *)
(***************************************************************************)
EXTENDS Naturals, Sequences, FiniteSets

CONSTANTS
  Conns,     \* overlay connections, each made once
  Stallers,  \* the ones that may stop reading, so that a write to them times out
  Starved,   \* the ones whose descriptor may fail to be duplicated
  MaxLines,  \* bound: mode lines an overlay sends
  None

VARIABLES
  \* the overlays
  status,   \* new, open or closed
  wants,    \* the mode an overlay last asked for
  sent,     \* mode lines it has sent
  inbox,    \* its lines that nobody has read
  told,     \* what it was last told of the button, or None
  \* the bridge
  backlog,  \* connections waiting in the listener
  acc,      \* the connection being negotiated, or None
  readers,  \* the reader threads: which connection, the key, the duplicate
  clients,  \* BridgeState.clients
  prev,     \* BridgeState.prev_btn: is the button down?
  paused,   \* PAUSED
  \* history
  unwatched \* connections that were listed without a reader

overlayVars == <<status, wants, sent>>
listVars    == <<clients, paused>>
vars == <<overlayVars, inbox, told, backlog, acc, readers, listVars, prev, unwatched>>

Modes  == {"Watch", "Hold"}
Fds    == 1..(2 * Cardinality(Conns))
Client == [fd : Fds, conn : Conns, mode : Modes]
Reader == [key : Fds, conn : Conns, dup : Fds]

ASSUME BridgeAssumption ==
  /\ IsFiniteSet(Conns) /\ Stallers \subseteq Conns /\ Starved \subseteq Conns
  /\ MaxLines \in Nat /\ None \notin Conns \cup BOOLEAN \cup Client

TypeOK ==
  /\ status \in [Conns -> {"new", "open", "closed"}]
  /\ wants \in [Conns -> Modes] /\ sent \in [Conns -> 0..MaxLines]
  /\ inbox \in [Conns -> Seq(Modes)]
  /\ told \in [Conns -> BOOLEAN \cup {None}]
  /\ backlog \in Seq(Conns)
  /\ acc \in Client \cup {None}
  /\ readers \subseteq Reader /\ clients \subseteq Client
  /\ prev \in BOOLEAN /\ paused \in BOOLEAN
  /\ unwatched \subseteq Starved

Init ==
  /\ status = [c \in Conns |-> "new"] /\ wants = [c \in Conns |-> "Hold"]
  /\ sent = [c \in Conns |-> 0] /\ inbox = [c \in Conns |-> <<>>]
  /\ told = [c \in Conns |-> None]
  /\ backlog = <<>> /\ acc = None /\ readers = {} /\ clients = {}
  /\ prev = FALSE /\ paused = FALSE
  /\ unwatched = {}

-----------------------------------------------------------------------------
(* The overlays.                                                             *)

Connects(c) ==
  /\ status[c] = "new"
  /\ status' = [status EXCEPT ![c] = "open"]
  /\ backlog' = Append(backlog, c)
  /\ UNCHANGED <<wants, sent, inbox, told, acc, readers, listVars, prev, unwatched>>

SendsMode(c, m) ==
  /\ status[c] = "open" /\ sent[c] < MaxLines
  /\ sent' = [sent EXCEPT ![c] = @ + 1]
  /\ wants' = [wants EXCEPT ![c] = m]
  /\ inbox' = [inbox EXCEPT ![c] = Append(@, m)]
  /\ UNCHANGED <<status, told, backlog, acc, readers, listVars, prev, unwatched>>

Closes(c) ==
  /\ status[c] = "open"
  /\ status' = [status EXCEPT ![c] = "closed"]
  /\ UNCHANGED <<wants, sent, inbox, told, backlog, acc, readers, listVars, prev, unwatched>>

-----------------------------------------------------------------------------
(* The bridge.                                                               *)

\* The kernel gives out the lowest free descriptor.
UsedFds ==
  {c.fd : c \in clients} \cup {r.dup : r \in readers}
    \cup (IF acc = None THEN {} ELSE {acc.fd})
LowestFd == CHOOSE f \in Fds \ UsedFds : \A g \in Fds \ UsedFds : f <= g

AnyHold(cs) == \E c \in cs : c.mode = "Hold"

\* Change the client list and recompute PAUSED under the same lock.
SetClients(cs) == clients' = cs /\ paused' = AnyHold(cs)

Accepts ==
  /\ acc = None /\ backlog # <<>>
  /\ acc' = [fd |-> LowestFd, conn |-> Head(backlog), mode |-> "Hold"]
  /\ backlog' = Tail(backlog)
  /\ UNCHANGED <<overlayVars, inbox, told, readers, listVars, prev, unwatched>>

\* The negotiation reads through a duplicate; without one the connection is
\* dropped again.
Drops ==
  /\ acc = None /\ backlog # <<>> /\ Head(backlog) \in Starved
  /\ status' = [status EXCEPT ![Head(backlog)] = "closed"]
  /\ backlog' = Tail(backlog)
  /\ UNCHANGED <<wants, sent, inbox, told, acc, readers, listVars, prev, unwatched>>

\* Mutant: all that has arrived is taken for the mode.
NegotiatesAll ==
  /\ acc # None /\ inbox[acc.conn] # <<>>
  /\ acc' = [acc EXCEPT !.mode = inbox[acc.conn]]
  /\ inbox' = [inbox EXCEPT ![acc.conn] = <<>>]
  /\ UNCHANGED <<overlayVars, told, backlog, readers, listVars, prev, unwatched>>

\* A first line within the window.  The buffered reader takes everything that
\* has arrived and only its first line is looked at.
Negotiates ==
  /\ acc # None /\ inbox[acc.conn] # <<>>
  /\ acc' = [acc EXCEPT !.mode = Head(inbox[acc.conn])]
  /\ inbox' = [inbox EXCEPT ![acc.conn] = <<>>]
  /\ UNCHANGED <<overlayVars, told, backlog, readers, listVars, prev, unwatched>>

\* Mutant: every connection restarts the edge detection.
RegisterResets ==
  /\ acc # None
  /\ SetClients(clients \cup {acc})
  /\ prev' = FALSE
  /\ readers' = readers \cup {[key |-> acc.fd, conn |-> acc.conn, dup |-> LowestFd]}
  /\ acc' = None
  /\ UNCHANGED <<overlayVars, inbox, told, backlog, unwatched>>

\* Mutant: the connection gets no reader.
RegisterUnwatched ==
  /\ acc # None
  /\ SetClients(clients \cup {acc})
  /\ prev' = IF clients = {} THEN FALSE ELSE prev
  /\ acc' = None
  /\ UNCHANGED <<overlayVars, inbox, told, backlog, readers, unwatched>>

\* The window is over: the connection joins the list.  It gets a reader if its
\* descriptor can be duplicated.  The first of a session restarts the edge
\* detection.
Registers ==
  /\ acc # None
  /\ SetClients(clients \cup {acc})
  /\ prev' = IF clients = {} THEN FALSE ELSE prev
  /\ \/ /\ readers' = readers \cup {[key |-> acc.fd, conn |-> acc.conn, dup |-> LowestFd]}
        /\ UNCHANGED unwatched
     \/ /\ acc.conn \in Starved
        /\ unwatched' = unwatched \cup {acc.conn}
        /\ UNCHANGED readers
  /\ acc' = None
  /\ UNCHANGED <<overlayVars, inbox, told, backlog>>

\* A mode line at any later time goes to whichever client has the key now.
ReaderSwitches(r) ==
  /\ inbox[r.conn] # <<>>
  /\ inbox' = [inbox EXCEPT ![r.conn] = Tail(@)]
  /\ SetClients({IF c.fd = r.key THEN [c EXCEPT !.mode = Head(inbox[r.conn])] ELSE c :
                   c \in clients})
  /\ UNCHANGED <<overlayVars, told, backlog, acc, readers, prev, unwatched>>

\* Mutant: PAUSED is left as it was.
EndsWithoutSync(r) ==
  /\ inbox[r.conn] = <<>> /\ status[r.conn] = "closed"
  /\ clients' = {c \in clients : c.fd # r.key}
  /\ readers' = readers \ {r}
  /\ UNCHANGED <<overlayVars, inbox, told, backlog, acc, paused, prev, unwatched>>

\* At the end of the stream whatever client has the key is taken off the list.
ReaderEnds(r) ==
  /\ inbox[r.conn] = <<>> /\ status[r.conn] = "closed"
  /\ SetClients({c \in clients : c.fd # r.key})
  /\ readers' = readers \ {r}
  /\ UNCHANGED <<overlayVars, inbox, told, backlog, acc, prev, unwatched>>

-----------------------------------------------------------------------------
(* The relay loop: every report is fed to the overlays.                      *)

\* Who is written to: all of them on a button edge, those that hold when a
\* stick has moved.
WrittenTo(pressed, moved) ==
  {c \in clients : pressed # prev \/ (moved /\ c.mode = "Hold")}

\* A write to a closed overlay fails, one to an overlay that has stopped
\* reading may.
Failing(written) ==
  {failed \in SUBSET written :
     \A c \in written :
       /\ status[c.conn] = "closed" => c \in failed
       /\ c \in failed => status[c.conn] = "closed" \/ c.conn \in Stallers}

Tells(pressed, listed) ==
  /\ told' = [c \in Conns |->
                IF pressed # prev /\ \E x \in listed : x.conn = c THEN pressed ELSE told[c]]
  /\ prev' = IF clients = {} THEN prev ELSE pressed

\* Mutant: PAUSED is left as it was.
FeedWithoutSync(pressed, moved) ==
  \E failed \in Failing(WrittenTo(pressed, moved)) :
    /\ clients' = clients \ failed
    /\ Tells(pressed, clients \ failed)
    /\ UNCHANGED <<overlayVars, inbox, backlog, acc, readers, paused, unwatched>>

\* Clients that a write to has failed are taken off the list.
Feed(pressed, moved) ==
  \E failed \in Failing(WrittenTo(pressed, moved)) :
    /\ IF failed = {} THEN UNCHANGED listVars ELSE SetClients(clients \ failed)
    /\ Tells(pressed, clients \ failed)
    /\ UNCHANGED <<overlayVars, inbox, backlog, acc, readers, unwatched>>

-----------------------------------------------------------------------------

BridgeStep ==
  \/ Accepts \/ Drops \/ Negotiates \/ Registers
  \/ \E r \in readers : ReaderSwitches(r) \/ ReaderEnds(r)

RelayStep == \E pressed, moved \in BOOLEAN : Feed(pressed, moved)

OverlayStep ==
  \E c \in Conns : Connects(c) \/ Closes(c) \/ \E m \in Modes : SendsMode(c, m)

Next == BridgeStep \/ RelayStep \/ OverlayStep

Spec == Init /\ [][Next]_vars

\* The accept loop and the reader threads run; nothing is assumed of the pad
\* or of the overlays.
FairSpec ==
  /\ Spec
  /\ WF_vars(Accepts \/ Drops) /\ WF_vars(Registers)
  /\ \A c \in Conns : WF_vars(\E r \in readers : r.conn = c /\ (ReaderSwitches(r) \/ ReaderEnds(r)))

-----------------------------------------------------------------------------

\* The game's input is paused exactly while a client on the list holds it.
PausedIsHeld == paused = AnyHold(clients)

\* No two live descriptors share a number, and a client's reader outlives it:
\* unless it never got one, a client can still leave the list when its overlay
\* goes, whatever other readers do to the list (accept_client).
ClientsAreWatched ==
  /\ \A c, d \in clients : c.fd = d.fd => c = d
  /\ \A c \in clients : c.conn \in unwatched \/ \E r \in readers : r.key = c.fd /\ r.conn = c.conn

\* An overlay is told every edge once: a press is followed by its release, and
\* a client that joins or leaves does not disturb what the others are told.
EdgesAlternate ==
  [][prev' # prev =>
       \A c \in Conns : (\E x \in clients \cap clients' : x.conn = c) => told'[c] # told[c] ]_vars

\* Hold mode: while an overlay that asked to hold (or never said) is connected
\* and reads what it is sent, the game's input is paused.
Served(c) == /\ status[c] = "open" /\ acc = None /\ inbox[c] = <<>> /\ c \notin Stallers
             /\ \A i \in DOMAIN backlog : backlog[i] # c
HoldPauses == \A c \in Conns : Served(c) /\ wants[c] = "Hold" => paused

AllGone == \A c \in Conns : status[c] # "open"

\* The game's input resumes when the last overlay is gone, unless one that held
\* it had no reader.
Resumes ==
  AllGone ~> \/ ~paused \/ ~AllGone
             \/ \E c \in clients : c.mode = "Hold" /\ c.conn \in unwatched

\* Edges go on being fed for as long as there is anybody to feed.
PadIsUsed ==
  []<>(clients = {}) \/ []<><<\E moved \in BOOLEAN : Feed(~prev, moved)>>_vars

\* With or without a reader, overlays that are gone do not keep the game paused
\* while the pad's buttons go on being used (feed, sync_paused).
LetGo == PadIsUsed => (AllGone ~> (~paused \/ ~AllGone))

=============================================================================
