----------------------------- MODULE BridgeProofs -----------------------------
(***************************************************************************)
(* What holds of the bridge for any number of overlays: the pause agrees    *)
(* with the list, a client keeps the reader it got, edges alternate.        *)
(***************************************************************************)
EXTENDS Bridge, FiniteSetTheorems, WellFoundedInduction, TLAPS

\* A connection is made once and moves on: it waits in the listener, then it is
\* negotiated, then it is on the list and may have a reader.
QueueInv ==
  \A i \in 1..Len(backlog) :
    /\ status[backlog[i]] # "new"
    /\ acc # None => acc.conn # backlog[i]
    /\ \A r \in readers : r.conn # backlog[i]
    /\ \A c \in clients : c.conn # backlog[i]
    /\ \A j \in 1..Len(backlog) : backlog[i] = backlog[j] => i = j

ReaderInv ==
  /\ acc # None => status[acc.conn] # "new" /\ \A r \in readers : r.conn # acc.conn
  /\ \A r \in readers : status[r.conn] # "new"
  /\ \A r, s \in readers : r.conn = s.conn => r = s

ListInv ==
  /\ acc # None => \A c \in clients : c.conn # acc.conn
  /\ \A c \in clients : status[c.conn] # "new"
  /\ \A c, d \in clients : c.conn = d.conn => c = d

\* The connection being negotiated has a number of its own.
FreshInv == acc # None => \A c \in clients : c.fd # acc.fd

\* Who has been told something has joined the list, and who is on the list was
\* told last what the edge detection has seen last.
ToldInv ==
  /\ \A c \in Conns : told[c] # None =>
       /\ status[c] # "new"
       /\ \A i \in 1..Len(backlog) : backlog[i] # c
       /\ acc # None => acc.conn # c
  /\ \A x \in clients : told[x.conn] \in {None, prev}

IInv ==
  /\ TypeOK /\ QueueInv /\ ReaderInv /\ ListInv /\ FreshInv /\ ToldInv
  /\ PausedIsHeld /\ ClientsAreWatched

USE DEF overlayVars, listVars, Modes

-----------------------------------------------------------------------------
(* Descriptors.                                                              *)

\* A set of numbers has a least one.
LEMMA LeastExists ==
  ASSUME NEW S \in SUBSET Nat, S # {}
  PROVE  \E m \in S : \A n \in S : m <= n
<1> DEFINE R == OpToRel(<, Nat)
<1>1. PICK m \in S : \A n \in S : ~(<<n, m>> \in R)
  BY NatLessThanWellFounded, WFMin
<1>2. ASSUME NEW n \in S, ~(m <= n) PROVE FALSE
  <2>1. n \in Nat /\ m \in Nat /\ n < m
    BY <1>2
  <2>2. <<n, m>> \in Nat \X Nat /\ <<n, m>>[1] < <<n, m>>[2]
    BY <2>1
  <2>3. <<n, m>> \in R
    BY <2>2 DEF OpToRel
  <2> QED BY <1>1, <2>3
<1> QED BY <1>2

LEMMA Bounds == Cardinality(Conns) \in Nat /\ IsFiniteSet(Fds) /\ Cardinality(Fds) = 2 * Cardinality(Conns)
<1>1. Cardinality(Conns) \in Nat
  BY BridgeAssumption, FS_CardinalityType
<1> DEFINE N == 2 * Cardinality(Conns)
<1>2. 1 \in Int /\ N \in Int /\ N \in Nat
  BY <1>1
<1> HIDE DEF N
<1>3. IsFiniteSet(1..N) /\ Cardinality(1..N) = IF 1 > N THEN 0 ELSE N - 1 + 1
  BY <1>2, FS_Interval
<1>4. Cardinality(1..N) = N
  BY <1>2, <1>3
<1> QED BY <1>1, <1>3, <1>4 DEF N, Fds

\* A set of things that belong to different connections other than x is smaller
\* than the set of connections, and so is what is numbered by it.
LEMMA FewerThanConns ==
  ASSUME NEW x \in Conns, NEW S, NEW f \in [S -> Conns], NEW g \in [S -> Fds],
         \A c \in S : f[c] # x,
         \A c, d \in S : f[c] = f[d] => c = d
  PROVE  LET T == {g[c] : c \in S}
         IN  IsFiniteSet(T) /\ Cardinality(T) \in Nat /\ Cardinality(T) < Cardinality(Conns)
<1> DEFINE D == Conns \ {x}
           T == {g[c] : c \in S}
<1>1. IsFiniteSet(D) /\ Cardinality(D) = Cardinality(Conns) - 1
  BY BridgeAssumption, FS_RemoveElement
<1>2. f \in Injection(S, D)
  BY DEF Injection, IsInjective
<1>3. IsFiniteSet(S) /\ Cardinality(S) <= Cardinality(D)
  BY <1>1, <1>2, FS_Injection
<1>4. g \in Surjection(S, T)
  BY DEF Surjection
<1>5. IsFiniteSet(T) /\ Cardinality(T) <= Cardinality(S)
  BY <1>3, <1>4, FS_Surjection
<1>6. Cardinality(T) \in Nat /\ Cardinality(S) \in Nat /\ Cardinality(Conns) \in Nat
  BY <1>3, <1>5, Bounds, FS_CardinalityType
<1> QED BY <1>1, <1>3, <1>5, <1>6

\* A connection that is not on the list yet, and has no reader.
Absent(x) == (\A r \in readers : r.conn # x) /\ \A c \in clients : c.conn # x

\* While a connection is not on the list, a descriptor is free for it.
LEMMA FreeFd ==
  ASSUME TypeOK, ReaderInv, ListInv, NEW x \in Conns, Absent(x)
  PROVE  LowestFd \in Fds \ UsedFds
<1> DEFINE A == {c.fd : c \in clients}
           B == {r.dup : r \in readers}
           C == IF acc = None THEN {} ELSE {acc.fd}
<1>1. IsFiniteSet(A) /\ Cardinality(A) \in Nat /\ Cardinality(A) < Cardinality(Conns)
  <2> DEFINE f == [c \in clients |-> c.conn]
             g == [c \in clients |-> c.fd]
  <2>1. f \in [clients -> Conns] /\ g \in [clients -> Fds]
    BY DEF TypeOK, Client
  <2>2. \A c \in clients : f[c] # x
    BY DEF Absent
  <2>3. \A c, d \in clients : f[c] = f[d] => c = d
    BY DEF ListInv
  <2>4. {g[c] : c \in clients} = A
    OBVIOUS
  <2> HIDE DEF f, g, A
  <2>5. LET T == {g[c] : c \in clients}
        IN  IsFiniteSet(T) /\ Cardinality(T) \in Nat /\ Cardinality(T) < Cardinality(Conns)
    BY <2>1, <2>2, <2>3, FewerThanConns
  <2> QED BY <2>4, <2>5
<1>2. IsFiniteSet(B) /\ Cardinality(B) \in Nat /\ Cardinality(B) < Cardinality(Conns)
  <2> DEFINE f == [r \in readers |-> r.conn]
             g == [r \in readers |-> r.dup]
  <2>1. f \in [readers -> Conns] /\ g \in [readers -> Fds]
    BY DEF TypeOK, Reader
  <2>2. \A r \in readers : f[r] # x
    BY DEF Absent
  <2>3. \A r, s \in readers : f[r] = f[s] => r = s
    BY DEF ReaderInv
  <2>4. {g[r] : r \in readers} = B
    OBVIOUS
  <2> HIDE DEF f, g, B
  <2>5. LET T == {g[r] : r \in readers}
        IN  IsFiniteSet(T) /\ Cardinality(T) \in Nat /\ Cardinality(T) < Cardinality(Conns)
    BY <2>1, <2>2, <2>3, FewerThanConns
  <2> QED BY <2>4, <2>5
<1>3. IsFiniteSet(C) /\ Cardinality(C) \in Nat /\ Cardinality(C) <= 1
  <2>1. CASE acc = None
    <3>1. C = {}
      BY <2>1
    <3>2. Cardinality(C) = 0 /\ IsFiniteSet(C)
      BY <3>1, FS_EmptySet
    <3> QED BY <3>2
  <2>2. CASE acc # None
    <3>1. C = {acc.fd}
      BY <2>2
    <3>2. Cardinality(C) = 1 /\ IsFiniteSet(C)
      BY <3>1, FS_Singleton
    <3> QED BY <3>2
  <2> QED BY <2>1, <2>2
<1> HIDE DEF A, B, C
<1>4. /\ IsFiniteSet(A \cup B) /\ Cardinality(A \cup B) \in Nat
      /\ Cardinality(A \cup B) <= Cardinality(A) + Cardinality(B)
  <2>1. /\ IsFiniteSet(A \cup B)
        /\ Cardinality(A \cup B) = Cardinality(A) + Cardinality(B) - Cardinality(A \cap B)
    BY <1>1, <1>2, FS_Union
  <2>2. IsFiniteSet(A \cap B)
    BY <1>1, FS_Intersection
  <2>3. Cardinality(A \cap B) \in Nat /\ Cardinality(A \cup B) \in Nat
    BY <2>1, <2>2, FS_CardinalityType
  <2> QED BY <1>1, <1>2, <2>1, <2>3
<1>5. /\ IsFiniteSet(UsedFds) /\ Cardinality(UsedFds) \in Nat
      /\ Cardinality(UsedFds) < 2 * Cardinality(Conns)
  <2>1. UsedFds = (A \cup B) \cup C
    BY DEF UsedFds, A, B, C
  <2>2. /\ IsFiniteSet(UsedFds)
        /\ Cardinality(UsedFds) = Cardinality(A \cup B) + Cardinality(C) - Cardinality((A \cup B) \cap C)
    BY <1>3, <1>4, <2>1, FS_Union
  <2>3. IsFiniteSet((A \cup B) \cap C)
    BY <1>4, FS_Intersection
  <2>4. Cardinality((A \cup B) \cap C) \in Nat /\ Cardinality(UsedFds) \in Nat
    BY <2>2, <2>3, FS_CardinalityType
  <2> QED BY <1>1, <1>2, <1>3, <1>4, <2>2, <2>4, Bounds
<1>6. Fds \ UsedFds # {}
  <2> SUFFICES ASSUME Fds \ UsedFds = {} PROVE FALSE
    OBVIOUS
  <2>1. Fds \in SUBSET UsedFds
    OBVIOUS
  <2>2. Cardinality(Fds) <= Cardinality(UsedFds)
    BY <1>5, <2>1, FS_Subset
  <2> QED BY <1>5, <2>2, Bounds
<1>7. Fds \ UsedFds \in SUBSET Nat
  BY Bounds DEF Fds
<1>8. \E f \in Fds \ UsedFds : \A g \in Fds \ UsedFds : f <= g
  BY <1>6, <1>7, LeastExists
<1> QED BY <1>8 DEF LowestFd

-----------------------------------------------------------------------------
(* Every step keeps the invariant, conjunct by conjunct.                     *)

\* What the list may become: a client joins, one changes its mode, some leave.
LEMMA SwitchKeepsClients ==
  ASSUME TypeOK, NEW r \in readers, ReaderSwitches(r)
  PROVE  /\ clients' \subseteq Client
         /\ \A d \in clients' : \E c \in clients : d.fd = c.fd /\ d.conn = c.conn
         /\ \A d, e \in clients' : ClientsAreWatched /\ d.fd = e.fd => d = e
         /\ \A d, e \in clients' : ListInv /\ d.conn = e.conn => d = e
<1> DEFINE New(c) == IF c.fd = r.key THEN [c EXCEPT !.mode = Head(inbox[r.conn])] ELSE c
<1>1. clients' = {New(c) : c \in clients}
  BY DEF ReaderSwitches, SetClients
<1>2. r.conn \in Conns /\ inbox[r.conn] \in Seq({"Watch", "Hold"}) /\ inbox[r.conn] # << >>
  BY DEF TypeOK, Reader, ReaderSwitches
<1>3. Head(inbox[r.conn]) \in {"Watch", "Hold"}
  BY <1>2
<1>4. \A c \in clients : New(c) \in Client /\ New(c).fd = c.fd /\ New(c).conn = c.conn
  BY <1>3 DEF TypeOK, Client
<1> HIDE DEF New
<1>5. ASSUME NEW d \in clients', NEW e \in clients', ClientsAreWatched, d.fd = e.fd
      PROVE  d = e
  <2>1. PICK c \in clients : d = New(c)
    BY <1>1
  <2>2. PICK b \in clients : e = New(b)
    BY <1>1
  <2>3. c = b
    BY <1>4, <1>5, <2>1, <2>2 DEF ClientsAreWatched
  <2> QED BY <2>1, <2>2, <2>3
<1>6. ASSUME NEW d \in clients', NEW e \in clients', ListInv, d.conn = e.conn
      PROVE  d = e
  <2>1. PICK c \in clients : d = New(c)
    BY <1>1
  <2>2. PICK b \in clients : e = New(b)
    BY <1>1
  <2>3. c = b
    BY <1>4, <1>6, <2>1, <2>2 DEF ListInv
  <2> QED BY <2>1, <2>2, <2>3
<1> QED BY <1>1, <1>4, <1>5, <1>6

\* What is taken from the listener, and what is negotiated.
LEMMA Accepted ==
  ASSUME TypeOK, QueueInv, ReaderInv, ListInv, Accepts
  PROVE  /\ acc' \in Client /\ acc' # None
         /\ acc'.fd \in Fds \ UsedFds /\ acc'.conn = backlog[1] /\ acc'.conn \in Conns
<1>1. /\ backlog \in Seq(Conns) /\ backlog # << >>
      /\ acc' = [fd |-> LowestFd, conn |-> Head(backlog), mode |-> "Hold"]
  BY DEF TypeOK, Accepts
<1>2. Head(backlog) = backlog[1] /\ 1 \in 1..Len(backlog) /\ backlog[1] \in Conns
  BY <1>1
<1>3. LowestFd \in Fds \ UsedFds
  <2>1. (\A r \in readers : r.conn # backlog[1]) /\ \A c \in clients : c.conn # backlog[1]
    BY <1>2 DEF QueueInv
  <2> QED BY <1>2, <2>1, FreeFd DEF Absent
<1>4. acc' \in Client
  BY <1>1, <1>2, <1>3 DEF Client
<1> QED BY <1>1, <1>2, <1>3, <1>4, BridgeAssumption

LEMMA Negotiated ==
  ASSUME TypeOK, Negotiates
  PROVE  /\ acc \in Client /\ acc' \in Client /\ acc # None /\ acc' # None
         /\ acc'.fd = acc.fd /\ acc'.conn = acc.conn
<1>1. acc \in Client /\ acc # None
  BY DEF TypeOK, Negotiates
<1>2. inbox[acc.conn] \in Seq(Modes) /\ inbox[acc.conn] # << >>
  BY <1>1 DEF TypeOK, Negotiates, Client
<1>3. Head(inbox[acc.conn]) \in Modes
  BY <1>2
<1>4. acc' = [acc EXCEPT !.mode = Head(inbox[acc.conn])]
  BY DEF Negotiates
<1>5. acc' \in Client /\ acc'.fd = acc.fd /\ acc'.conn = acc.conn
  BY <1>1, <1>3, <1>4 DEF Client
<1> QED BY <1>1, <1>5, BridgeAssumption

LEMMA TypeStep ==
  ASSUME IInv, [Next]_vars
  PROVE  TypeOK'
<1> USE BridgeAssumption
<1>1. TypeOK /\ ReaderInv /\ ListInv
  BY DEF IInv
<1>2. ASSUME NEW c \in Conns, Connects(c) PROVE TypeOK'
  BY <1>1, <1>2 DEF Connects, TypeOK
<1>3. ASSUME NEW c \in Conns, NEW m \in Modes, SendsMode(c, m) PROVE TypeOK'
  BY <1>1, <1>3 DEF SendsMode, TypeOK
<1>4. ASSUME NEW c \in Conns, Closes(c) PROVE TypeOK'
  BY <1>1, <1>4 DEF Closes, TypeOK
<1>5. CASE Accepts
  <2>1. acc' \in Client /\ backlog' \in Seq(Conns)
    BY <1>1, <1>5, Accepted DEF IInv, Accepts, TypeOK
  <2> QED BY <1>1, <1>5, <2>1 DEF Accepts, TypeOK
<1>6. CASE Negotiates
  <2>1. acc \in Client /\ acc' \in Client
    BY <1>1, <1>6, Negotiated
  <2>2. inbox' \in [Conns -> Seq(Modes)]
    BY <1>1, <1>6, <2>1 DEF Negotiates, TypeOK, Client
  <2> QED BY <1>1, <1>6, <2>1, <2>2 DEF Negotiates, TypeOK
<1>7. CASE Registers
  <2>1. acc \in Client
    BY <1>1, <1>7 DEF Registers, TypeOK
  <2>2. LowestFd \in Fds
    BY <1>1, <1>7, <2>1, FreeFd DEF Registers, Client, ReaderInv, ListInv, Absent
  <2>3. readers' \subseteq Reader /\ clients' \subseteq Client
    BY <1>1, <1>7, <2>1, <2>2 DEF Registers, SetClients, Reader, Client, TypeOK
  <2>4. paused' \in BOOLEAN /\ prev' \in BOOLEAN /\ unwatched' \subseteq Starved
    BY <1>1, <1>7 DEF Registers, SetClients, AnyHold, TypeOK
  <2> QED BY <1>1, <1>7, <2>3, <2>4 DEF Registers, TypeOK
<1>8. ASSUME NEW r \in readers, ReaderSwitches(r) PROVE TypeOK'
  <2>1. clients' \subseteq Client
    BY <1>1, <1>8, SwitchKeepsClients
  <2>2. r.conn \in Conns /\ inbox' \in [Conns -> Seq(Modes)]
    BY <1>1, <1>8 DEF ReaderSwitches, TypeOK, Reader
  <2>3. paused' \in BOOLEAN
    BY <1>8 DEF ReaderSwitches, SetClients, AnyHold
  <2> QED BY <1>1, <1>8, <2>1, <2>2, <2>3 DEF ReaderSwitches, TypeOK
<1>9. ASSUME NEW r \in readers, ReaderEnds(r) PROVE TypeOK'
  BY <1>1, <1>9 DEF ReaderEnds, SetClients, AnyHold, TypeOK
<1>10. ASSUME NEW pressed \in BOOLEAN, NEW moved \in BOOLEAN, Feed(pressed, moved) PROVE TypeOK'
  <2>1. clients' \subseteq clients /\ paused' \in BOOLEAN
    BY <1>1, <1>10 DEF Feed, SetClients, AnyHold, TypeOK
  <2>2. told' \in [Conns -> BOOLEAN \cup {None}]
    BY <1>1, <1>10 DEF Feed, Tells, TypeOK
  <2>3. prev' \in BOOLEAN
    BY <1>1, <1>10 DEF Feed, Tells, TypeOK
  <2> QED BY <1>1, <1>10, <2>1, <2>2, <2>3 DEF Feed, TypeOK
<1>11. CASE Drops
  <2>1. /\ backlog \in Seq(Conns) /\ backlog # << >>
        /\ backlog' = Tail(backlog) /\ status' = [status EXCEPT ![Head(backlog)] = "closed"]
    BY <1>1, <1>11 DEF Drops, TypeOK
  <2>2. backlog' \in Seq(Conns) /\ status' \in [Conns -> {"new", "open", "closed"}]
    BY <1>1, <2>1 DEF TypeOK
  <2> QED BY <1>1, <1>11, <2>2 DEF Drops, TypeOK
<1>12. CASE UNCHANGED vars
  BY <1>1, <1>12 DEF vars, TypeOK
<1> QED
  BY <1>2, <1>3, <1>4, <1>5, <1>6, <1>7, <1>8, <1>9, <1>10, <1>11, <1>12
  DEF Next, BridgeStep, RelayStep, OverlayStep

\* Nobody is in two places.
LEMMA PlaceStep ==
  ASSUME IInv, [Next]_vars
  PROVE  QueueInv' /\ ReaderInv' /\ ListInv'
<1>1. TypeOK /\ QueueInv /\ ReaderInv /\ ListInv
  BY DEF IInv
<1>2. ASSUME NEW c \in Conns, Connects(c) PROVE QueueInv' /\ ReaderInv' /\ ListInv'
  <2>1. /\ backlog' = Append(backlog, c) /\ backlog \in Seq(Conns)
        /\ status[c] = "new" /\ status' = [status EXCEPT ![c] = "open"]
        /\ acc' = acc /\ readers' = readers /\ clients' = clients
    BY <1>1, <1>2 DEF Connects, TypeOK
  <2>2. \A d \in Conns : status[d] # "new" => d # c /\ status'[d] # "new"
    BY <1>1, <2>1 DEF TypeOK
  <2>3. status'[c] # "new"
    BY <1>1, <2>1 DEF TypeOK
  <2>4. ReaderInv' /\ ListInv'
    BY <1>1, <2>1, <2>2 DEF ReaderInv, ListInv, TypeOK, Client, Reader
  <2>5. \A i \in 1..Len(backlog) : backlog[i] \in Conns /\ backlog'[i] = backlog[i]
                                     /\ backlog[i] # c /\ status'[backlog[i]] # "new"
    BY <1>1, <2>1, <2>2 DEF QueueInv
  <2>6. Len(backlog') = Len(backlog) + 1 /\ backlog'[Len(backlog')] = c
    BY <2>1
  <2>7. /\ acc # None => acc.conn # c
        /\ \A r \in readers : r.conn # c
        /\ \A x \in clients : x.conn # c
    BY <1>1, <2>1 DEF ReaderInv, ListInv
  <2> QED BY <1>1, <2>1, <2>3, <2>4, <2>5, <2>6, <2>7 DEF QueueInv
<1>3. ASSUME NEW c \in Conns, (\E m \in Modes : SendsMode(c, m)) \/ Closes(c)
      PROVE  QueueInv' /\ ReaderInv' /\ ListInv'
  <2>1. /\ backlog' = backlog /\ acc' = acc /\ readers' = readers /\ clients' = clients
        /\ \A d \in Conns : status[d] # "new" => status'[d] # "new"
    BY <1>1, <1>3 DEF SendsMode, Closes, TypeOK
  <2>2. \A i \in 1..Len(backlog) : backlog[i] \in Conns
    BY <1>1 DEF TypeOK
  <2>3. QueueInv'
    BY <1>1, <2>1, <2>2 DEF QueueInv
  <2> QED BY <1>1, <2>1, <2>3 DEF ReaderInv, ListInv, TypeOK, Client, Reader
<1>4. CASE Accepts
  <2>1. /\ acc' # None /\ acc'.conn = backlog[1] /\ backlog \in Seq(Conns) /\ backlog # << >>
        /\ backlog' = Tail(backlog) /\ readers' = readers /\ clients' = clients /\ status' = status
    BY <1>1, <1>4, Accepted DEF Accepts, TypeOK
  <2>2. /\ Len(backlog') = Len(backlog) - 1 /\ 1 \in 1..Len(backlog)
        /\ \A i \in 1..Len(backlog') : backlog'[i] = backlog[i + 1] /\ i + 1 \in 1..Len(backlog)
    BY <2>1
  <2> QED BY <1>1, <2>1, <2>2 DEF QueueInv, ReaderInv, ListInv
<1>5. CASE Drops
  <2>1. /\ backlog \in Seq(Conns) /\ backlog # << >> /\ backlog' = Tail(backlog)
        /\ status' = [status EXCEPT ![Head(backlog)] = "closed"]
        /\ acc' = None /\ acc = None /\ readers' = readers /\ clients' = clients
    BY <1>1, <1>5 DEF Drops, TypeOK
  <2>2. /\ Len(backlog') = Len(backlog) - 1
        /\ \A i \in 1..Len(backlog') : backlog'[i] = backlog[i + 1] /\ i + 1 \in 1..Len(backlog)
    BY <2>1
  <2>3. \A d \in Conns : status[d] # "new" => status'[d] # "new"
    BY <1>1, <2>1 DEF TypeOK
  <2>4. \A i \in 1..Len(backlog) : backlog[i] \in Conns
    BY <2>1
  <2>5. QueueInv'
    BY <1>1, <2>1, <2>2, <2>3, <2>4 DEF QueueInv
  <2> QED BY <1>1, <2>1, <2>3, <2>5 DEF ReaderInv, ListInv, TypeOK, Client, Reader
<1>6. CASE Negotiates
  <2>1. acc' # None /\ acc'.conn = acc.conn /\ acc # None
    BY <1>1, <1>6, Negotiated
  <2> QED BY <1>1, <1>6, <2>1 DEF Negotiates, QueueInv, ReaderInv, ListInv
<1>7. CASE Registers
  <2>1. /\ acc # None /\ acc' = None /\ backlog' = backlog /\ status' = status
        /\ clients' = clients \cup {acc}
        /\ \A r \in readers' : r \in readers \/ r.conn = acc.conn
    BY <1>1, <1>7 DEF Registers, SetClients
  <2>2. \A r, s \in readers' \ readers : r = s
    BY <1>7 DEF Registers
  <2>3. status[acc.conn] # "new"
    BY <1>1, <2>1 DEF ReaderInv
  <2>4. QueueInv'
    BY <1>1, <2>1 DEF QueueInv
  <2>5. ReaderInv'
    BY <1>1, <2>1, <2>2, <2>3 DEF ReaderInv
  <2>6. ListInv'
    BY <1>1, <2>1, <2>3 DEF ListInv
  <2> QED BY <2>4, <2>5, <2>6
<1>8. ASSUME NEW r \in readers, ReaderSwitches(r) PROVE QueueInv' /\ ReaderInv' /\ ListInv'
  <2>1. UNCHANGED <<status, backlog, acc, readers>>
    BY <1>8 DEF ReaderSwitches
  <2>2. /\ \A d \in clients' : \E c \in clients : d.conn = c.conn
        /\ \A d, e \in clients' : d.conn = e.conn => d = e
    BY <1>1, <1>8, SwitchKeepsClients
  <2> QED BY <1>1, <2>1, <2>2 DEF QueueInv, ReaderInv, ListInv
<1>9. ASSUME NEW r \in readers, ReaderEnds(r) PROVE QueueInv' /\ ReaderInv' /\ ListInv'
  <2>1. /\ UNCHANGED <<status, backlog, acc>>
        /\ readers' \subseteq readers /\ clients' \subseteq clients
    BY <1>9 DEF ReaderEnds, SetClients
  <2> QED BY <1>1, <2>1 DEF QueueInv, ReaderInv, ListInv
<1>10. CASE RelayStep \/ UNCHANGED vars
  <2>1. UNCHANGED <<status, backlog, acc, readers>> /\ clients' \subseteq clients
    BY <1>10 DEF RelayStep, Feed, SetClients, vars
  <2> QED BY <1>1, <2>1 DEF QueueInv, ReaderInv, ListInv
<1> QED
  BY <1>2, <1>3, <1>4, <1>5, <1>6, <1>7, <1>8, <1>9, <1>10 DEF Next, BridgeStep, OverlayStep

\* Descriptors stay apart, readers stay with their clients.
LEMMA WatchStep ==
  ASSUME IInv, [Next]_vars
  PROVE  FreshInv' /\ ClientsAreWatched'
<1>1. TypeOK /\ QueueInv /\ ReaderInv /\ ListInv /\ FreshInv /\ ClientsAreWatched
  BY DEF IInv
<1>2. CASE Accepts
  <2>1. acc'.fd \notin UsedFds /\ UNCHANGED <<clients, readers, unwatched>>
    BY <1>1, <1>2, Accepted DEF Accepts
  <2> QED BY <1>1, <2>1 DEF UsedFds, FreshInv, ClientsAreWatched
<1>3. CASE Negotiates
  <2>1. acc # None /\ acc'.fd = acc.fd /\ UNCHANGED <<clients, readers, unwatched>>
    BY <1>1, <1>3, Negotiated DEF Negotiates
  <2> QED BY <1>1, <2>1 DEF FreshInv, ClientsAreWatched
<1>4. CASE Registers
  <2> DEFINE r == [key |-> acc.fd, conn |-> acc.conn, dup |-> LowestFd]
  <2>1. /\ acc # None /\ acc' = None
        /\ clients' = clients \cup {acc}
        /\ \/ readers' = readers \cup {r} /\ unwatched' = unwatched
           \/ readers' = readers /\ unwatched' = unwatched \cup {acc.conn}
    BY <1>4 DEF Registers, SetClients
  <2>2. r.key = acc.fd /\ r.conn = acc.conn
    OBVIOUS
  <2> HIDE DEF r
  <2> QED BY <1>1, <2>1, <2>2 DEF FreshInv, ClientsAreWatched
<1>5. ASSUME NEW r \in readers, ReaderSwitches(r) PROVE FreshInv' /\ ClientsAreWatched'
  <2>1. UNCHANGED <<acc, readers, unwatched>>
    BY <1>5 DEF ReaderSwitches
  <2>2. /\ \A d \in clients' : \E c \in clients : d.fd = c.fd /\ d.conn = c.conn
        /\ \A d, e \in clients' : d.fd = e.fd => d = e
    BY <1>1, <1>5, SwitchKeepsClients
  <2> QED BY <1>1, <2>1, <2>2 DEF FreshInv, ClientsAreWatched
<1>6. ASSUME NEW r \in readers, ReaderEnds(r) PROVE FreshInv' /\ ClientsAreWatched'
  <2>1. /\ acc' = acc /\ unwatched' = unwatched /\ readers' = readers \ {r}
        /\ \A c \in clients' : c \in clients /\ c.fd # r.key
    BY <1>6 DEF ReaderEnds, SetClients
  <2> QED BY <1>1, <2>1 DEF FreshInv, ClientsAreWatched
<1>7. CASE Drops \/ OverlayStep \/ RelayStep \/ UNCHANGED vars
  <2>1. UNCHANGED <<acc, readers, unwatched>> /\ clients' \subseteq clients
    BY <1>7 DEF Drops, OverlayStep, Connects, SendsMode, Closes, RelayStep, Feed, SetClients, vars
  <2> QED BY <1>1, <2>1 DEF FreshInv, ClientsAreWatched
<1> QED
  BY <1>2, <1>3, <1>4, <1>5, <1>6, <1>7 DEF Next, BridgeStep

\* PAUSED follows the list.
LEMMA PauseStep ==
  ASSUME IInv, [Next]_vars
  PROVE  PausedIsHeld'
<1>1. (\E cs : SetClients(cs)) => PausedIsHeld'
  BY DEF SetClients, PausedIsHeld, AnyHold
<1>2. UNCHANGED listVars => PausedIsHeld'
  BY DEF IInv, PausedIsHeld, AnyHold
<1>3. UNCHANGED listVars \/ \E cs : SetClients(cs)
  BY DEF Next, BridgeStep, Accepts, Drops, Negotiates, Registers, ReaderSwitches, ReaderEnds,
         RelayStep, Feed, OverlayStep, Connects, SendsMode, Closes, vars
<1> QED BY <1>1, <1>2, <1>3

\* What a turn of the relay loop tells the overlays.
LEMMA FeedTells ==
  ASSUME TypeOK, NEW pressed \in BOOLEAN, NEW moved \in BOOLEAN, Feed(pressed, moved)
  PROVE  /\ clients' \subseteq clients
         /\ clients = {} => prev' = prev
         /\ clients # {} => prev' = pressed
         /\ pressed = prev => told' = told
         /\ pressed # prev => \A x \in clients' : told'[x.conn] = pressed
         /\ \A c \in Conns : told'[c] # told[c] => \E x \in clients : x.conn = c
<1>1. PICK failed \in Failing(WrittenTo(pressed, moved)) :
        /\ IF failed = {} THEN UNCHANGED listVars ELSE SetClients(clients \ failed)
        /\ told' = [c \in Conns |->
                      IF pressed # prev /\ \E x \in clients \ failed : x.conn = c
                      THEN pressed ELSE told[c]]
  BY DEF Feed, Tells
<1>2. clients' = clients \ failed
  BY <1>1 DEF SetClients
<1>3. \A x \in clients' : x.conn \in Conns
  BY <1>2 DEF TypeOK, Client
<1>4. (clients = {} => prev' = prev) /\ (clients # {} => prev' = pressed)
  BY DEF Feed, Tells
<1>5. ASSUME pressed = prev PROVE told' = told
  <2>1. told' = [c \in Conns |-> told[c]]
    BY <1>1, <1>5
  <2> QED BY <2>1 DEF TypeOK
<1>6. ASSUME pressed # prev, NEW x \in clients' PROVE told'[x.conn] = pressed
  BY <1>1, <1>2, <1>3, <1>6
<1>7. ASSUME NEW c \in Conns, told'[c] # told[c] PROVE \E x \in clients : x.conn = c
  BY <1>1, <1>7
<1> QED BY <1>2, <1>4, <1>5, <1>6, <1>7

\* Where a client's connection is not.
LEMMA ClientsAreSettled ==
  ASSUME IInv, NEW x \in clients
  PROVE  /\ x.conn \in Conns /\ status[x.conn] # "new"
         /\ \A i \in 1..Len(backlog) : backlog[i] # x.conn
         /\ acc # None => acc.conn # x.conn
<1>1. x.conn \in Conns
  BY DEF IInv, TypeOK, Client
<1>2. \A i \in 1..Len(backlog) : backlog[i] # x.conn
  BY DEF IInv, QueueInv
<1> QED BY <1>1, <1>2 DEF IInv, ListInv

LEMMA ToldStep ==
  ASSUME IInv, [Next]_vars
  PROVE  ToldInv'
<1>1. TypeOK /\ ToldInv /\ ReaderInv
  BY DEF IInv
<1>2. ASSUME NEW c \in Conns, Connects(c) PROVE ToldInv'
  <2>1. /\ backlog' = Append(backlog, c) /\ backlog \in Seq(Conns)
        /\ status[c] = "new" /\ status' = [status EXCEPT ![c] = "open"]
        /\ acc' = acc /\ clients' = clients /\ told' = told /\ prev' = prev
    BY <1>1, <1>2 DEF Connects, TypeOK
  <2>2. \A d \in Conns : status[d] # "new" => d # c /\ status'[d] # "new"
    BY <1>1, <2>1 DEF TypeOK
  <2>3. \A i \in 1..Len(backlog') : backlog'[i] = c \/ (i \in 1..Len(backlog) /\ backlog'[i] = backlog[i])
    BY <2>1
  <2> QED BY <1>1, <2>1, <2>2, <2>3 DEF ToldInv
<1>3. ASSUME NEW c \in Conns, (\E m \in Modes : SendsMode(c, m)) \/ Closes(c)
      PROVE  ToldInv'
  <2>1. /\ backlog' = backlog /\ acc' = acc /\ clients' = clients /\ told' = told /\ prev' = prev
        /\ \A d \in Conns : status[d] # "new" => status'[d] # "new"
    BY <1>1, <1>3 DEF SendsMode, Closes, TypeOK
  <2> QED BY <1>1, <2>1 DEF ToldInv
<1>4. CASE Accepts
  <2>1. /\ acc'.conn = backlog[1] /\ backlog \in Seq(Conns) /\ backlog # << >>
        /\ backlog' = Tail(backlog)
        /\ UNCHANGED <<status, clients, told, prev>>
    BY <1>1, <1>4, Accepted DEF IInv, Accepts, TypeOK, overlayVars, listVars
  <2>2. /\ 1 \in 1..Len(backlog)
        /\ \A i \in 1..Len(backlog') : backlog'[i] = backlog[i + 1] /\ i + 1 \in 1..Len(backlog)
    BY <2>1
  <2> QED BY <1>1, <2>1, <2>2 DEF ToldInv
<1>5. CASE Negotiates
  <2>1. /\ acc # None /\ acc'.conn = acc.conn
        /\ UNCHANGED <<status, backlog, clients, told, prev>>
    BY <1>1, <1>5, Negotiated DEF Negotiates
  <2> QED BY <1>1, <2>1 DEF ToldInv
<1>6. CASE Registers
  <2>1. /\ acc # None /\ acc' = None /\ clients' = clients \cup {acc}
        /\ prev' = (IF clients = {} THEN FALSE ELSE prev)
        /\ UNCHANGED <<status, backlog, told>>
    BY <1>6 DEF Registers, SetClients
  <2>2. acc.conn \in Conns
    BY <1>1, <2>1 DEF TypeOK, Client
  <2>3. told[acc.conn] = None
    BY <1>1, <2>1, <2>2 DEF ToldInv
  <2>4. \A x \in clients' : told'[x.conn] \in {None, prev'}
    BY <1>1, <2>1, <2>3 DEF ToldInv
  <2> QED BY <1>1, <2>1, <2>4 DEF ToldInv
<1>7. ASSUME NEW r \in readers, ReaderSwitches(r) PROVE ToldInv'
  <2>1. UNCHANGED <<status, backlog, acc, told, prev>>
    BY <1>7 DEF ReaderSwitches
  <2>2. \A d \in clients' : \E c \in clients : d.conn = c.conn
    BY <1>1, <1>7, SwitchKeepsClients
  <2> QED BY <1>1, <2>1, <2>2 DEF ToldInv
<1>8. ASSUME NEW r \in readers, ReaderEnds(r) PROVE ToldInv'
  BY <1>1, <1>8 DEF ReaderEnds, SetClients, ToldInv
<1>9. ASSUME NEW pressed \in BOOLEAN, NEW moved \in BOOLEAN, Feed(pressed, moved) PROVE ToldInv'
  <2>1. UNCHANGED <<status, backlog, acc>>
    BY <1>9 DEF Feed
  <2>2. ASSUME NEW c \in Conns, told'[c] # None
        PROVE  /\ status[c] # "new"
               /\ \A i \in 1..Len(backlog) : backlog[i] # c
               /\ acc # None => acc.conn # c
    <3>1. CASE told'[c] = told[c]
      BY <1>1, <2>2, <3>1 DEF ToldInv
    <3>2. CASE told'[c] # told[c]
      BY <1>1, <1>9, <3>2, FeedTells, ClientsAreSettled
    <3> QED BY <3>1, <3>2
  <2>3. ASSUME NEW x \in clients' PROVE told'[x.conn] \in {None, prev'}
    <3>1. x \in clients /\ prev' = pressed
      BY <1>1, <1>9, FeedTells
    <3>2. CASE pressed = prev
      BY <1>1, <1>9, <3>1, <3>2, FeedTells DEF ToldInv
    <3>3. CASE pressed # prev
      BY <1>1, <1>9, <3>1, <3>3, FeedTells
    <3> QED BY <3>2, <3>3
  <2> QED BY <2>1, <2>2, <2>3 DEF ToldInv
<1>10. CASE Drops
  <2>1. /\ backlog \in Seq(Conns) /\ backlog # << >> /\ backlog' = Tail(backlog)
        /\ status' = [status EXCEPT ![Head(backlog)] = "closed"]
        /\ UNCHANGED <<acc, clients, told, prev>>
    BY <1>1, <1>10 DEF Drops, TypeOK
  <2>2. \A i \in 1..Len(backlog') : backlog'[i] = backlog[i + 1] /\ i + 1 \in 1..Len(backlog)
    BY <2>1
  <2>3. \A d \in Conns : status[d] # "new" => status'[d] # "new"
    BY <1>1, <2>1 DEF TypeOK
  <2> QED BY <1>1, <2>1, <2>2, <2>3 DEF ToldInv
<1>11. CASE UNCHANGED vars
  BY <1>1, <1>11 DEF vars, ToldInv
<1> QED
  BY <1>2, <1>3, <1>4, <1>5, <1>6, <1>7, <1>8, <1>9, <1>10, <1>11
  DEF Next, BridgeStep, RelayStep, OverlayStep

-----------------------------------------------------------------------------
(* The theorems.                                                             *)

LEMMA Starts == Init => IInv
<1> SUFFICES ASSUME Init PROVE IInv
  OBVIOUS
<1>1. TypeOK
  <2>1. 0 \in 0..MaxLines
    BY BridgeAssumption
  <2>2. << >> \in Seq(Modes) /\ << >> \in Seq(Conns)
    OBVIOUS
  <2>3. /\ status \in [Conns -> {"new", "open", "closed"}]
        /\ wants \in [Conns -> Modes] /\ sent \in [Conns -> 0..MaxLines]
        /\ inbox \in [Conns -> Seq(Modes)] /\ told \in [Conns -> BOOLEAN \cup {None}]
        /\ backlog \in Seq(Conns)
    BY <2>1, <2>2 DEF Init
  <2> QED BY <2>3 DEF Init, TypeOK
<1>2. QueueInv /\ ReaderInv /\ ListInv /\ FreshInv /\ ClientsAreWatched
  BY DEF Init, QueueInv, ReaderInv, ListInv, FreshInv, ClientsAreWatched
<1>3. ToldInv
  BY DEF Init, ToldInv
<1>4. ~AnyHold(clients) /\ paused = FALSE
  BY DEF Init, AnyHold
<1> QED
  BY <1>1, <1>2, <1>3, <1>4 DEF IInv, PausedIsHeld, AnyHold

LEMMA Invariance == Spec => []IInv
<1>1. IInv /\ [Next]_vars => IInv'
  BY TypeStep, PlaceStep, WatchStep, ToldStep, PauseStep DEF IInv
<1> QED BY <1>1, Starts, PTL DEF Spec

\* Descriptors never run out while a connection waits, and every queue and list
\* holds what it is for.
THEOREM BridgeTypeOK == Spec => []TypeOK
BY Invariance, PTL DEF IInv

\* The game is paused exactly while a client on the list holds it, whoever
\* changed the list last: accept loop, reader or relay loop (PAUSED).
THEOREM PauseFollowsTheList == Spec => []PausedIsHeld
BY Invariance, PTL DEF IInv

\* A client on the list keeps the reader it got, whoever else comes, goes or
\* changes its mode (accept_client): only one that never got one is without.
THEOREM ClientsKeepTheirReaders == Spec => []ClientsAreWatched
BY Invariance, PTL DEF IInv

\* Nobody is told the same edge twice, whoever joins, leaves, stalls or dies
\* between two edges (feed, and the reset of prev_btn for the first client).
THEOREM EveryEdgeIsNews == Spec => EdgesAlternate
<1> DEFINE A == prev' # prev =>
                  \A c \in Conns : (\E x \in clients \cap clients' : x.conn = c) => told'[c] # told[c]
<1>1. IInv /\ [Next]_vars => [A]_vars
  <2> SUFFICES ASSUME IInv, Next, prev' # prev, NEW x \in clients \cap clients'
               PROVE  told'[x.conn] # told[x.conn]
    OBVIOUS
  <2>1. TypeOK
    BY DEF IInv
  <2>2. PICK pressed \in BOOLEAN, moved \in BOOLEAN : Feed(pressed, moved)
    BY DEF Next, BridgeStep, Accepts, Drops, Negotiates, Registers, ReaderSwitches, ReaderEnds,
           RelayStep, OverlayStep, Connects, SendsMode, Closes
  <2>3. pressed # prev /\ prev' = pressed /\ told'[x.conn] = pressed
    BY <2>1, <2>2, FeedTells
  <2>4. told[x.conn] = None \/ told[x.conn] = prev
    BY DEF IInv, ToldInv
  <2>5. pressed # None
    BY BridgeAssumption
  <2> QED BY <2>3, <2>4, <2>5
<1> QED BY <1>1, Invariance, PTL DEF Spec, EdgesAlternate

=============================================================================
