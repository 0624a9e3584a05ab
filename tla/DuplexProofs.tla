---------------------------- MODULE DuplexProofs ----------------------------
(***************************************************************************)
(* What a standoff between the daemon and the proxy takes, for every size  *)
(* of the two sockets and any number of requests.                           *)
(***************************************************************************)
EXTENDS Duplex, TLAPS

IInv == TypeOK /\ ReadsFindFrames /\ LoadBounded

\* Each end's turn writes no more than it reads, except when it found its own
\* end of the wire empty: then the load is what is on the other end.
LEMMA Step == IInv /\ [Next]_vars => IInv'
<1> SUFFICES ASSUME IInv, [Next]_vars PROVE IInv'
  OBVIOUS
<1> USE DuplexAssumption
<1> USE DEF IInv, TypeOK, ReadsFindFrames, LoadBounded, Load, Larger, Smaller, One
<1>1. CASE DaemonPolls
  <2>1. CASE toH > 0
    BY <1>1, <2>1 DEF DaemonPolls, proxyVars
  <2>2. CASE toH = 0
    BY <1>1, <2>2 DEF DaemonPolls, proxyVars
  <2> QED BY <2>1, <2>2
<1>2. CASE DaemonReceives
  BY <1>2 DEF DaemonReceives, proxyVars
<1>3. CASE DaemonForwards
  BY <1>3 DEF DaemonForwards, proxyVars
<1>4. CASE ProxyPolls
  <2>1. /\ ppc = "poll" /\ toH' = toH /\ toP' = toP /\ hpc' = hpc /\ event' = event
        /\ answered' = (IF toP = 0 THEN 0 ELSE answered) /\ frame' = (toP > 0)
        /\ ppc' = "input" \/ ppc' = IF frame' THEN "recv" ELSE "poll"
    BY <1>4 DEF ProxyPolls, AfterInput, daemonVars
  <2>2. CASE toP > 0
    <3>1. frame' = TRUE /\ ppc' \in {"input", "recv"}
      BY <2>1, <2>2
    <3> QED BY <2>1, <2>2, <3>1
  <2>3. CASE ~(toP > 0)
    <3>1. frame' = FALSE
      <4>1. (toP > 0) = FALSE
        BY <2>3
      <4> QED BY <2>1, <4>1
    <3>2. ppc' \in {"input", "poll"}
      BY <2>1, <3>1
    <3> QED BY <2>1, <2>3, <3>1, <3>2
  <2> QED BY <2>2, <2>3
<1>5. CASE ProxyDrops
  BY <1>5 DEF ProxyDrops, daemonVars
<1>6. CASE ProxyRelays
  BY <1>6 DEF ProxyRelays, AfterInput, daemonVars
<1>7. CASE ProxyReceives
  BY <1>7 DEF ProxyReceives, OneMore, daemonVars
<1>8. CASE ProxyAnswers
  BY <1>8 DEF ProxyAnswers, daemonVars
<1>9. CASE UNCHANGED vars
  BY <1>9 DEF vars, daemonVars, proxyVars
<1> QED BY <1>1, <1>2, <1>3, <1>4, <1>5, <1>6, <1>7, <1>8, <1>9 DEF Next

LEMMA Invariance == Spec => []IInv
<1>1. Init => TypeOK /\ ReadsFindFrames
  <2>1. 0 \in 0..CapH /\ 0 \in 0..CapP /\ 0 \in 0..Smaller
    BY DuplexAssumption DEF Smaller
  <2>2. Init => TypeOK
    BY <2>1 DEF Init, TypeOK
  <2>3. Init => ReadsFindFrames
    BY DEF Init, ReadsFindFrames
  <2> QED BY <2>2, <2>3
<1>2. Init => Load = 0 /\ answered = 0 /\ One(ppc = "recv") = 0
  BY DEF Init, Load, One
<1>3. Larger \in Nat
  BY DuplexAssumption DEF Larger
<1>4. Init => IInv
  BY <1>1, <1>2, <1>3 DEF IInv, LoadBounded
<1> QED BY <1>4, Step, PTL DEF Spec

\* Frames, turns and requests stay within their types, whatever the sizes.
THEOREM DuplexTypeOK == Spec => []TypeOK
BY Invariance, PTL DEF IInv

\* Neither end blocks in a read of a frame its poll promised.
THEOREM ReadsFind == Spec => []ReadsFindFrames
BY Invariance, PTL DEF IInv

\* In a standoff both sockets are full and a write is due at each end: more
\* than the load can be unless that many requests were answered.
THEOREM StandoffIsRare == Spec => []StandoffTakesAnswers
<1>1. IInv => StandoffTakesAnswers
  <2> SUFFICES ASSUME IInv, Standoff, answered < Smaller
               PROVE  answered + 1 >= Smaller
    BY DuplexAssumption DEF StandoffTakesAnswers, IInv, TypeOK, Smaller
  <2>1. Load <= Larger + answered + 2
    BY DuplexAssumption DEF IInv, TypeOK, LoadBounded, Load, Standoff, One, Larger, Smaller
  <2>2. Load >= CapH + CapP + 1
    BY DuplexAssumption DEF IInv, TypeOK, Load, Standoff, One
  <2>3. CapH + CapP = Larger + Smaller
    BY DuplexAssumption DEF Larger, Smaller
  <2>4. Load \in Nat /\ Larger \in Nat /\ Smaller \in Nat /\ answered \in Nat
    BY DuplexAssumption DEF IInv, TypeOK, Load, One, Larger, Smaller
  <2> QED BY <2>1, <2>2, <2>3, <2>4, DuplexAssumption
<1> QED BY <1>1, Invariance, PTL

=============================================================================
