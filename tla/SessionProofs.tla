---------------------------- MODULE SessionProofs ----------------------------
(***************************************************************************)
(* Proofs about Session, for any nodes and any failures: no mask is left    *)
(* outside a session, and the sink that runs is the one the session uses.   *)
(***************************************************************************)
EXTENDS Session, FiniteSetTheorems, TLAPS

\* Every mask is on a node whose unbind was refused or that is yet to be
\* unbound, or nobody could list it.
MaskInv ==
  /\ pc \in Seeking \cup Leaving \cup {"strip", "close"} => masks \subseteq refused \cup unseen
  /\ pc \in {"sink", "attach", "join", "start", "relay", "detach"} =>
       masks \subseteq refused \cup unseen \cup hidden
  /\ pc = "unhide" => masks \subseteq refused \cup unseen \cup todo

\* There is only ever sink 1.  The relays name it from its start until it is
\* stopped, and it is stopped only where it is waited for.
SinkInv ==
  /\ running \subseteq {1} /\ stopping \subseteq {1} /\ handle # 2
  /\ relay = mode /\ mode \in {None, 1}
  /\ mode = 1 <=> 1 \in running \ stopping
  /\ pc \notin Leaving =>
       /\ stopping \subseteq running
       /\ 1 \in stopping => pc = "join" /\ handle = 1
       /\ handle = 1 => 1 \in running \/ pc = "join"

\* Only a hidraw session starts a sink with a handle of it alone, and only an
\* L2CAP session of a DualSense gives a link to one.
LinkInv ==
  /\ ~l2cap => handle # Stub /\ (handle = None /\ pc \notin Leaving => running = {})
  /\ attached => mode = 1
  /\ l2cap /\ attached => pc \in {"relay", "detach"} /\ s = "l2ds5"
  /\ pc = "attach" => s = "l2ds5" /\ mode = 1
  /\ pc \in {"join", "start"} => s # "l2ds5"
  /\ pc = "start" => handle = None
  /\ pc = "relay" /\ s \in {"l2ds5", "bt"} => mode = 1 /\ attached

IInv == TypeOK /\ MaskInv /\ SinkInv /\ LinkInv

USE SessionAssumption
USE DEF maskVars, runVars, sinkVars, Sinks, L2, Raws, Pads, Seeking, Busy, Leaving

-----------------------------------------------------------------------------
\* Every step keeps the types.
LEMMA TypeStep == TypeOK /\ [Next]_vars => TypeOK'
<1> SUFFICES ASSUME TypeOK, [Next]_vars PROVE TypeOK'
  OBVIOUS
<1> USE DEF TypeOK
<1>1. CASE Start
  BY <1>1 DEF Start
<1>2. CASE ListenFails
  BY <1>2 DEF ListenFails
<1>3. CASE TopListens
  BY <1>3 DEF TopListens
<1>4. CASE TopFinds
  BY <1>4 DEF TopFinds
<1>5. CASE FindsNone
  BY <1>5 DEF FindsNone
<1>6. CASE FindsMasked
  <2>1. pad' \in Pads' \cup {"none"} /\ holder' \in {"down", "free", "serving", "stale", "other"}
    BY <1>6, SMTT(30) DEF FindsMasked, ProcessEnds
  <2>2. s' \in Pads' \cup {None}
    BY <1>6 DEF FindsMasked, ProcessEnds
  <2>3. /\ pc' = "off" /\ exit' \in BOOLEAN /\ attached' \in BOOLEAN /\ code' = 0
        /\ l2cap' = l2cap /\ UNCHANGED maskVars
    BY <1>6, Zenon DEF FindsMasked, ProcessEnds
  <2>4. /\ hidden' = {} /\ todo' = {} /\ handle' = None /\ relay' = None /\ mode' = None
        /\ running' = {} /\ stopping' = {}
    BY <1>6, Zenon DEF FindsMasked, ProcessEnds
  <2> QED
    BY <2>1, <2>2, <2>3, <2>4
<1>7. CASE FindsPad
  BY <1>7 DEF FindsPad
<1>8. CASE ListenEnds
  BY <1>8 DEF ListenEnds
<1>9. CASE AcceptsControl
  BY <1>9 DEF AcceptsControl
<1>10. CASE AcceptFails
  BY <1>10 DEF AcceptFails
<1>11. CASE AcceptsPad
  BY <1>11 DEF AcceptsPad
<1>12. CASE HolderUnavailable
  BY <1>12 DEF HolderUnavailable, DropSession
<1>13. CASE Connects
  BY <1>13 DEF Connects
<1>14. CASE HolderRefuses
  BY <1>14 DEF HolderRefuses, DropSession
<1>15. CASE HolderAcks
  BY <1>15 DEF HolderAcks
<1>16. CASE \E n \in Nodes : Strips(n)
  BY <1>16 DEF Strips, Unbind
<1>17. CASE Stripped
  BY <1>17 DEF Stripped
<1>18. CASE \E n \in Nodes : Binds(n)
  BY <1>18 DEF Binds, Bind
<1>19. CASE Hidden
  BY <1>19 DEF Hidden
<1>20. CASE EnsuresStarted
  BY <1>20 DEF EnsuresStarted, Spawn
<1>21. CASE Attaches
  BY <1>21 DEF Attaches
<1>22. CASE StopsSink
  <2>1. CASE handle \in Sinks
    BY <1>22, <2>1 DEF StopsSink, StopHandle
  <2>2. CASE handle \notin Sinks
    <3>1. UNCHANGED <<handle, relay, mode, running, stopping, attached>>
      BY <1>22, <2>2, Z3 DEF StopsSink, StopHandle
    <3> QED
      BY <1>22, <3>1, <2>2 DEF StopsSink
  <2> QED
    BY <2>1, <2>2
<1>23. CASE Joins
  BY <1>23 DEF Joins
<1>24. CASE StartsSink
  <2>1. CASE s = "bt"
    BY <1>24, <2>1 DEF StartsSink, Spawn
  <2>2. CASE s # "bt"
    <3>1. UNCHANGED <<handle, relay, mode, running, stopping, attached>>
      BY <1>24, <2>2, Z3 DEF StartsSink
    <3> QED
      BY <1>24, <3>1 DEF StartsSink
  <2> QED
    BY <2>1, <2>2
<1>25. CASE \E c \in 1..3 : RelayReturns(c)
  BY <1>25 DEF RelayReturns
<1>26. CASE Detaches
  BY <1>26 DEF Detaches
<1>27. CASE \E n \in Nodes : Unhides(n)
  BY <1>27 DEF Unhides, Unbind
<1>28. CASE Unhidden
  BY <1>28 DEF Unhidden
<1>29. CASE Closes
  BY <1>29 DEF Closes, DropSession
<1>30. CASE StopsAll
  BY <1>30 DEF StopsAll
<1>31. CASE LastStop
  <2>1. CASE handle \in Sinks
    BY <1>31, <2>1 DEF LastStop, StopHandle
  <2>2. CASE handle \notin Sinks
    <3>1. UNCHANGED <<handle, relay, mode, running, stopping, attached>>
      BY <1>31, <2>2, Z3 DEF LastStop, StopHandle
    <3> QED
      BY <1>31, <3>1, <2>2 DEF LastStop
  <2> QED
    BY <2>1, <2>2
<1>32. CASE Ends
  <2>1. pad' \in Pads' \cup {"none"} /\ holder' \in {"down", "free", "serving", "stale", "other"}
    BY <1>32, SMTT(30) DEF Ends, ProcessEnds
  <2>2. s' \in Pads' \cup {None}
    BY <1>32 DEF Ends, ProcessEnds
  <2>3. /\ pc' = "off" /\ exit' \in BOOLEAN /\ attached' \in BOOLEAN /\ code' = 0
        /\ l2cap' = l2cap /\ UNCHANGED maskVars
    BY <1>32, Zenon DEF Ends, ProcessEnds
  <2>4. /\ hidden' = {} /\ todo' = {} /\ handle' = None /\ relay' = None /\ mode' = None
        /\ running' = {} /\ stopping' = {}
    BY <1>32, Zenon DEF Ends, ProcessEnds
  <2> QED
    BY <2>1, <2>2, <2>3, <2>4
<1>33. CASE \E i \in Sinks : WriterExits(i)
  BY <1>33 DEF WriterExits
<1>34. CASE \E p \in Pads \cup {"none"} : PadMoves(p)
  BY <1>34 DEF PadMoves
<1>35. CASE HolderStops
  BY <1>35 DEF HolderStops
<1>36. CASE HolderStarts
  BY <1>36 DEF HolderStarts
<1>37. CASE HolderReadsEnd
  BY <1>37 DEF HolderReadsEnd
<1>38. CASE Signal
  BY <1>38 DEF Signal
<1>39. CASE Killed
  <2>1. pad' \in Pads' \cup {"none"} /\ holder' \in {"down", "free", "serving", "stale", "other"}
    BY <1>39, SMTT(30) DEF Killed, ProcessEnds
  <2>2. s' \in Pads' \cup {None}
    BY <1>39 DEF Killed, ProcessEnds
  <2>3. /\ pc' = "off" /\ exit' \in BOOLEAN /\ attached' \in BOOLEAN /\ code' = 0
        /\ l2cap' = l2cap /\ UNCHANGED maskVars
    BY <1>39, Zenon DEF Killed, ProcessEnds
  <2>4. /\ hidden' = {} /\ todo' = {} /\ handle' = None /\ relay' = None /\ mode' = None
        /\ running' = {} /\ stopping' = {}
    BY <1>39, Zenon DEF Killed, ProcessEnds
  <2> QED
    BY <2>1, <2>2, <2>3, <2>4
<1>40. CASE UNCHANGED vars
  BY <1>40 DEF vars
<1>41. CASE Waits
  BY <1>41 DEF Waits
<1>42. CASE NobodyCalls
  BY <1>42 DEF NobodyCalls
<1>43. CASE OtherConnects
  BY <1>43 DEF OtherConnects
<1>44. CASE OtherLeaves
  BY <1>44 DEF OtherLeaves
<1> QED
  BY <1>1, <1>2, <1>3, <1>4, <1>5, <1>6, <1>7, <1>8, <1>9, <1>10, <1>11, <1>12, <1>13, <1>14, <1>15, <1>16, <1>17, <1>18, <1>19, <1>20, <1>21, <1>22, <1>23, <1>24, <1>25, <1>26, <1>27, <1>28, <1>29, <1>30, <1>31, <1>32, <1>33, <1>34, <1>35, <1>36, <1>37, <1>38, <1>39, <1>40, <1>41, <1>42, <1>43, <1>44 DEF Next, Seek, Serve, Leave

\* Every step keeps track of the masks.
LEMMA MaskStep == TypeOK /\ MaskInv /\ [Next]_vars => MaskInv'
<1> SUFFICES ASSUME TypeOK /\ MaskInv, [Next]_vars PROVE MaskInv'
  OBVIOUS
<1> USE DEF TypeOK, MaskInv
<1>1. CASE Start
  BY <1>1 DEF Start
<1>2. CASE ListenFails
  BY <1>2 DEF ListenFails
<1>3. CASE TopListens
  BY <1>3 DEF TopListens
<1>4. CASE TopFinds
  BY <1>4 DEF TopFinds
<1>5. CASE FindsNone
  BY <1>5 DEF FindsNone
<1>6. CASE FindsMasked
  BY <1>6 DEF FindsMasked, ProcessEnds
<1>7. CASE FindsPad
  BY <1>7 DEF FindsPad
<1>8. CASE ListenEnds
  BY <1>8 DEF ListenEnds
<1>9. CASE AcceptsControl
  BY <1>9 DEF AcceptsControl
<1>10. CASE AcceptFails
  BY <1>10 DEF AcceptFails
<1>11. CASE AcceptsPad
  BY <1>11 DEF AcceptsPad
<1>12. CASE HolderUnavailable
  BY <1>12 DEF HolderUnavailable, DropSession
<1>13. CASE Connects
  BY <1>13 DEF Connects
<1>14. CASE HolderRefuses
  BY <1>14 DEF HolderRefuses, DropSession
<1>15. CASE HolderAcks
  BY <1>15 DEF HolderAcks
<1>16. CASE \E n \in Nodes : Strips(n)
  BY <1>16 DEF Strips, Unbind
<1>17. CASE Stripped
  BY <1>17 DEF Stripped
<1>18. CASE \E n \in Nodes : Binds(n)
  BY <1>18 DEF Binds, Bind
<1>19. CASE Hidden
  BY <1>19 DEF Hidden
<1>20. CASE EnsuresStarted
  BY <1>20 DEF EnsuresStarted, Spawn
<1>21. CASE Attaches
  BY <1>21 DEF Attaches
<1>22. CASE StopsSink
  <2>1. CASE handle \in Sinks
    BY <1>22, <2>1 DEF StopsSink, StopHandle
  <2>2. CASE handle \notin Sinks
    <3>1. UNCHANGED <<handle, relay, mode, running, stopping, attached>>
      BY <1>22, <2>2, Z3 DEF StopsSink, StopHandle
    <3> QED
      BY <1>22, <3>1, <2>2 DEF StopsSink
  <2> QED
    BY <2>1, <2>2
<1>23. CASE Joins
  BY <1>23 DEF Joins
<1>24. CASE StartsSink
  <2>1. CASE s = "bt"
    BY <1>24, <2>1 DEF StartsSink, Spawn
  <2>2. CASE s # "bt"
    BY <1>24, <2>2 DEF StartsSink
  <2> QED
    BY <2>1, <2>2
<1>25. CASE \E c \in 1..3 : RelayReturns(c)
  BY <1>25 DEF RelayReturns
<1>26. CASE Detaches
  BY <1>26 DEF Detaches
<1>27. CASE \E n \in Nodes : Unhides(n)
  BY <1>27 DEF Unhides, Unbind
<1>28. CASE Unhidden
  BY <1>28 DEF Unhidden
<1>29. CASE Closes
  BY <1>29 DEF Closes, DropSession
<1>30. CASE StopsAll
  BY <1>30 DEF StopsAll
<1>31. CASE LastStop
  <2>1. CASE handle \in Sinks
    BY <1>31, <2>1 DEF LastStop, StopHandle
  <2>2. CASE handle \notin Sinks
    <3>1. UNCHANGED <<handle, relay, mode, running, stopping, attached>>
      BY <1>31, <2>2, Z3 DEF LastStop, StopHandle
    <3> QED
      BY <1>31, <3>1, <2>2 DEF LastStop
  <2> QED
    BY <2>1, <2>2
<1>32. CASE Ends
  BY <1>32 DEF Ends, ProcessEnds
<1>33. CASE \E i \in Sinks : WriterExits(i)
  BY <1>33 DEF WriterExits
<1>34. CASE \E p \in Pads \cup {"none"} : PadMoves(p)
  BY <1>34 DEF PadMoves
<1>35. CASE HolderStops
  BY <1>35 DEF HolderStops
<1>36. CASE HolderStarts
  BY <1>36 DEF HolderStarts
<1>37. CASE HolderReadsEnd
  BY <1>37 DEF HolderReadsEnd
<1>38. CASE Signal
  BY <1>38 DEF Signal
<1>39. CASE Killed
  BY <1>39 DEF Killed, ProcessEnds
<1>40. CASE UNCHANGED vars
  BY <1>40 DEF vars
<1>41. CASE Waits
  BY <1>41 DEF Waits
<1>42. CASE NobodyCalls
  BY <1>42 DEF NobodyCalls
<1>43. CASE OtherConnects
  BY <1>43 DEF OtherConnects
<1>44. CASE OtherLeaves
  BY <1>44 DEF OtherLeaves
<1> QED
  BY <1>1, <1>2, <1>3, <1>4, <1>5, <1>6, <1>7, <1>8, <1>9, <1>10, <1>11, <1>12, <1>13, <1>14, <1>15, <1>16, <1>17, <1>18, <1>19, <1>20, <1>21, <1>22, <1>23, <1>24, <1>25, <1>26, <1>27, <1>28, <1>29, <1>30, <1>31, <1>32, <1>33, <1>34, <1>35, <1>36, <1>37, <1>38, <1>39, <1>40, <1>41, <1>42, <1>43, <1>44 DEF Next, Seek, Serve, Leave

\* Every step leaves at most one sink, named by the relays.
LEMMA SinkStep == TypeOK /\ SinkInv /\ LinkInv /\ [Next]_vars => SinkInv'
<1> SUFFICES ASSUME TypeOK /\ SinkInv /\ LinkInv, [Next]_vars PROVE SinkInv'
  OBVIOUS
<1> USE DEF TypeOK, SinkInv, LinkInv
<1>1. CASE Start
  BY <1>1 DEF Start
<1>2. CASE ListenFails
  BY <1>2 DEF ListenFails
<1>3. CASE TopListens
  BY <1>3 DEF TopListens
<1>4. CASE TopFinds
  BY <1>4 DEF TopFinds
<1>5. CASE FindsNone
  BY <1>5 DEF FindsNone
<1>6. CASE FindsMasked
  BY <1>6 DEF FindsMasked, ProcessEnds
<1>7. CASE FindsPad
  BY <1>7 DEF FindsPad
<1>8. CASE ListenEnds
  BY <1>8 DEF ListenEnds
<1>9. CASE AcceptsControl
  BY <1>9 DEF AcceptsControl
<1>10. CASE AcceptFails
  BY <1>10 DEF AcceptFails
<1>11. CASE AcceptsPad
  BY <1>11 DEF AcceptsPad
<1>12. CASE HolderUnavailable
  BY <1>12 DEF HolderUnavailable, DropSession
<1>13. CASE Connects
  BY <1>13 DEF Connects
<1>14. CASE HolderRefuses
  BY <1>14 DEF HolderRefuses, DropSession
<1>15. CASE HolderAcks
  BY <1>15 DEF HolderAcks
<1>16. CASE \E n \in Nodes : Strips(n)
  BY <1>16 DEF Strips, Unbind
<1>17. CASE Stripped
  BY <1>17 DEF Stripped
<1>18. CASE \E n \in Nodes : Binds(n)
  BY <1>18 DEF Binds, Bind
<1>19. CASE Hidden
  BY <1>19 DEF Hidden
<1>20. CASE EnsuresStarted
  <2>1. CASE mode = None
    <3>1. 1 \notin running /\ running = {} /\ stopping = {}
      BY <1>20, <2>1 DEF EnsuresStarted
    <3>2. handle' = 1 /\ relay' = 1 /\ mode' = 1 /\ running' = {1} /\ stopping' = {}
      BY <1>20, <2>1, <3>1 DEF EnsuresStarted, Spawn
    <3> QED
      BY <1>20, <3>2 DEF EnsuresStarted
  <2>2. CASE mode # None
    BY <1>20, <2>2 DEF EnsuresStarted
  <2> QED
    BY <2>1, <2>2
<1>21. CASE Attaches
  BY <1>21 DEF Attaches
<1>22. CASE StopsSink
  <2>1. CASE handle \in Sinks
    <3>1. handle = 1 /\ running = {1} /\ pc' = "join"
      BY <1>22, <2>1 DEF StopsSink
    <3>2. /\ stopping' = stopping \cup {1} /\ relay' = None /\ mode' = None
          /\ UNCHANGED <<handle, running>>
      BY <1>22, <2>1, <3>1 DEF StopsSink, StopHandle
    <3> QED
      BY <3>1, <3>2
  <2>2. CASE handle \notin Sinks
    <3>1. UNCHANGED <<handle, relay, mode, running, stopping, attached>>
      BY <1>22, <2>2, Z3 DEF StopsSink, StopHandle
    <3> QED
      BY <1>22, <3>1, <2>2 DEF StopsSink
  <2> QED
    BY <2>1, <2>2
<1>23. CASE Joins
  BY <1>23 DEF Joins
<1>24. CASE StartsSink
  <2>1. CASE s = "bt"
    <3>1. running = {} /\ stopping = {} /\ pc' = "relay"
      BY <1>24, <2>1 DEF StartsSink, LinkInv
    <3>2. handle' = 1 /\ relay' = 1 /\ mode' = 1 /\ running' = {1} /\ stopping' = {}
      BY <1>24, <2>1, <3>1 DEF StartsSink, Spawn
    <3> QED
      BY <3>1, <3>2
  <2>2. CASE s # "bt"
    BY <1>24, <2>2 DEF StartsSink
  <2> QED
    BY <2>1, <2>2
<1>25. CASE \E c \in 1..3 : RelayReturns(c)
  BY <1>25 DEF RelayReturns
<1>26. CASE Detaches
  BY <1>26 DEF Detaches
<1>27. CASE \E n \in Nodes : Unhides(n)
  BY <1>27 DEF Unhides, Unbind
<1>28. CASE Unhidden
  BY <1>28 DEF Unhidden
<1>29. CASE Closes
  BY <1>29 DEF Closes, DropSession
<1>30. CASE StopsAll
  BY <1>30 DEF StopsAll
<1>31. CASE LastStop
  <2>1. CASE handle \in Sinks
    BY <1>31, <2>1 DEF LastStop, StopHandle
  <2>2. CASE handle \notin Sinks
    <3>1. UNCHANGED <<handle, relay, mode, running, stopping, attached>>
      BY <1>31, <2>2, Z3 DEF LastStop, StopHandle
    <3> QED
      BY <1>31, <3>1, <2>2 DEF LastStop
  <2> QED
    BY <2>1, <2>2
<1>32. CASE Ends
  BY <1>32 DEF Ends, ProcessEnds
<1>33. CASE \E i \in Sinks : WriterExits(i)
  BY <1>33 DEF WriterExits
<1>34. CASE \E p \in Pads \cup {"none"} : PadMoves(p)
  BY <1>34 DEF PadMoves
<1>35. CASE HolderStops
  BY <1>35 DEF HolderStops
<1>36. CASE HolderStarts
  BY <1>36 DEF HolderStarts
<1>37. CASE HolderReadsEnd
  BY <1>37 DEF HolderReadsEnd
<1>38. CASE Signal
  BY <1>38 DEF Signal
<1>39. CASE Killed
  BY <1>39 DEF Killed, ProcessEnds
<1>40. CASE UNCHANGED vars
  BY <1>40 DEF vars
<1>41. CASE Waits
  BY <1>41 DEF Waits
<1>42. CASE NobodyCalls
  BY <1>42 DEF NobodyCalls
<1>43. CASE OtherConnects
  BY <1>43 DEF OtherConnects
<1>44. CASE OtherLeaves
  BY <1>44 DEF OtherLeaves
<1> QED
  BY <1>1, <1>2, <1>3, <1>4, <1>5, <1>6, <1>7, <1>8, <1>9, <1>10, <1>11, <1>12, <1>13, <1>14, <1>15, <1>16, <1>17, <1>18, <1>19, <1>20, <1>21, <1>22, <1>23, <1>24, <1>25, <1>26, <1>27, <1>28, <1>29, <1>30, <1>31, <1>32, <1>33, <1>34, <1>35, <1>36, <1>37, <1>38, <1>39, <1>40, <1>41, <1>42, <1>43, <1>44 DEF Next, Seek, Serve, Leave

\* Every step leaves the link where it belongs.
LEMMA LinkStep == TypeOK /\ SinkInv /\ LinkInv /\ [Next]_vars => LinkInv'
<1> SUFFICES ASSUME TypeOK /\ SinkInv /\ LinkInv, [Next]_vars PROVE LinkInv'
  OBVIOUS
<1> USE DEF TypeOK, SinkInv, LinkInv
<1>1. CASE Start
  BY <1>1 DEF Start
<1>2. CASE ListenFails
  BY <1>2 DEF ListenFails
<1>3. CASE TopListens
  BY <1>3 DEF TopListens
<1>4. CASE TopFinds
  BY <1>4 DEF TopFinds
<1>5. CASE FindsNone
  BY <1>5 DEF FindsNone
<1>6. CASE FindsMasked
  BY <1>6 DEF FindsMasked, ProcessEnds
<1>7. CASE FindsPad
  BY <1>7 DEF FindsPad
<1>8. CASE ListenEnds
  BY <1>8 DEF ListenEnds
<1>9. CASE AcceptsControl
  BY <1>9 DEF AcceptsControl
<1>10. CASE AcceptFails
  BY <1>10 DEF AcceptFails
<1>11. CASE AcceptsPad
  BY <1>11 DEF AcceptsPad
<1>12. CASE HolderUnavailable
  BY <1>12 DEF HolderUnavailable, DropSession
<1>13. CASE Connects
  BY <1>13 DEF Connects
<1>14. CASE HolderRefuses
  BY <1>14 DEF HolderRefuses, DropSession
<1>15. CASE HolderAcks
  BY <1>15 DEF HolderAcks
<1>16. CASE \E n \in Nodes : Strips(n)
  BY <1>16 DEF Strips, Unbind
<1>17. CASE Stripped
  BY <1>17 DEF Stripped
<1>18. CASE \E n \in Nodes : Binds(n)
  BY <1>18 DEF Binds, Bind
<1>19. CASE Hidden
  BY <1>19 DEF Hidden
<1>20. CASE EnsuresStarted
  BY <1>20 DEF EnsuresStarted, Spawn
<1>21. CASE Attaches
  BY <1>21 DEF Attaches
<1>22. CASE StopsSink
  <2>1. CASE handle \in Sinks
    BY <1>22, <2>1 DEF StopsSink, StopHandle
  <2>2. CASE handle \notin Sinks
    <3>1. UNCHANGED <<handle, relay, mode, running, stopping, attached>>
      BY <1>22, <2>2, Z3 DEF StopsSink, StopHandle
    <3> QED
      BY <1>22, <3>1, <2>2 DEF StopsSink
  <2> QED
    BY <2>1, <2>2
<1>23. CASE Joins
  BY <1>23 DEF Joins
<1>24. CASE StartsSink
  <2>1. CASE s = "bt"
    BY <1>24, <2>1 DEF StartsSink, Spawn
  <2>2. CASE s # "bt"
    BY <1>24, <2>2 DEF StartsSink
  <2> QED
    BY <2>1, <2>2
<1>25. CASE \E c \in 1..3 : RelayReturns(c)
  BY <1>25 DEF RelayReturns
<1>26. CASE Detaches
  BY <1>26 DEF Detaches
<1>27. CASE \E n \in Nodes : Unhides(n)
  BY <1>27 DEF Unhides, Unbind
<1>28. CASE Unhidden
  BY <1>28 DEF Unhidden
<1>29. CASE Closes
  BY <1>29 DEF Closes, DropSession
<1>30. CASE StopsAll
  BY <1>30 DEF StopsAll
<1>31. CASE LastStop
  <2>1. CASE handle \in Sinks
    BY <1>31, <2>1 DEF LastStop, StopHandle
  <2>2. CASE handle \notin Sinks
    <3>1. UNCHANGED <<handle, relay, mode, running, stopping, attached>>
      BY <1>31, <2>2, Z3 DEF LastStop, StopHandle
    <3> QED
      BY <1>31, <3>1, <2>2 DEF LastStop
  <2> QED
    BY <2>1, <2>2
<1>32. CASE Ends
  BY <1>32 DEF Ends, ProcessEnds
<1>33. CASE \E i \in Sinks : WriterExits(i)
  BY <1>33 DEF WriterExits
<1>34. CASE \E p \in Pads \cup {"none"} : PadMoves(p)
  BY <1>34 DEF PadMoves
<1>35. CASE HolderStops
  BY <1>35 DEF HolderStops
<1>36. CASE HolderStarts
  BY <1>36 DEF HolderStarts
<1>37. CASE HolderReadsEnd
  BY <1>37 DEF HolderReadsEnd
<1>38. CASE Signal
  BY <1>38 DEF Signal
<1>39. CASE Killed
  BY <1>39 DEF Killed, ProcessEnds
<1>40. CASE UNCHANGED vars
  BY <1>40 DEF vars
<1>41. CASE Waits
  BY <1>41 DEF Waits
<1>42. CASE NobodyCalls
  BY <1>42 DEF NobodyCalls
<1>43. CASE OtherConnects
  BY <1>43 DEF OtherConnects
<1>44. CASE OtherLeaves
  BY <1>44 DEF OtherLeaves
<1> QED
  BY <1>1, <1>2, <1>3, <1>4, <1>5, <1>6, <1>7, <1>8, <1>9, <1>10, <1>11, <1>12, <1>13, <1>14, <1>15, <1>16, <1>17, <1>18, <1>19, <1>20, <1>21, <1>22, <1>23, <1>24, <1>25, <1>26, <1>27, <1>28, <1>29, <1>30, <1>31, <1>32, <1>33, <1>34, <1>35, <1>36, <1>37, <1>38, <1>39, <1>40, <1>41, <1>42, <1>43, <1>44 DEF Next, Seek, Serve, Leave

-----------------------------------------------------------------------------
\* The initial states have the invariant, and every reachable state has it.
LEMMA InvInit == Init => IInv
<1>1. Init => TypeOK
  <2> SUFFICES ASSUME Init PROVE TypeOK
    OBVIOUS
  <2>1. pad \in Pads \cup {"none"} /\ s \in Pads \cup {None}
    BY DEF Init
  <2>2. /\ l2cap \in BOOLEAN /\ exit \in BOOLEAN /\ attached \in BOOLEAN
        /\ holder \in {"down", "free", "serving", "stale", "other"}
    BY Zenon DEF Init
  <2> QED
    BY <2>1, <2>2 DEF Init, TypeOK
<1>2. Init => MaskInv
  BY DEF Init, MaskInv
<1>3. Init => SinkInv
  BY DEF Init, SinkInv
<1>4. Init => LinkInv
  BY DEF Init, LinkInv
<1> QED
  BY <1>1, <1>2, <1>3, <1>4 DEF IInv

LEMMA InvAlways == Spec => []IInv
<1>1. IInv /\ [Next]_vars => IInv'
  BY TypeStep, MaskStep, SinkStep, LinkStep DEF IInv
<1> QED
  BY InvInit, <1>1, PTL DEF Spec

\* The variables keep their types.
THEOREM SessionTypeOK == Spec => []TypeOK
<1>1. IInv => TypeOK
  BY DEF IInv
<1> QED
  BY InvAlways, <1>1, PTL

\* Outside a session no node is masked unless its own unbind was refused or
\* nobody could list it, whatever number of nodes, kills and failures there are.
THEOREM MasksGoWithTheSession == Spec => []NoMaskLeft
<1>1. IInv => NoMaskLeft
  BY DEF IInv, MaskInv, NoMaskLeft
<1> QED
  BY InvAlways, <1>1, PTL

\* There is never more than one audio node.
THEOREM OneNodeAtATime == Spec => []OneNode
<1>1. IInv => OneNode
  <2> SUFFICES ASSUME IInv PROVE OneNode
    OBVIOUS
  <2>1. running = {} \/ running = {1}
    BY DEF IInv, SinkInv
  <2>2. Cardinality({}) = 0 /\ Cardinality({1}) = 1
    BY FS_EmptySet, FS_Singleton
  <2> QED
    BY <2>1, <2>2 DEF OneNode
<1> QED
  BY InvAlways, <1>1, PTL

\* The relays of a session lead to the running sink that has the pad's link.
THEOREM TheSinkIsTheSessions == Spec => []SinkServesSession
<1>1. IInv => SinkServesSession
  BY DEF IInv, TypeOK, SinkInv, LinkInv, SinkServesSession
<1> QED
  BY InvAlways, <1>1, PTL

=============================================================================
