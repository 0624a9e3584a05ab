---------------------------- MODULE WriterProofs ----------------------------
(***************************************************************************)
(* Proofs about Writer, for any number of links and outputs, any queue and  *)
(* any modulus: the counter each link sees is unbroken, the newest output   *)
(* is kept, and an output is skipped only if the pad shows it already.      *)
(***************************************************************************)
EXTENDS Writer, SequenceTheorems, TLAPS

\* Every attachment moves the generation on, so that it never passes the links.
GenInv == links = IF session \in {"open", "attaching"} THEN gen + 1 ELSE gen

\* The writer has a link where it writes, and the link the pad last heard of is
\* given up only once it is dead.  A dead link stays dead: numbers only grow.
LinkInv ==
  /\ pc \in {"wait", "fetch"} <=> link = 0
  /\ alive <= links /\ pad.link <= links /\ intr <= links /\ link <= links
  /\ pad.link # 0 /\ alive = pad.link => link = pad.link

\* The counter goes on from the last report on a live link, and starts at 0.
SeqInv ==
  link # 0 /\ alive = link =>
    seq = IF pad.link = link THEN (pad.seq + 1) % SeqMod ELSE 0

\* The mirror of what was sent is what the pad shows.
LastInv == link # 0 /\ last # Zero => pad.link = link /\ pad.shows = last

IInv == TypeOK /\ GenInv /\ LinkInv /\ SeqInv /\ LastInv

USE WriterAssumption
USE DEF sessionVars, sharedVars, stateVars, streamVars, linkVars, writerVars, Writable, Links, Zero

-----------------------------------------------------------------------------

\* What is written is typed, and so is the counter after it.
LEMMA DeliveredType ==
  ASSUME TypeOK, NEW st \in States \cup {Zero}, Delivered(st)
  PROVE  pad' \in Pad
<1>1. (IF st # Zero THEN st ELSE IF pad.link = link THEN pad.shows ELSE Zero)
        \in States \cup {Zero}
  BY DEF TypeOK, Pad
<1>2. 1 - pad.n \in {0, 1}
  BY DEF TypeOK, Pad
<1> QED
  BY <1>1, <1>2 DEF TypeOK, Pad, Delivered

LEMMA SeqType == ASSUME TypeOK, NextSeq PROVE seq' \in 0..(SeqMod - 1)
  BY DEF TypeOK, NextSeq

\* Merging the path keeps the tracked state's type.
LEMMA MergeType ==
  ASSUME TypeOK, NEW j \in BOOLEAN
  PROVE  [state EXCEPT !.jack = j] \in States
  BY DEF TypeOK, States

\* Every step keeps the types.
LEMMA TypeStep == TypeOK /\ GenInv /\ [Next]_vars => TypeOK'
<1> SUFFICES ASSUME TypeOK /\ GenInv, [Next]_vars PROVE TypeOK'
  OBVIOUS
<1> USE DEF TypeOK, GenInv
<1>1. CASE ReadGeneration
  BY <1>1 DEF ReadGeneration
<1>2. CASE FindNoLink
  BY <1>2 DEF FindNoLink
<1>3. CASE TakeLink
  <2>1. state' \in States
    BY <1>3, MergeType DEF TakeLink
  <2> QED
    <3>1. /\ engaged' = None /\ primed' = FALSE /\ silent' = 0 /\ starved' = 0 /\ last' = None
          /\ pc' = "init" /\ seq' = 0 /\ link' = intr /\ cur_gen' = seen
          /\ UNCHANGED <<session, links, alive, written, asked, pad, intr, gen, jack>>
          /\ UNCHANGED <<out_q, seen, path>>
      BY <1>3, Zenon DEF TakeLink
    <3>2. /\ jack' \in BOOLEAN /\ path' \in BOOLEAN /\ primed' \in BOOLEAN
          /\ engaged' \in BOOLEAN \cup {None} /\ UNCHANGED <<asked, out_q>>
      BY <3>1, Zenon
    <3>3. /\ seen' \in Links /\ cur_gen' \in Links /\ link' \in Links
          /\ starved' \in 0..IdleAfter /\ silent' \in 0..IdleAfter /\ seq' \in 0..(SeqMod - 1)
      BY <3>1
    <3> QED
      BY <2>1, <3>1, <3>2, <3>3
<1>4. CASE Handshake
  <2>1. CASE ~Writable
    <3>1. /\ pc' = "wait" /\ link' = 0 /\ path' = path
          /\ UNCHANGED <<session, links, alive, written, asked, pad, intr, gen, jack, out_q>>
          /\ UNCHANGED <<seen, cur_gen, seq, state, last, engaged, primed, silent, starved>>
      BY <1>4, <2>1, Zenon DEF Handshake, LinkDown
    <3> QED
      BY <3>1
  <2>2. CASE Writable
    <3>1. pad' \in Pad /\ seq' \in 0..(SeqMod - 1)
      BY <1>4, <2>2, DeliveredType, SeqType DEF Handshake
    <3> QED
      BY <1>4, <2>2, <3>1 DEF Handshake
  <2> QED
    BY <2>1, <2>2
<1>5. CASE Engage
  <2>1. CASE engaged = jack
    BY <1>5, <2>1 DEF Engage
  <2>2. CASE engaged # jack /\ ~Writable
    BY <1>5, <2>2 DEF Engage, LinkDown
  <2>3. CASE engaged # jack /\ Writable
    <3>1. pad' \in Pad /\ seq' \in 0..(SeqMod - 1)
      BY <1>5, <2>3, DeliveredType, SeqType DEF Engage
    <3> QED
      BY <1>5, <2>3, <3>1 DEF Engage
  <2> QED
    BY <2>1, <2>2, <2>3
<1>6. CASE NoKeepAlive
  BY <1>6 DEF NoKeepAlive
<1>7. CASE FlushEnds
  BY <1>7 DEF FlushEnds
<1>8. CASE \E o \in Outputs : Absorb(o)
  <2> PICK o \in Outputs : Absorb(o)
    BY <1>8
  <2>1. state' \in States /\ out_q' \in Seq(Outputs) /\ Len(out_q') <= QCap
    BY DEF Absorb, Pop, States
  <2> QED
    BY <2>1 DEF Absorb, Pop
<1>9. CASE \E o \in Outputs : SkipSame(o)
  <2> PICK o \in Outputs : SkipSame(o)
    BY <1>9
  <2>1. state' \in States /\ out_q' \in Seq(Outputs) /\ Len(out_q') <= QCap
    BY DEF SkipSame, Pop, States
  <2> QED
    BY <2>1 DEF SkipSame, Pop
<1>10. CASE \E o \in Outputs : Relay(o)
  <2> PICK o \in Outputs : Relay(o)
    BY <1>10
  <2>1. state' \in States /\ out_q' \in Seq(Outputs) /\ Len(out_q') <= QCap
    BY DEF Relay, Pop, States
  <2>2. pad' \in Pad /\ seq' \in 0..(SeqMod - 1)
    BY <2>1, DeliveredType, SeqType DEF Relay
  <2> QED
    BY <2>1, <2>2 DEF Relay, Pop
<1>11. CASE \E o \in Outputs : RelayFails(o)
  <2> PICK o \in Outputs : RelayFails(o)
    BY <1>11
  <2>0. Pop(o)
    BY DEF RelayFails
  <2>1. state' \in States /\ out_q' \in Seq(Outputs) /\ Len(out_q') <= QCap
    BY <2>0 DEF Pop, States
  <2> QED
    BY <2>1 DEF RelayFails, Pop
<1>12. CASE StayIdle
  BY <1>12 DEF StayIdle
<1>13. CASE Prime
  <2>1. CASE ~Writable
    BY <1>13, <2>1 DEF Prime
  <2>2. CASE Writable
    <3>1. pad' \in Pad /\ seq' \in 0..(SeqMod - 1)
      BY <1>13, <2>2, DeliveredType, SeqType DEF Prime
    <3> QED
      BY <1>13, <2>2, <3>1 DEF Prime
  <2> QED
    BY <2>1, <2>2
<1>14. CASE StarveOut
  <2>1. /\ primed' = FALSE /\ starved' = 0 /\ pc' = "top"
        /\ UNCHANGED <<session, links, alive, written, asked, pad, intr, gen, jack, out_q, path>>
        /\ UNCHANGED <<seen, cur_gen, link, seq, state, last, engaged, silent>>
    BY <1>14, Zenon DEF StarveOut
  <2>2. /\ jack' \in BOOLEAN /\ path' \in BOOLEAN /\ primed' \in BOOLEAN
        /\ engaged' \in BOOLEAN \cup {None} /\ UNCHANGED <<asked, out_q>>
    BY <2>1, Zenon
  <2>3. starved' \in 0..IdleAfter
    BY <2>1
  <2> QED
    BY <2>1, <2>2, <2>3
<1>15. CASE SilentWindow
  BY <1>15 DEF SilentWindow
<1>16. CASE SendAudio
  <2>1. state' \in States /\ starved' \in 0..IdleAfter /\ silent' \in 0..IdleAfter
    <3>1. state' \in States
      BY <1>16, MergeType DEF SendAudio
    <3>2. silent' = 0
      BY <1>16 DEF SendAudio
    <3>3. starved' \in 0..IdleAfter
      <4>1. starved' = 0 \/ (starved < IdleAfter /\ starved' = starved + 1)
        BY ONLY <1>16, Zenon DEF SendAudio
      <4> QED
        BY <4>1
    <3> QED
      BY <3>1, <3>2, <3>3
  <2>2. CASE ~Writable
    <3>1. /\ pc' = "wait" /\ link' = 0
          /\ UNCHANGED <<session, links, alive, written, asked, pad, intr, gen, jack, out_q>>
          /\ UNCHANGED <<seen, cur_gen, seq, last, path, engaged, primed>>
      BY <1>16, <2>2, Zenon DEF SendAudio
    <3> QED
      BY <2>1, <3>1
  <2>3. CASE Writable
    <3>1. pad' \in Pad /\ seq' \in 0..(SeqMod - 1)
      BY <1>16, <2>1, <2>3, DeliveredType, SeqType DEF SendAudio
    <3> QED
      BY <1>16, <2>1, <2>3, <3>1 DEF SendAudio
  <2> QED
    BY <2>2, <2>3
<1>17. CASE KeepAlive
  <2>1. CASE ~Writable
    BY <1>17, <2>1 DEF KeepAlive, LinkDown
  <2>2. CASE Writable
    <3>1. pad' \in Pad /\ seq' \in 0..(SeqMod - 1)
      BY <1>17, <2>2, DeliveredType, SeqType DEF KeepAlive
    <3> QED
      BY <1>17, <2>2, <3>1 DEF KeepAlive
  <2> QED
    BY <2>1, <2>2
<1>18. CASE PadConnects
  BY <1>18 DEF PadConnects
<1>19. CASE AttachLink
  BY <1>19 DEF AttachLink
<1>20. CASE AttachGeneration
  BY <1>20 DEF AttachGeneration
<1>21. CASE Detach
  BY <1>21 DEF Detach
<1>22. CASE LinkDies
  BY <1>22 DEF LinkDies
<1>23. CASE JackMoves
  BY <1>23 DEF JackMoves
<1>24. CASE \E o \in Outputs : Enqueue(o)
  BY <1>24 DEF Enqueue
<1>25. CASE UNCHANGED vars
  BY <1>25 DEF vars
<1> QED
  BY <1>1, <1>2, <1>3, <1>4, <1>5, <1>6, <1>7, <1>8, <1>9, <1>10, <1>11, <1>12, <1>13, <1>14, <1>15, <1>16, <1>17, <1>18, <1>19, <1>20, <1>21, <1>22, <1>23, <1>24, <1>25 DEF Next, WriterStep, SessionStep

\* Every step keeps the generation in step with the links.
LEMMA GenStep == TypeOK /\ GenInv /\ [Next]_vars => GenInv'
<1> SUFFICES ASSUME TypeOK /\ GenInv, [Next]_vars PROVE GenInv'
  OBVIOUS
<1> USE DEF TypeOK, GenInv
<1>1. CASE ReadGeneration
  BY <1>1 DEF ReadGeneration
<1>2. CASE FindNoLink
  BY <1>2 DEF FindNoLink
<1>3. CASE TakeLink
  BY <1>3 DEF TakeLink
<1>4. CASE Handshake
  BY <1>4 DEF Handshake, LinkDown, NextSeq
<1>5. CASE Engage
  BY <1>5 DEF Engage, LinkDown, NextSeq
<1>6. CASE NoKeepAlive
  BY <1>6 DEF NoKeepAlive
<1>7. CASE FlushEnds
  BY <1>7 DEF FlushEnds
<1>8. CASE \E o \in Outputs : Absorb(o)
  BY <1>8 DEF Absorb, Pop
<1>9. CASE \E o \in Outputs : SkipSame(o)
  BY <1>9 DEF SkipSame, Pop
<1>10. CASE \E o \in Outputs : Relay(o)
  BY <1>10 DEF Relay, Pop, NextSeq
<1>11. CASE \E o \in Outputs : RelayFails(o)
  BY <1>11 DEF RelayFails, Pop
<1>12. CASE StayIdle
  BY <1>12 DEF StayIdle
<1>13. CASE Prime
  BY <1>13 DEF Prime, NextSeq
<1>14. CASE StarveOut
  BY <1>14 DEF StarveOut
<1>15. CASE SilentWindow
  BY <1>15 DEF SilentWindow
<1>16. CASE SendAudio
  BY <1>16 DEF SendAudio, NextSeq
<1>17. CASE KeepAlive
  BY <1>17 DEF KeepAlive, LinkDown, NextSeq
<1>18. CASE PadConnects
  BY <1>18 DEF PadConnects
<1>19. CASE AttachLink
  BY <1>19 DEF AttachLink
<1>20. CASE AttachGeneration
  BY <1>20 DEF AttachGeneration
<1>21. CASE Detach
  BY <1>21 DEF Detach
<1>22. CASE LinkDies
  BY <1>22 DEF LinkDies
<1>23. CASE JackMoves
  BY <1>23 DEF JackMoves
<1>24. CASE \E o \in Outputs : Enqueue(o)
  BY <1>24 DEF Enqueue
<1>25. CASE UNCHANGED vars
  BY <1>25 DEF vars
<1> QED
  BY <1>1, <1>2, <1>3, <1>4, <1>5, <1>6, <1>7, <1>8, <1>9, <1>10, <1>11, <1>12, <1>13, <1>14, <1>15, <1>16, <1>17, <1>18, <1>19, <1>20, <1>21, <1>22, <1>23, <1>24, <1>25 DEF Next, WriterStep, SessionStep

\* Every step keeps the writer's link.
LEMMA LinkStep == TypeOK /\ LinkInv /\ [Next]_vars => LinkInv'
<1> SUFFICES ASSUME TypeOK /\ LinkInv, [Next]_vars PROVE LinkInv'
  OBVIOUS
<1> USE DEF TypeOK, LinkInv, Delivered, Pad
<1>1. CASE ReadGeneration
  BY <1>1 DEF ReadGeneration
<1>2. CASE FindNoLink
  BY <1>2 DEF FindNoLink
<1>3. CASE TakeLink
  BY <1>3 DEF TakeLink
<1>4. CASE Handshake
  BY <1>4 DEF Handshake, LinkDown, NextSeq
<1>5. CASE Engage
  BY <1>5 DEF Engage, LinkDown, NextSeq
<1>6. CASE NoKeepAlive
  BY <1>6 DEF NoKeepAlive
<1>7. CASE FlushEnds
  BY <1>7 DEF FlushEnds
<1>8. CASE \E o \in Outputs : Absorb(o)
  BY <1>8 DEF Absorb, Pop
<1>9. CASE \E o \in Outputs : SkipSame(o)
  BY <1>9 DEF SkipSame, Pop
<1>10. CASE \E o \in Outputs : Relay(o)
  BY <1>10 DEF Relay, Pop, NextSeq
<1>11. CASE \E o \in Outputs : RelayFails(o)
  BY <1>11 DEF RelayFails, Pop
<1>12. CASE StayIdle
  BY <1>12 DEF StayIdle
<1>13. CASE Prime
  BY <1>13 DEF Prime, NextSeq
<1>14. CASE StarveOut
  BY <1>14 DEF StarveOut
<1>15. CASE SilentWindow
  BY <1>15 DEF SilentWindow
<1>16. CASE SendAudio
  <2>1. CASE ~Writable
    BY <1>16, <2>1 DEF SendAudio
  <2>2. CASE Writable
    <3>1. pad'.link = link /\ UNCHANGED <<links, alive, link, intr>> /\ pc' = "top" /\ pc \in {"window", "first"}
      BY <1>16, <2>2 DEF SendAudio
    <3> QED
      BY <2>2, <3>1
  <2> QED
    BY <2>1, <2>2
<1>17. CASE KeepAlive
  BY <1>17 DEF KeepAlive, LinkDown, NextSeq
<1>18. CASE PadConnects
  BY <1>18 DEF PadConnects
<1>19. CASE AttachLink
  BY <1>19 DEF AttachLink
<1>20. CASE AttachGeneration
  BY <1>20 DEF AttachGeneration
<1>21. CASE Detach
  BY <1>21 DEF Detach
<1>22. CASE LinkDies
  BY <1>22 DEF LinkDies
<1>23. CASE JackMoves
  BY <1>23 DEF JackMoves
<1>24. CASE \E o \in Outputs : Enqueue(o)
  BY <1>24 DEF Enqueue
<1>25. CASE UNCHANGED vars
  BY <1>25 DEF vars
<1> QED
  BY <1>1, <1>2, <1>3, <1>4, <1>5, <1>6, <1>7, <1>8, <1>9, <1>10, <1>11, <1>12, <1>13, <1>14, <1>15, <1>16, <1>17, <1>18, <1>19, <1>20, <1>21, <1>22, <1>23, <1>24, <1>25 DEF Next, WriterStep, SessionStep

\* Every step keeps the counter in step with the pad.
LEMMA SeqStep == TypeOK /\ LinkInv /\ SeqInv /\ [Next]_vars => SeqInv'
<1> SUFFICES ASSUME TypeOK /\ LinkInv /\ SeqInv, [Next]_vars PROVE SeqInv'
  OBVIOUS
<1> USE DEF TypeOK, LinkInv, SeqInv, Delivered, Pad
<1>1. CASE ReadGeneration
  BY <1>1 DEF ReadGeneration
<1>2. CASE FindNoLink
  BY <1>2 DEF FindNoLink
<1>3. CASE TakeLink
  BY <1>3 DEF TakeLink
<1>4. CASE Handshake
  BY <1>4 DEF Handshake, LinkDown, NextSeq
<1>5. CASE Engage
  BY <1>5 DEF Engage, LinkDown, NextSeq
<1>6. CASE NoKeepAlive
  BY <1>6 DEF NoKeepAlive
<1>7. CASE FlushEnds
  BY <1>7 DEF FlushEnds
<1>8. CASE \E o \in Outputs : Absorb(o)
  BY <1>8 DEF Absorb, Pop
<1>9. CASE \E o \in Outputs : SkipSame(o)
  BY <1>9 DEF SkipSame, Pop
<1>10. CASE \E o \in Outputs : Relay(o)
  BY <1>10 DEF Relay, Pop, NextSeq
<1>11. CASE \E o \in Outputs : RelayFails(o)
  BY <1>11 DEF RelayFails, Pop
<1>12. CASE StayIdle
  BY <1>12 DEF StayIdle
<1>13. CASE Prime
  BY <1>13 DEF Prime, NextSeq
<1>14. CASE StarveOut
  BY <1>14 DEF StarveOut
<1>15. CASE SilentWindow
  BY <1>15 DEF SilentWindow
<1>16. CASE SendAudio
  <2>1. CASE ~Writable
    BY <1>16, <2>1 DEF SendAudio
  <2>2. CASE Writable
    <3>1. /\ UNCHANGED <<alive, link>>
          /\ seq' = IF pad'.link = link' THEN (pad'.seq + 1) % SeqMod ELSE 0
      BY <1>16, <2>2 DEF SendAudio, NextSeq
    <3> QED
      BY <2>2, <3>1
  <2> QED
    BY <2>1, <2>2
<1>17. CASE KeepAlive
  BY <1>17 DEF KeepAlive, LinkDown, NextSeq
<1>18. CASE PadConnects
  <2>1. /\ alive' = links + 1 /\ link' = link /\ seq' = seq /\ pad' = pad /\ link \in Links
        /\ alive = 0 /\ session = "out"
    BY <1>18 DEF PadConnects
  <2>2. link <= links
    BY DEF LinkInv
  <2> QED
    BY <2>1, <2>2
<1>19. CASE AttachLink
  BY <1>19 DEF AttachLink
<1>20. CASE AttachGeneration
  BY <1>20 DEF AttachGeneration
<1>21. CASE Detach
  BY <1>21 DEF Detach
<1>22. CASE LinkDies
  BY <1>22 DEF LinkDies
<1>23. CASE JackMoves
  BY <1>23 DEF JackMoves
<1>24. CASE \E o \in Outputs : Enqueue(o)
  BY <1>24 DEF Enqueue
<1>25. CASE UNCHANGED vars
  BY <1>25 DEF vars
<1> QED
  BY <1>1, <1>2, <1>3, <1>4, <1>5, <1>6, <1>7, <1>8, <1>9, <1>10, <1>11, <1>12, <1>13, <1>14, <1>15, <1>16, <1>17, <1>18, <1>19, <1>20, <1>21, <1>22, <1>23, <1>24, <1>25 DEF Next, WriterStep, SessionStep

\* Every step keeps the mirror true.
LEMMA LastStep == TypeOK /\ LinkInv /\ LastInv /\ [Next]_vars => LastInv'
<1> SUFFICES ASSUME TypeOK /\ LinkInv /\ LastInv, [Next]_vars PROVE LastInv'
  OBVIOUS
<1> USE DEF TypeOK, LinkInv, LastInv, Delivered, Pad, States
<1>1. CASE ReadGeneration
  BY <1>1 DEF ReadGeneration
<1>2. CASE FindNoLink
  BY <1>2 DEF FindNoLink
<1>3. CASE TakeLink
  BY <1>3 DEF TakeLink
<1>4. CASE Handshake
  BY <1>4 DEF Handshake, LinkDown, NextSeq
<1>5. CASE Engage
  BY <1>5 DEF Engage, LinkDown, NextSeq
<1>6. CASE NoKeepAlive
  BY <1>6 DEF NoKeepAlive
<1>7. CASE FlushEnds
  BY <1>7 DEF FlushEnds
<1>8. CASE \E o \in Outputs : Absorb(o)
  BY <1>8 DEF Absorb, Pop
<1>9. CASE \E o \in Outputs : SkipSame(o)
  BY <1>9 DEF SkipSame, Pop
<1>10. CASE \E o \in Outputs : Relay(o)
  BY <1>10 DEF Relay, Pop, NextSeq
<1>11. CASE \E o \in Outputs : RelayFails(o)
  BY <1>11 DEF RelayFails, Pop
<1>12. CASE StayIdle
  BY <1>12 DEF StayIdle
<1>13. CASE Prime
  BY <1>13 DEF Prime, NextSeq
<1>14. CASE StarveOut
  BY <1>14 DEF StarveOut
<1>15. CASE SilentWindow
  BY <1>15 DEF SilentWindow
<1>16. CASE SendAudio
  <2>1. CASE ~Writable
    BY <1>16, <2>1 DEF SendAudio
  <2>2. CASE Writable
    <3>1. last' = state' /\ UNCHANGED link /\ Delivered(state')
      BY <1>16, <2>2 DEF SendAudio
    <3> QED
      BY <3>1
  <2> QED
    BY <2>1, <2>2
<1>17. CASE KeepAlive
  BY <1>17 DEF KeepAlive, LinkDown, NextSeq
<1>18. CASE PadConnects
  BY <1>18 DEF PadConnects
<1>19. CASE AttachLink
  BY <1>19 DEF AttachLink
<1>20. CASE AttachGeneration
  BY <1>20 DEF AttachGeneration
<1>21. CASE Detach
  BY <1>21 DEF Detach
<1>22. CASE LinkDies
  BY <1>22 DEF LinkDies
<1>23. CASE JackMoves
  BY <1>23 DEF JackMoves
<1>24. CASE \E o \in Outputs : Enqueue(o)
  BY <1>24 DEF Enqueue
<1>25. CASE UNCHANGED vars
  BY <1>25 DEF vars
<1> QED
  BY <1>1, <1>2, <1>3, <1>4, <1>5, <1>6, <1>7, <1>8, <1>9, <1>10, <1>11, <1>12, <1>13, <1>14, <1>15, <1>16, <1>17, <1>18, <1>19, <1>20, <1>21, <1>22, <1>23, <1>24, <1>25 DEF Next, WriterStep, SessionStep

\* The newest output is the last of the queue or the one just popped.
LEMMA PopKeepsNewest ==
  ASSUME TypeOK, NewestKept, NEW o \in Outputs, Pop(o) PROVE NewestKept'
<1>1. /\ out_q \in Seq(Outputs) /\ out_q # << >> /\ o = Head(out_q) /\ out_q' = Tail(out_q)
      /\ state'.out = o /\ asked' = asked
  BY DEF Pop, TypeOK
<1>2. CASE Len(out_q) = 1
  <2>1. out_q' = << >> /\ o = out_q[Len(out_q)]
    BY <1>1, <1>2
  <2> QED
    BY <1>1, <2>1 DEF NewestKept
<1>3. CASE Len(out_q) # 1
  <2>1. /\ Len(out_q) \in Nat \ {0, 1} /\ Len(out_q') = Len(out_q) - 1
        /\ \A i \in 1..Len(out_q') : out_q'[i] = out_q[i + 1]
    BY <1>1, <1>3, HeadTailProperties, EmptySeq
  <2>2. Len(out_q') \in 1..Len(out_q') /\ Len(out_q') + 1 = Len(out_q)
    BY <2>1
  <2>3. out_q' # << >> /\ out_q'[Len(out_q')] = out_q[Len(out_q)]
    BY <2>1, <2>2
  <2> QED
    BY <1>1, <2>3 DEF NewestKept
<1> QED
  BY <1>2, <1>3

\* Every step keeps the newest output.
LEMMA NewestStep == TypeOK /\ NewestKept /\ [Next]_vars => NewestKept'
<1> SUFFICES ASSUME TypeOK /\ NewestKept, [Next]_vars PROVE NewestKept'
  OBVIOUS
<1> USE DEF TypeOK, NewestKept
<1>1. CASE ReadGeneration
  BY <1>1 DEF ReadGeneration
<1>2. CASE FindNoLink
  BY <1>2 DEF FindNoLink
<1>3. CASE TakeLink
  BY <1>3 DEF TakeLink
<1>4. CASE Handshake
  BY <1>4 DEF Handshake, LinkDown, NextSeq
<1>5. CASE Engage
  BY <1>5 DEF Engage, LinkDown, NextSeq
<1>6. CASE NoKeepAlive
  BY <1>6 DEF NoKeepAlive
<1>7. CASE FlushEnds
  BY <1>7 DEF FlushEnds
<1>8. CASE \E o \in Outputs : Absorb(o)
  BY <1>8, PopKeepsNewest DEF Absorb
<1>9. CASE \E o \in Outputs : SkipSame(o)
  BY <1>9, PopKeepsNewest DEF SkipSame
<1>10. CASE \E o \in Outputs : Relay(o)
  BY <1>10, PopKeepsNewest DEF Relay
<1>11. CASE \E o \in Outputs : RelayFails(o)
  BY <1>11, PopKeepsNewest DEF RelayFails
<1>12. CASE StayIdle
  BY <1>12 DEF StayIdle
<1>13. CASE Prime
  BY <1>13 DEF Prime, NextSeq
<1>14. CASE StarveOut
  BY <1>14 DEF StarveOut
<1>15. CASE SilentWindow
  BY <1>15 DEF SilentWindow
<1>16. CASE SendAudio
  BY <1>16 DEF SendAudio, NextSeq
<1>17. CASE KeepAlive
  BY <1>17 DEF KeepAlive, LinkDown, NextSeq
<1>18. CASE PadConnects
  BY <1>18 DEF PadConnects
<1>19. CASE AttachLink
  BY <1>19 DEF AttachLink
<1>20. CASE AttachGeneration
  BY <1>20 DEF AttachGeneration
<1>21. CASE Detach
  BY <1>21 DEF Detach
<1>22. CASE LinkDies
  BY <1>22 DEF LinkDies
<1>23. CASE JackMoves
  BY <1>23 DEF JackMoves
<1>24. CASE \E o \in Outputs : Enqueue(o)
  BY <1>24 DEF Enqueue
<1>25. CASE UNCHANGED vars
  BY <1>25 DEF vars
<1> QED
  BY <1>1, <1>2, <1>3, <1>4, <1>5, <1>6, <1>7, <1>8, <1>9, <1>10, <1>11, <1>12, <1>13, <1>14, <1>15, <1>16, <1>17, <1>18, <1>19, <1>20, <1>21, <1>22, <1>23, <1>24, <1>25 DEF Next, WriterStep, SessionStep


-----------------------------------------------------------------------------
\* Every report continues the counter of its link, for any modulus.
LEMMA SeqMoves ==
  TypeOK /\ LinkInv /\ SeqInv /\ [Next]_vars =>
    (pad'.n # pad.n => pad'.seq = IF pad'.link = pad.link THEN (pad.seq + 1) % SeqMod ELSE 0)
<1> SUFFICES ASSUME TypeOK, LinkInv, SeqInv, [Next]_vars, pad'.n # pad.n
             PROVE  pad'.seq = IF pad'.link = pad.link THEN (pad.seq + 1) % SeqMod ELSE 0
  OBVIOUS
<1> USE DEF Delivered
<1>1. \/ pad' = pad
      \/ /\ pc \notin {"wait", "fetch"} /\ Writable /\ pad'.link = link /\ pad'.seq = seq
  <2>1. CASE Handshake
    BY <2>1 DEF Handshake, LinkDown
  <2>2. CASE Engage
    BY <2>2 DEF Engage, LinkDown
  <2>3. CASE KeepAlive
    BY <2>3 DEF KeepAlive, LinkDown
  <2>4. CASE \E o \in Outputs : Absorb(o) \/ SkipSame(o) \/ Relay(o) \/ RelayFails(o)
    BY <2>4 DEF Absorb, SkipSame, Relay, RelayFails, Pop
  <2>5. CASE Prime
    BY <2>5 DEF Prime
  <2>6. CASE SendAudio
    BY <2>6 DEF SendAudio
  <2>7. CASE ReadGeneration \/ FindNoLink \/ TakeLink \/ NoKeepAlive \/ FlushEnds
    BY <2>7 DEF ReadGeneration, FindNoLink, TakeLink, NoKeepAlive, FlushEnds
  <2>8. CASE StayIdle \/ StarveOut \/ SilentWindow
    BY <2>8 DEF StayIdle, StarveOut, SilentWindow
  <2>9. CASE SessionStep
    BY <2>9 DEF SessionStep, PadConnects, AttachLink, AttachGeneration, Detach, LinkDies,
                JackMoves, Enqueue
  <2>10. CASE UNCHANGED vars
    BY <2>10 DEF vars
  <2> QED
    BY <2>1, <2>2, <2>3, <2>4, <2>5, <2>6, <2>7, <2>8, <2>9, <2>10 DEF Next, WriterStep
<1> QED
  BY <1>1 DEF TypeOK, LinkInv, SeqInv

\* The invariant holds of the initial states and of every reachable one.
LEMMA InvInit == Init => IInv /\ NewestKept
<1>1. Init => TypeOK
  <2> SUFFICES ASSUME Init PROVE TypeOK
    OBVIOUS
  <2>1. pad \in Pad
    BY DEF Init, Pad
  <2>2. state \in States /\ jack \in BOOLEAN /\ path \in BOOLEAN /\ primed \in BOOLEAN
    BY DEF Init, States
  <2>3. 0 \in Links /\ 0 \in 0..MaxOutputs /\ 0 \in 0..IdleAfter /\ 0 \in 0..(SeqMod - 1)
    OBVIOUS
  <2> QED
    BY <2>1, <2>2, <2>3 DEF Init, TypeOK
<1>2. Init => GenInv /\ LinkInv /\ SeqInv /\ LastInv /\ NewestKept
  BY DEF Init, GenInv, LinkInv, SeqInv, LastInv, NewestKept
<1> QED
  BY <1>1, <1>2 DEF IInv

LEMMA InvAlways == Spec => [](IInv /\ NewestKept)
<1>1. IInv /\ NewestKept /\ [Next]_vars => IInv' /\ NewestKept'
  BY TypeStep, GenStep, LinkStep, SeqStep, LastStep, NewestStep DEF IInv
<1> QED
  BY InvInit, <1>1, PTL DEF Spec

\* The variables keep their types.
THEOREM WriterTypeOK == Spec => []TypeOK
<1>1. IInv => TypeOK
  BY DEF IInv
<1> QED
  BY InvAlways, <1>1, PTL

\* However full the queue gets, the newest output is the one that is kept.
THEOREM NewestIsKept == Spec => []NewestKept
  BY InvAlways, PTL

\* Each link sees one unbroken counter, whichever place of the writer sends.
THEOREM OneCounter == Spec => SeqAdvances
<1>1. IInv /\ [Next]_vars =>
        [pad'.n # pad.n =>
          pad'.seq = IF pad'.link = pad.link THEN (pad.seq + 1) % SeqMod ELSE 0]_vars
  BY SeqMoves DEF IInv
<1> QED
  BY InvAlways, <1>1, PTL DEF Spec, SeqAdvances

\* An output is skipped only on a link whose pad shows it already.
THEOREM SkippedIsShown == Spec => SkipIsSafe
<1>1. IInv => [\A o \in Outputs : SkipSame(o) => pad.link = link /\ pad.shows = state']_vars
  <2> SUFFICES ASSUME IInv, NEW o \in Outputs, SkipSame(o)
               PROVE  pad.link = link /\ pad.shows = state'
    OBVIOUS
  <2>1. last = [out |-> o, jack |-> path] /\ state' = last /\ pc = "flush"
    BY DEF SkipSame, Pop
  <2>2. last # Zero
    BY <2>1 DEF IInv, TypeOK
  <2> QED
    BY <2>1, <2>2 DEF IInv, LinkInv, LastInv
<1> QED
  BY InvAlways, <1>1, PTL DEF Spec, SkipIsSafe

=============================================================================
