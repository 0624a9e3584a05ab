---------------------------- MODULE FeaturesProofs ----------------------------
(***************************************************************************)
(* What holds of the control channel for any limits on skips, tries and     *)
(* reads: replies match, and while no answer misses its deadline a pad is   *)
(* taken for what it is and no report it has is refused.                    *)
(***************************************************************************)
EXTENDS Features, TLAPS

Handshaking == pc \in {"ask", "await"}
Flight      == Len(toPad) + Len(toUs)

\* The channel is open and has kept every deadline since it was opened.
Timely == up /\ late = 0

Get(i)  == [tag |-> "GET", id |-> i]
Data(i) == [tag |-> "DATA", id |-> i]
Refusal == [tag |-> "HANDSHAKE"]

\* What the loop was told of is there when it gets to it, and a fetch is for a
\* report that the cache does not have.
ReadyInv ==
  /\ pc = "fetch" => want # None
  /\ pc = "sock" /\ "sock" \in ready => asked # << >>
  /\ pc \in {"sock", "ctrl"} /\ "ctrl" \in ready /\ up => toUs # << >>

\* The cache has nothing under a wrong name.
CacheInv == \A i \in Ids : cache[i] \in {i, None}

\* A session begins with nothing known and nothing under way, and the kernel
\* asks for nothing before there is a pad.
FreshInv ==
  /\ pc = "closed" => cache = NoCache /\ toPad = << >> /\ toUs = << >>
  /\ pc = "closed" \/ Handshaking => kind = None /\ asked = << >>

\* How far the handshake has come: what it has yet to ask for says what it has
\* asked for.  Only of a DualSense is the firmware asked for, only of another
\* pad the report of a DualShock 4.
Stages == {Ds5Ids, <<"fw", "cal">>, Ds4Ids, <<"cal">>}
Been(q) == CASE q = Ds5Ids         -> {}
             [] q = <<"fw", "cal">> -> {"serial"}
             [] q = Ds4Ids         -> {"serial"}
             [] q = <<"cal">>       -> {"serial", "fw", "ds4"}
StageInv ==
  Handshaking =>
    /\ todo \in Stages
    /\ Timely => /\ todo = <<"fw", "cal">> => pad = "ds5"
                 /\ todo = Ds4Ids => pad # "ds5"
                 /\ \A i \in Ids : cache[i] # None <=> i \in Has(pad) \cap Been(todo)

\* One question is under way at a time, or its answer.
AnswerTo(i) == IF i \in Has(pad) THEN Data(i) ELSE Refusal
QuestionInv ==
  Timely =>
    /\ pc = "ask" => toPad = << >> /\ toUs = << >>
    /\ pc = "await" =>
         \/ toPad = <<Get(Head(todo))>> /\ toUs = << >>
         \/ toPad = << >> /\ toUs = <<AnswerTo(Head(todo))>>

\* What is under way, and what the waiting requests will add.
FlightInv == Timely /\ Serving => Flight + 2 * Len(asked) <= Cap + 2 * ReqCap

\* The answer to a fetch is near enough to be read.
FetchInv ==
  pc = "fetch" /\ Timely /\ want \in Has(pad) =>
    \/ toPad # << >> /\ toPad[Len(toPad)] = Get(want) /\ Flight <= left
    \/ \E i \in 1..Len(toUs) : i <= left /\ toUs[i] = Data(want)

IInv ==
  /\ TypeOK /\ ReadyInv /\ CacheInv /\ ReplyMatches
  /\ FreshInv /\ StageInv /\ QuestionInv /\ KindIsRight
NearInv == Cap + 2 * ReqCap <= Reads + 1 => FlightInv /\ FetchInv
Both == IInv /\ NearInv

USE DEF padVars, probeVars, kernelVars, loopVars, ToPad, ToUs, Requests, Answers, Handshaking

LEMMA Limits ==
  /\ Skips \in Nat \ {0} /\ Tries \in Nat \ {0} /\ Reads \in Nat \ {0}
  /\ MaxLate \in Nat /\ ReqCap \in Nat /\ Cap \in Nat
  /\ Asks \subseteq Ids /\ None \notin Ids /\ None \notin Kinds
  /\ Skips \in 0..(Skips + Reads) /\ Reads \in 0..(Skips + Reads) /\ Tries \in 0..Tries
<1>1. /\ Skips \in Nat \ {0} /\ Tries \in Nat \ {0} /\ Reads \in Nat \ {0}
      /\ MaxLate \in Nat /\ ReqCap \in Nat /\ Cap \in Nat
  BY FeaturesAssumption
<1> QED BY <1>1, FeaturesAssumption

-----------------------------------------------------------------------------
(* Types.                                                                    *)

\* The end of a session.
LEMMA CloseTypes ==
  ASSUME TypeOK, Close, pad' = pad, served' = served, late' \in 0..MaxLate
  PROVE  TypeOK'
<1>1. pad \in Kinds /\ served \in BOOLEAN
  BY DEF TypeOK
<1>2. NoCache \in [Ids -> Ids \cup {None}]
  BY DEF NoCache
<1>3. 0 \in 0..Tries /\ 0 \in 0..(Skips + Reads)
  BY Limits
<1>4. << >> \in Seq(ToPad) /\ << >> \in Seq(ToUs) /\ << >> \in Seq(Ids) /\ << >> \in Seq(Requests)
  OBVIOUS
<1> QED
  <2> HIDE DEF ToPad, ToUs, Requests, Answers
  <2> QED BY <1>1, <1>2, <1>3, <1>4 DEF Close, TypeOK

\* Whatever becomes of a question.
LEMMA GoesTypes ==
  ASSUME TypeOK, Handshaking, NEW got \in BOOLEAN, NEW c \in [Ids -> Ids \cup {None}],
         NEW q \in Seq(ToUs), Goes(got, c, q), late' \in 0..MaxLate
  PROVE  TypeOK'
<1> DEFINE k == KindOf(c)
           rest == Rest(got)
<1>1. todo \in Seq(Ids) /\ todo # << >>
  BY DEF TypeOK
<1>2. rest \in Seq(Ids)
  <2>1. Tail(todo) \in Seq(Ids)
    BY <1>1
  <2>2. Ds4Ids \in Seq(Ids)
    BY DEF Ds4Ids, Ids
  <2> QED BY <2>1, <2>2 DEF Rest
<1>3. k \in {"ds5", "ds4", None}
  BY DEF KindOf
<1>4. pad' = pad /\ served' = served /\ pad \in Kinds /\ served \in BOOLEAN
  BY DEF TypeOK, Goes
<1>5. CASE rest = << >> /\ (k = None \/ (k = "ds5" /\ ~up))
  <2>1. Close
    BY <1>5 DEF Goes
  <2> QED BY <1>4, <2>1, CloseTypes
<1>6. CASE ~(rest = << >> /\ (k = None \/ (k = "ds5" /\ ~up)))
  <2> HIDE DEF k, rest
  <2>1. /\ todo' = rest /\ cache' = c /\ toUs' = q
        /\ IF rest = << >> THEN pc' = "turn" /\ kind' = k /\ tries' = 0 /\ left' = 0
           ELSE pc' = "ask" /\ kind' = None /\ tries' = Tries /\ left' = Skips
        /\ UNCHANGED <<up, toPad, report, asked, ready, want, answer>>
    BY <1>6 DEF Goes, k, rest
  <2>2. 0 \in 0..Tries /\ 0 \in 0..(Skips + Reads)
    BY Limits
  <2>3. tries' \in 0..Tries /\ left' \in 0..(Skips + Reads)
    BY <2>1, <2>2, Limits
  <2>4. /\ pc' \in {"turn", "ask"} /\ (pc' = "ask" => rest # << >>)
        /\ kind' \in {"ds5", "ds4", None} /\ (pc' = "turn" => kind' # None)
    BY <1>3, <1>6, <2>1
  <2> QED BY <1>2, <1>4, <2>1, <2>3, <2>4 DEF TypeOK
<1> QED BY <1>5, <1>6

LEMMA DeadlineTypes ==
  ASSUME TypeOK, Deadline
  PROVE  late' \in 0..MaxLate /\ late' \in Nat /\ late <= late'
BY Limits DEF TypeOK, Deadline

LEMMA TypeStep ==
  ASSUME TypeOK, ReadyInv, [Next]_vars
  PROVE  TypeOK'
<1>1. ASSUME NEW p \in Kinds, Connects(p) PROVE TypeOK'
  <2>1. Ds5Ids \in Seq(Ids) /\ Ds5Ids # << >> /\ 0 \in 0..MaxLate
    BY Limits DEF Ds5Ids, Ids
  <2> QED BY <1>1, <2>1, Limits DEF Connects, TypeOK
<1>2. CASE PadAnswers
  <2>1. toPad' \in Seq(ToPad)
    BY <1>2 DEF PadAnswers, TypeOK
  <2>2. toUs' \in Seq(ToUs)
    <3>1. Head(toPad) \in ToPad
      BY <1>2 DEF PadAnswers, TypeOK
    <3>2. CASE toUs' = Append(toUs, [tag |-> "HANDSHAKE"]) \/ toUs' = toUs
      <4>1. [tag |-> "HANDSHAKE"] \in ToUs /\ toUs \in Seq(ToUs)
        BY DEF TypeOK
      <4> QED BY <3>2, <4>1
    <3>3. CASE Head(toPad).tag = "GET" /\ toUs' = Append(toUs, [tag |-> "DATA", id |-> Head(toPad).id])
      <4>1. Head(toPad).id \in Ids
        BY <3>1, <3>3
      <4> QED BY <3>3, <4>1 DEF TypeOK
    <3> QED BY <1>2, <3>2, <3>3 DEF PadAnswers
  <2> QED BY <1>2, <2>1, <2>2 DEF PadAnswers, TypeOK
<1>3. CASE PadReports \/ LinkDies
  BY <1>3 DEF PadReports, LinkDies, TypeOK
<1>4. ASSUME NEW r \in Requests, KernelAsks(r) PROVE TypeOK'
  <2>1. asked' \in Seq(Requests)
    BY <1>4 DEF KernelAsks, TypeOK
  <2> QED BY <1>4, <2>1 DEF KernelAsks, TypeOK
<1>5. CASE GetAsks
  <2>1. Head(todo) \in Ids
    BY <1>5 DEF GetAsks, TypeOK
  <2>2. toPad' \in Seq(ToPad)
    BY <1>5, <2>1 DEF GetAsks, TypeOK
  <2> QED BY <1>5, <2>2 DEF GetAsks, TypeOK
<1>6. CASE Gets
  <2>1. Head(todo) \in Ids
    BY <1>6 DEF Gets, TypeOK
  <2>2. /\ [cache EXCEPT ![Head(todo)] = Head(todo)] \in [Ids -> Ids \cup {None}]
        /\ Tail(toUs) \in Seq(ToUs) /\ late' \in 0..MaxLate
    BY <1>6, <2>1 DEF Gets, TypeOK
  <2> QED BY <1>6, <2>2, GoesTypes DEF Gets
<1>7. CASE GetRefused
  <2>1. cache \in [Ids -> Ids \cup {None}] /\ Tail(toUs) \in Seq(ToUs) /\ late' \in 0..MaxLate
    BY <1>7 DEF GetRefused, TypeOK
  <2> QED BY <1>7, <2>1, GoesTypes DEF GetRefused
<1>8. CASE GetTimesOut
  <2>1. cache \in [Ids -> Ids \cup {None}] /\ toUs \in Seq(ToUs)
    BY DEF TypeOK
  <2>2. late' \in 0..MaxLate
    BY <1>8, DeadlineTypes DEF GetTimesOut
  <2> QED BY <1>8, <2>1, <2>2, GoesTypes DEF GetTimesOut
<1>9. CASE GetDies
  <2>1. cache \in [Ids -> Ids \cup {None}] /\ toUs \in Seq(ToUs) /\ late' \in 0..MaxLate
    BY <1>9 DEF GetDies, TypeOK
  <2> QED BY <1>9, <2>1, GoesTypes DEF GetDies
<1>10. CASE GetSkips
  <2>1. /\ cache \in [Ids -> Ids \cup {None}] /\ Tail(toUs) \in Seq(ToUs)
        /\ late' = late /\ late \in 0..MaxLate
    BY <1>10 DEF GetSkips, TypeOK
  <2>2. CASE left > 1 /\ left' = left - 1 /\ toUs' = Tail(toUs)
             /\ UNCHANGED <<padVars, toPad, report, pc, probeVars, cache, kernelVars, ready, want>>
    <3>1. left' \in 0..(Skips + Reads)
      BY <2>2, Limits DEF TypeOK
    <3> QED BY <2>1, <2>2, <3>1 DEF TypeOK
  <2>3. CASE tries > 1 /\ tries' = tries - 1 /\ left' = Skips /\ pc' = "ask" /\ toUs' = Tail(toUs)
             /\ UNCHANGED <<padVars, toPad, report, todo, kind, cache, kernelVars, ready, want>>
    <3>1. tries' \in 0..Tries
      BY <2>3, Limits DEF TypeOK
    <3>2. todo' # << >>
      BY <1>10, <2>3 DEF GetSkips, TypeOK
    <3> QED BY <2>1, <2>3, <3>1, <3>2, Limits DEF TypeOK
  <2>4. CASE Goes(FALSE, cache, Tail(toUs))
    BY <1>10, <2>1, <2>4, GoesTypes DEF GetSkips
  <2> QED BY <1>10, <2>2, <2>3, <2>4 DEF GetSkips
<1>11. CASE TurnWithoutReport \/ TurnRelays \/ TurnDrops \/ NoRequest \/ NoFrame
  BY <1>11 DEF TurnWithoutReport, TurnRelays, TurnDrops, NoRequest, NoFrame, Found, TypeOK
<1>12. CASE GetHit \/ GetMiss \/ SetForwards
  <2>1. asked # << >> /\ asked \in Seq(Requests)
    BY <1>12 DEF GetHit, GetMiss, SetForwards, ReadyInv, TypeOK
  <2>2. Head(asked) \in Requests /\ Tail(asked) \in Seq(Requests)
    BY <2>1
  <2>3. Head(asked).tag = "GET" => Head(asked).id \in Ids
    BY <2>2, Limits
  <2>4. CASE GetHit
    <3>1. cache[Head(asked).id] \in Ids \cup {None}
      BY <2>3, <2>4 DEF GetHit, TypeOK
    <3>2. answer' \in Answers /\ served' \in BOOLEAN
      BY <2>3, <2>4, <3>1 DEF GetHit, Reply
    <3> QED BY <2>2, <2>4, <3>2 DEF GetHit, TypeOK
  <2>5. CASE GetMiss
    <3>1. toPad' \in Seq(ToPad)
      BY <2>3, <2>5 DEF GetMiss, TypeOK
    <3> QED BY <2>2, <2>3, <2>5, <3>1, Limits DEF GetMiss, TypeOK
  <2>6. CASE SetForwards
    <3>1. [tag |-> "SET"] \in ToPad /\ [tag |-> "BODY"] \in ToPad
      OBVIOUS
    <3>2. toPad' \in Seq(ToPad)
      <4> DEFINE set == <<[tag |-> "SET"], [tag |-> "BODY"]>>
      <4>1. set \in Seq(ToPad) /\ toPad \in Seq(ToPad)
        <5> HIDE DEF ToPad
        <5> QED BY <3>1 DEF TypeOK
      <4>2. toPad \o set \in Seq(ToPad)
        <5> HIDE DEF ToPad, set
        <5> QED BY <4>1
      <4> QED BY <2>6, <4>1, <4>2 DEF SetForwards
    <3> QED BY <2>2, <2>6, <3>2 DEF SetForwards, TypeOK
  <2> QED BY <1>12, <2>4, <2>5, <2>6
<1>13. CASE FetchGets \/ FetchTimesOut \/ FetchSkips
  <2>1. want \in Ids /\ 0 \in 0..(Skips + Reads)
    BY <1>13, Limits DEF FetchGets, FetchTimesOut, FetchSkips, ReadyInv, TypeOK
  <2>2. ASSUME NEW data \in Ids \cup {None}, Fetched(data),
               cache' \in [Ids -> Ids \cup {None}], toUs' \in Seq(ToUs), late' \in 0..MaxLate
        PROVE  TypeOK'
    <3>1. answer' \in Answers /\ served' \in BOOLEAN
      BY <2>1, <2>2 DEF Fetched, Reply
    <3>2. kind # None
      BY <1>13 DEF FetchGets, FetchTimesOut, FetchSkips, TypeOK
    <3> HIDE DEF ToPad, ToUs, Requests, Answers
    <3> QED BY <2>1, <2>2, <3>1, <3>2 DEF Fetched, TypeOK
  <2>3. CASE FetchGets
    <3>1. Tail(toUs) \in Seq(ToUs) /\ [cache EXCEPT ![want] = want] \in [Ids -> Ids \cup {None}]
      BY <2>1, <2>3 DEF FetchGets, TypeOK
    <3> QED BY <2>1, <2>2, <2>3, <3>1 DEF FetchGets, TypeOK
  <2>4. CASE FetchTimesOut
    <3>1. late' \in 0..MaxLate
      BY <2>4, DeadlineTypes DEF FetchTimesOut, TypeOK
    <3> QED BY <2>2, <2>4, <3>1 DEF FetchTimesOut, TypeOK
  <2>5. CASE FetchSkips
    <3>1. Tail(toUs) \in Seq(ToUs) /\ cache' = cache /\ late' = late /\ toUs' = Tail(toUs)
      BY <2>5 DEF FetchSkips, TypeOK
    <3>2. CASE left > 1 /\ left' = left - 1
               /\ UNCHANGED <<padVars, toPad, report, pc, probeVars, kernelVars, ready, want>>
      <4>1. left' \in 0..(Skips + Reads)
        BY <3>2, Limits DEF TypeOK
      <4> HIDE DEF ToPad, ToUs, Requests, Answers
      <4> QED BY <3>1, <3>2, <4>1 DEF TypeOK
    <3>3. CASE Fetched(None)
      BY <2>2, <3>1, <3>3 DEF TypeOK
    <3> QED BY <2>5, <3>2, <3>3 DEF FetchSkips
  <2> QED BY <1>13, <2>3, <2>4, <2>5
<1>15. CASE Drains
  <2>1. toUs # << >> /\ toUs \in Seq(ToUs)
    BY <1>15 DEF Drains, ReadyInv, TypeOK
  <2>2. Head(toUs) \in ToUs /\ Tail(toUs) \in Seq(ToUs)
    BY <2>1
  <2>3. cache' \in [Ids -> Ids \cup {None}]
    <3>1. Head(toUs).tag = "DATA" => Head(toUs).id \in Ids
      BY <2>2
    <3> QED BY <1>15, <3>1 DEF Drains, TypeOK
  <2> HIDE DEF ToPad, ToUs, Requests, Answers
  <2> QED BY <1>15, <2>2, <2>3 DEF Drains, TypeOK
<1>16. CASE DrainEnds
  BY <1>16, CloseTypes DEF DrainEnds, TypeOK
<1>17. CASE UNCHANGED vars
  BY <1>17 DEF vars, TypeOK
<1> QED
  BY <1>1, <1>2, <1>3, <1>4, <1>5, <1>6, <1>7, <1>8, <1>9, <1>10, <1>11, <1>12, <1>13,
     <1>15, <1>16, <1>17
  DEF Next, Proxy, Handshake, Serve

-----------------------------------------------------------------------------
(* What the loop was told of, the cache, the replies and a fresh session.    *)

\* A question that is over ends the session, the handshake or itself.
LEMMA GoesCases ==
  ASSUME NEW got \in BOOLEAN, NEW c, NEW q, Goes(got, c, q)
  PROVE  /\ pad' = pad /\ served' = served
         /\ \/ Close
            \/ /\ Rest(got) # << >> /\ pc' = "ask" /\ kind' = None
               /\ todo' = Rest(got) /\ cache' = c /\ toUs' = q
               /\ UNCHANGED <<up, toPad, asked, answer, want>>
            \/ /\ Rest(got) = << >> /\ pc' = "turn" /\ kind' = KindOf(c) /\ kind' # None
               /\ cache' = c /\ toUs' = q
               /\ UNCHANGED <<up, toPad, asked, answer, want>>
<1>1. CASE Rest(got) = << >> /\ (KindOf(c) = None \/ (KindOf(c) = "ds5" /\ ~up))
  BY <1>1 DEF Goes
<1>2. CASE ~(Rest(got) = << >> /\ (KindOf(c) = None \/ (KindOf(c) = "ds5" /\ ~up)))
  BY <1>2 DEF Goes
<1> QED BY <1>1, <1>2

\* A question that is over, and how it came to that.
Settles == Gets \/ GetRefused \/ GetTimesOut \/ GetDies \/ GetSkips
Again   == /\ pc' \in {"ask", "await"} /\ late' = late /\ toUs' = Tail(toUs)
           /\ UNCHANGED <<padVars, toPad, todo, kind, cache, kernelVars, want>>
           /\ pc = "await" /\ up /\ toUs # << >> /\ Head(toUs).tag = "DATA"
           /\ Head(toUs).id # Head(todo)

LEMMA SettlesAsked ==
  ASSUME TypeOK, Settles
  PROVE  Handshaking /\ Head(todo) \in Ids
<1>1. Handshaking
  BY DEF Settles, Gets, GetRefused, GetTimesOut, GetDies, GetSkips
<1>2. todo # << >> /\ todo \in Seq(Ids)
  BY <1>1 DEF TypeOK
<1> QED BY <1>1, <1>2

LEMMA SettlesCases ==
  ASSUME TypeOK, Settles
  PROVE  \/ Again
         \/ \E got \in BOOLEAN, c \in [Ids -> Ids \cup {None}], q \in Seq(ToUs) :
              /\ Goes(got, c, q)
              /\ c = IF got THEN [cache EXCEPT ![Head(todo)] = Head(todo)] ELSE cache
              /\ (got => Gets) /\ (Gets => got)
              /\ q \in {toUs, Tail(toUs)}
<1> HIDE DEF ToUs
<1>1. /\ cache \in [Ids -> Ids \cup {None}] /\ toUs \in Seq(ToUs)
      /\ Handshaking /\ Head(todo) \in Ids
  BY SettlesAsked DEF TypeOK
<1>2. toUs # << >> => Tail(toUs) \in Seq(ToUs)
  BY <1>1
<1>3. CASE Gets
  <2> DEFINE c == [cache EXCEPT ![Head(todo)] = Head(todo)]
  <2>1. c \in [Ids -> Ids \cup {None}]
    BY <1>1
  <2>2. Goes(TRUE, c, Tail(toUs)) /\ Tail(toUs) \in Seq(ToUs)
    BY <1>2, <1>3 DEF Gets
  <2>3. c = IF TRUE THEN c ELSE cache
    OBVIOUS
  <2>4. \E got \in BOOLEAN, d \in [Ids -> Ids \cup {None}], q \in Seq(ToUs) :
          /\ Goes(got, d, q) /\ d = IF got THEN c ELSE cache
          /\ (got => Gets) /\ (Gets => got)
          /\ q \in {toUs, Tail(toUs)}
    <3> HIDE DEF c
    <3> QED BY <1>3, <2>1, <2>2, <2>3
  <2> QED BY <2>4
<1>4. CASE ~Gets /\ GetRefused
  BY <1>1, <1>2, <1>4 DEF GetRefused
<1>5. CASE ~Gets /\ GetTimesOut
  BY <1>1, <1>5 DEF GetTimesOut
<1>6. CASE ~Gets /\ GetDies
  BY <1>1, <1>6 DEF GetDies
<1>7. CASE ~Gets /\ GetSkips
  BY <1>1, <1>2, <1>7 DEF GetSkips, Again
<1> QED BY <1>3, <1>4, <1>5, <1>6, <1>7 DEF Settles

LEMMA ReadyStep ==
  ASSUME TypeOK, ReadyInv, [Next]_vars
  PROVE  ReadyInv'
<1> HIDE DEF ToPad, ToUs, Requests, Answers
<1>1. CASE \E p \in Kinds : Connects(p)
  BY <1>1 DEF Connects, ReadyInv
<1>2. CASE PadAnswers
  <2>1. toUs # << >> => toUs' # << >>
    BY <1>2 DEF PadAnswers, TypeOK
  <2> QED BY <1>2, <2>1 DEF PadAnswers, ReadyInv
<1>3. CASE PadReports \/ LinkDies
  BY <1>3 DEF PadReports, LinkDies, ReadyInv
<1>4. CASE \E r \in Requests : KernelAsks(r)
  <2>1. asked' # << >>
    BY <1>4 DEF KernelAsks, TypeOK
  <2> QED BY <1>4, <2>1 DEF KernelAsks, ReadyInv
<1>5. CASE GetAsks
  BY <1>5 DEF GetAsks, ReadyInv
<1>6. CASE Settles
  BY <1>6, SettlesCases, GoesCases DEF Again, Close, ReadyInv
<1>7. CASE TurnWithoutReport \/ TurnRelays \/ TurnDrops
  BY <1>7 DEF TurnWithoutReport, TurnRelays, TurnDrops, Found, ReadyInv
<1>8. CASE GetMiss
  <2>1. Head(asked) \in Requests
    BY <1>8 DEF GetMiss, ReadyInv, TypeOK
  <2>2. Head(asked).id \in Ids
    BY <1>8, <2>1, Limits DEF GetMiss, Requests
  <2> QED BY <1>8, <2>2, Limits DEF GetMiss, ReadyInv
<1>9. CASE GetHit \/ SetForwards \/ NoRequest \/ Drains \/ DrainEnds \/ NoFrame
  BY <1>9 DEF GetHit, SetForwards, NoRequest, Drains, DrainEnds, Close, NoFrame, ReadyInv
<1>10. CASE FetchGets \/ FetchSkips \/ FetchTimesOut
  BY <1>10 DEF FetchGets, FetchSkips, FetchTimesOut, Fetched, ReadyInv
<1>11. CASE UNCHANGED vars
  BY <1>11 DEF vars, ReadyInv
<1> QED
  BY <1>1, <1>2, <1>3, <1>4, <1>5, <1>6, <1>7, <1>8, <1>9, <1>10, <1>11
  DEF Next, Proxy, Handshake, Serve, Settles

\* What a step does to the cache: nothing, the report of its name, or the end.
LEMMA CacheGrows ==
  ASSUME TypeOK, ReadyInv, [Next]_vars
  PROVE  \/ cache' = cache
         \/ \E i \in Ids : cache' = [cache EXCEPT ![i] = i]
         \/ Close
<1> HIDE DEF ToPad, ToUs, Requests, Answers
<1>1. CASE Settles
  <2>1. Head(todo) \in Ids
    BY <1>1, SettlesAsked
  <2> QED BY <1>1, <2>1, SettlesCases, GoesCases DEF Again
<1>2. CASE FetchGets
  <2>1. want \in Ids
    BY <1>2 DEF FetchGets, ReadyInv, TypeOK
  <2> QED BY <1>2, <2>1 DEF FetchGets
<1>3. CASE Drains
  <2>1. Head(toUs) \in ToUs
    BY <1>3 DEF Drains, ReadyInv, TypeOK
  <2>2. Head(toUs).tag = "DATA" => Head(toUs).id \in Ids
    BY <2>1 DEF ToUs
  <2> QED BY <1>3, <2>2 DEF Drains
<1>4. CASE DrainEnds
  BY <1>4 DEF DrainEnds
<1>5. CASE ~(Settles \/ FetchGets \/ Drains \/ DrainEnds)
  BY <1>5 DEF Next, Proxy, Handshake, Serve, Settles, Connects, PadAnswers, PadReports, LinkDies,
    KernelAsks, GetAsks, TurnWithoutReport, TurnRelays, TurnDrops, GetHit, GetMiss, FetchSkips,
    FetchTimesOut, Fetched, SetForwards, NoRequest, NoFrame, vars
<1> QED BY <1>1, <1>2, <1>3, <1>4, <1>5

LEMMA CacheStep ==
  ASSUME TypeOK, ReadyInv, CacheInv, [Next]_vars
  PROVE  CacheInv'
BY CacheGrows DEF Close, NoCache, CacheInv, TypeOK

LEMMA ReplyStep ==
  ASSUME TypeOK, ReadyInv, CacheInv, ReplyMatches, [Next]_vars
  PROVE  ReplyMatches'
<1> HIDE DEF ToPad, ToUs, Requests, Answers
<1>1. CASE Settles
  BY <1>1, SettlesCases, GoesCases DEF Again, Close, ReplyMatches
<1>2. CASE GetHit
  <2>1. Head(asked) \in Requests
    BY <1>2 DEF GetHit, ReadyInv, TypeOK
  <2>2. Head(asked).id \in Ids
    BY <1>2, <2>1, Limits DEF GetHit, Requests
  <2>3. cache[Head(asked).id] = Head(asked).id
    BY <1>2, <2>2 DEF GetHit, CacheInv
  <2> QED BY <1>2, <2>3 DEF GetHit, Reply, ReplyMatches
<1>3. CASE FetchGets
  BY <1>3 DEF FetchGets, Fetched, Reply, ReplyMatches
<1>4. CASE FetchSkips \/ FetchTimesOut
  <2>1. None # "serial"
    BY Limits DEF Ids
  <2> QED BY <1>4, <2>1 DEF FetchSkips, FetchTimesOut, Fetched, Reply, ReplyMatches
<1>5. CASE TurnWithoutReport \/ TurnRelays \/ TurnDrops \/ DrainEnds
  BY <1>5 DEF TurnWithoutReport, TurnRelays, TurnDrops, DrainEnds, Close, ReplyMatches
<1>6. CASE answer' = answer
  BY <1>6 DEF ReplyMatches
<1> QED
  BY <1>1, <1>2, <1>3, <1>4, <1>5, <1>6
  DEF Next, Proxy, Handshake, Serve, Settles, Connects, PadAnswers, PadReports, LinkDies,
    KernelAsks, GetAsks, GetMiss, SetForwards, Drains, NoRequest, NoFrame, vars

LEMMA FreshStep ==
  ASSUME TypeOK, ReadyInv, FreshInv, [Next]_vars
  PROVE  FreshInv'
<1> HIDE DEF ToPad, ToUs, Requests, Answers
<1>1. CASE Settles
  <2>1. Handshaking
    BY <1>1 DEF Settles, Gets, GetRefused, GetTimesOut, GetDies, GetSkips
  <2> QED BY <1>1, <2>1, SettlesCases, GoesCases DEF Again, Close, FreshInv
<1>2. CASE \E p \in Kinds : Connects(p)
  BY <1>2 DEF Connects, FreshInv
<1>3. CASE PadAnswers \/ PadReports \/ LinkDies \/ GetAsks
  BY <1>3 DEF PadAnswers, PadReports, LinkDies, GetAsks, FreshInv
<1>4. CASE \E r \in Requests : KernelAsks(r)
  BY <1>4 DEF KernelAsks, FreshInv
<1>5. CASE TurnWithoutReport \/ TurnRelays \/ TurnDrops \/ Serve
  BY <1>5 DEF TurnWithoutReport, TurnRelays, TurnDrops, Serve, GetHit, GetMiss, FetchGets,
    FetchSkips, FetchTimesOut, Fetched, SetForwards, NoRequest, Drains, DrainEnds, Close, NoFrame,
    FreshInv
<1>6. CASE UNCHANGED vars
  BY <1>6 DEF vars, FreshInv
<1> QED BY <1>1, <1>2, <1>3, <1>4, <1>5, <1>6 DEF Next, Proxy, Handshake, Settles

-----------------------------------------------------------------------------
(* The handshake.                                                            *)

\* What each stage asks for first, and where it leads.
LEMMA StageLeads ==
  ASSUME NEW got \in BOOLEAN
  PROVE  /\ todo = Ds5Ids => /\ Head(todo) = "serial" /\ Been(todo) = {}
                             /\ Rest(got) = IF got THEN <<"fw", "cal">> ELSE Ds4Ids
         /\ todo = <<"fw", "cal">> => /\ Head(todo) = "fw" /\ Been(todo) = {"serial"}
                                      /\ Rest(got) = <<"cal">>
         /\ todo = Ds4Ids => /\ Head(todo) = "ds4" /\ Been(todo) = {"serial"}
                             /\ Rest(got) = <<"cal">>
         /\ todo = <<"cal">> => /\ Head(todo) = "cal" /\ Been(todo) = {"serial", "fw", "ds4"}
                                /\ Rest(got) = << >>
<1> USE DEF Ds5Ids, Ds4Ids, Rest, Been
<1>1. CASE todo = Ds5Ids
  <2>1. Head(todo) = "serial" /\ Tail(todo) = <<"fw", "cal">>
    BY <1>1
  <2> QED BY <1>1, <2>1
<1>2. CASE todo = <<"fw", "cal">>
  <2>1. Head(todo) = "fw" /\ Tail(todo) = <<"cal">> /\ todo # Ds5Ids
    BY <1>2
  <2> QED BY <1>2, <2>1
<1>3. CASE todo = Ds4Ids
  <2>1. Head(todo) = "ds4" /\ Tail(todo) = <<"cal">> /\ todo # Ds5Ids /\ todo # <<"fw", "cal">>
    BY <1>3
  <2> QED BY <1>3, <2>1
<1>4. CASE todo = <<"cal">>
  <2>1. /\ Head(todo) = "cal" /\ Tail(todo) = << >>
        /\ todo # Ds5Ids /\ todo # <<"fw", "cal">> /\ todo # Ds4Ids
    BY <1>4
  <2> QED BY <1>4, <2>1
<1> QED BY <1>1, <1>2, <1>3, <1>4

LEMMA Stage ==
  /\ Stages = {Ds5Ids, <<"fw", "cal">>, Ds4Ids, <<"cal">>} /\ << >> \notin Stages
  /\ Ds5Ids # <<"fw", "cal">> /\ Ds5Ids # Ds4Ids /\ Ds5Ids # <<"cal">>
  /\ Ds4Ids # <<"fw", "cal">> /\ Ds4Ids # <<"cal">> /\ <<"fw", "cal">> # <<"cal">>
  /\ Been(Ds5Ids) = {} /\ Been(<<"fw", "cal">>) = {"serial"}
  /\ Been(Ds4Ids) = {"serial"} /\ Been(<<"cal">>) = {"serial", "fw", "ds4"}
<1>1. /\ Stages = {Ds5Ids, <<"fw", "cal">>, Ds4Ids, <<"cal">>} /\ << >> \notin Stages
      /\ Ds5Ids # <<"fw", "cal">> /\ Ds5Ids # Ds4Ids /\ Ds5Ids # <<"cal">>
      /\ Ds4Ids # <<"fw", "cal">> /\ Ds4Ids # <<"cal">> /\ <<"fw", "cal">> # <<"cal">>
  BY DEF Stages, Ds5Ids, Ds4Ids
<1> QED BY <1>1 DEF Been

\* What a pad has.
LEMMA Pads ==
  /\ Has("ds5") = {"serial", "fw", "cal", "test"} /\ Has("ds4") = {"ds4", "cal"}
  /\ Has("alien") = {} /\ Kinds = {"ds5", "ds4", "alien"}
  /\ \A i, j \in Ids : Data(i) = Data(j) => i = j
  /\ \A i \in Ids : Data(i).tag = "DATA" /\ Data(i).id = i /\ Refusal.tag = "HANDSHAKE"
BY DEF Has, Kinds, Data, Refusal

\* In time, the answer to the present question is what ends it.
LEMMA InTime ==
  ASSUME IInv, Settles, up', late' = 0
  PROVE  /\ Timely /\ UNCHANGED <<pad, up>>
         /\ toPad = << >> /\ toPad' = << >> /\ toUs' = << >>
         /\ \E got \in BOOLEAN :
              /\ got <=> Head(todo) \in Has(pad)
              /\ Goes(got, cache', << >>)
              /\ cache' = IF got THEN [cache EXCEPT ![Head(todo)] = Head(todo)] ELSE cache
<1> HIDE DEF ToUs
<1> DEFINE i == Head(todo)
<1>1. i \in Ids /\ Handshaking /\ late \in 0..MaxLate /\ toUs \in Seq(ToUs)
  BY SettlesAsked DEF IInv, TypeOK
<1>2. late = 0
  <2>1. late' = late \/ late' = late + 1
    BY DEF Settles, Gets, GetRefused, GetTimesOut, GetDies, GetSkips, Deadline
  <2>2. late \in Nat
    BY <1>1, Limits
  <2> QED BY <2>1, <2>2
<1>3. up' = up /\ pad' = pad
  BY SettlesCases, GoesCases DEF IInv, Again, Close
<1>4. Timely
  BY <1>2, <1>3 DEF Timely
<1>5. /\ toUs # << >> => toPad = << >> /\ toUs = <<AnswerTo(i)>> /\ Tail(toUs) = << >>
      /\ toUs = << >> => toPad # << >>
  <2>1. pc = "await"
    BY <1>4 DEF Timely, Settles, Gets, GetRefused, GetTimesOut, GetDies, GetSkips
  <2>2. CASE toPad = <<Get(i)>> /\ toUs = << >>
    BY <2>2
  <2>3. CASE toPad = << >> /\ toUs = <<AnswerTo(i)>>
    <3> HIDE DEF i
    <3> QED BY <2>3
  <2> QED BY <1>4, <2>1, <2>2, <2>3 DEF IInv, QuestionInv
<1>6. CASE Gets
  <2>1. toUs = <<AnswerTo(i)>> /\ Head(toUs) = Data(i) /\ toPad = << >>
    BY <1>5, <1>6 DEF Gets, Data
  <2>2. AnswerTo(i) = Data(i)
    BY <2>1
  <2>3. i \in Has(pad)
    BY <1>1, <2>2, Pads DEF AnswerTo
  <2>4. Goes(TRUE, [cache EXCEPT ![i] = i], << >>)
    BY <1>5, <1>6 DEF Gets
  <2>5. cache' = [cache EXCEPT ![i] = i] /\ toUs' = << >> /\ toPad' = toPad
    BY <2>4, GoesCases DEF Close
  <2> QED BY <1>3, <1>4, <2>1, <2>3, <2>4, <2>5
<1>7. CASE GetRefused
  <2>1. toUs = <<AnswerTo(i)>> /\ Head(toUs).tag = "HANDSHAKE" /\ toPad = << >>
    BY <1>5, <1>7 DEF GetRefused
  <2>2. i \notin Has(pad)
    BY <1>1, <2>1, Pads DEF AnswerTo
  <2>3. Goes(FALSE, cache, << >>)
    BY <1>5, <1>7 DEF GetRefused
  <2>4. cache' = cache /\ toUs' = << >> /\ toPad' = toPad
    BY <2>3, GoesCases DEF Close
  <2> QED BY <1>3, <1>4, <2>1, <2>2, <2>3, <2>4
<1>8. CASE GetTimesOut
  <2>1. late' = late + 1
    BY <1>5, <1>8 DEF GetTimesOut, Deadline
  <2> QED BY <1>2, <2>1
<1>9. CASE GetDies
  BY <1>4, <1>9 DEF GetDies, Timely
<1>10. CASE GetSkips
  <2>1. toUs = <<AnswerTo(i)>> /\ Head(toUs).tag = "DATA" /\ Head(toUs).id # i
    BY <1>5, <1>10 DEF GetSkips
  <2> QED BY <1>1, <2>1, Pads DEF AnswerTo
<1> QED BY <1>6, <1>7, <1>8, <1>9, <1>10 DEF Settles

-----------------------------------------------------------------------------
(* The stages of the handshake, its one question, and what comes of it.      *)

LEMMA StageStep ==
  ASSUME IInv, [Next]_vars
  PROVE  StageInv'
<1> HIDE DEF ToPad, ToUs, Requests, Answers
<1>1. CASE \E p \in Kinds : Connects(p)
  <2>1. todo' = Ds5Ids /\ cache' = NoCache /\ pc' = "ask"
    BY <1>1 DEF Connects, IInv, FreshInv
  <2>2. \A i \in Ids : NoCache[i] = None
    BY DEF NoCache
  <2> QED BY <2>1, <2>2, Stage DEF StageInv
<1>2. CASE Settles
  <2>1. Handshaking /\ todo \in Stages
    BY <1>2, SettlesAsked DEF IInv, StageInv
  <2>2. Handshaking' => todo' \in Stages
    <3>1. CASE Again
      BY <2>1, <3>1 DEF Again
    <3>2. ASSUME NEW got \in BOOLEAN, Rest(got) # << >>
          PROVE  Rest(got) \in Stages
      BY <2>1, <3>2, StageLeads, Stage
    <3> QED BY <1>2, <3>1, <3>2, SettlesCases, GoesCases DEF IInv, Close
  <2>3. ASSUME Handshaking', Timely'
        PROVE  /\ todo' = <<"fw", "cal">> => pad' = "ds5"
               /\ todo' = Ds4Ids => pad' # "ds5"
               /\ \A i \in Ids : cache'[i] # None <=> i \in Has(pad') \cap Been(todo')
    <3>1. PICK got \in BOOLEAN :
                /\ got <=> Head(todo) \in Has(pad)
                /\ Goes(got, cache', << >>)
                /\ cache' = IF got THEN [cache EXCEPT ![Head(todo)] = Head(todo)] ELSE cache
      BY <1>2, <2>3, InTime DEF Timely
    <3>2. Timely /\ pad' = pad
      BY <1>2, <2>3, InTime DEF Timely
    <3>3. todo' = Rest(got) /\ Rest(got) # << >>
      BY <2>3, <3>1, GoesCases DEF Close
    <3>4. /\ todo = <<"fw", "cal">> => pad = "ds5"
          /\ todo = Ds4Ids => pad # "ds5"
          /\ \A i \in Ids : cache[i] # None <=> i \in Has(pad) \cap Been(todo)
      BY <2>1, <3>2 DEF IInv, StageInv
    <3>5. \A i \in Ids : cache'[i] # None <=> i \in Has(pad) \cap (Been(todo) \cup {Head(todo)})
      <4>1. Head(todo) \in Ids /\ cache \in [Ids -> Ids \cup {None}] /\ None \notin Ids
        BY <1>2, SettlesAsked, Limits DEF IInv, TypeOK
      <4> QED BY <3>1, <3>4, <4>1
    <3>6. pad \in Kinds
      BY DEF IInv, TypeOK
    <3>7. CASE todo = Ds5Ids
      BY <3>1, <3>2, <3>3, <3>5, <3>6, <3>7, StageLeads, Stage, Pads
    <3>8. CASE todo = <<"fw", "cal">>
      BY <3>2, <3>3, <3>4, <3>5, <3>8, StageLeads, Stage, Pads
    <3>9. CASE todo = Ds4Ids
      BY <3>2, <3>3, <3>4, <3>5, <3>6, <3>9, StageLeads, Stage, Pads
    <3>10. CASE todo = <<"cal">>
      BY <3>3, <3>10, StageLeads
    <3> QED BY <2>1, <3>7, <3>8, <3>9, <3>10, Stage
  <2> QED BY <2>2, <2>3 DEF StageInv
<1>3. CASE GetAsks
  BY <1>3 DEF GetAsks, IInv, StageInv, Timely
<1>4. CASE PadAnswers \/ PadReports \/ LinkDies
  BY <1>4 DEF PadAnswers, PadReports, LinkDies, IInv, StageInv, Timely
<1>5. CASE \E r \in Requests : KernelAsks(r)
  BY <1>5 DEF KernelAsks, IInv, StageInv, Timely
<1>6. CASE TurnWithoutReport \/ TurnRelays \/ TurnDrops \/ Serve
  BY <1>6 DEF TurnWithoutReport, TurnRelays, TurnDrops, Serve, GetHit, GetMiss, FetchGets,
    FetchSkips, FetchTimesOut, Fetched, SetForwards, NoRequest, Drains, DrainEnds, Close, NoFrame,
    StageInv
<1>7. CASE UNCHANGED vars
  BY <1>7 DEF vars, IInv, StageInv, Timely
<1> QED BY <1>1, <1>2, <1>3, <1>4, <1>5, <1>6, <1>7 DEF Next, Proxy, Handshake, Settles

LEMMA QuestionStep ==
  ASSUME IInv, [Next]_vars
  PROVE  QuestionInv'
<1> HIDE DEF ToPad, ToUs, Requests, Answers
<1>1. CASE \E p \in Kinds : Connects(p)
  BY <1>1 DEF Connects, IInv, FreshInv, QuestionInv
<1>2. CASE Settles
  <2>1. SUFFICES ASSUME Timely'
                 PROVE  /\ pc' = "ask" => toPad' = << >> /\ toUs' = << >>
                        /\ pc' # "await"
    BY DEF QuestionInv
  <2>2. toPad' = << >> /\ toUs' = << >>
    BY <1>2, <2>1, InTime DEF Timely
  <2>3. pc' # "await"
    BY <1>2, <2>1, InTime, GoesCases DEF Timely, Close
  <2> QED BY <2>2, <2>3
<1>3. CASE GetAsks
  BY <1>3 DEF GetAsks, IInv, QuestionInv, Timely, Get
<1>4. CASE PadAnswers
  <2>1. SUFFICES ASSUME Timely, pc = "await", toPad = <<Get(Head(todo))>>, toUs = << >>
                 PROVE  toPad' = << >> /\ toUs' = <<AnswerTo(Head(todo))>>
    BY <1>4 DEF PadAnswers, IInv, QuestionInv, Timely, AnswerTo
  <2> DEFINE i == Head(todo)
  <2>2. Head(toPad) = Get(i) /\ Tail(toPad) = << >>
    <3> HIDE DEF i
    <3> QED BY <2>1 DEF i
  <2>3. Get(i).tag = "GET" /\ Get(i).id = i
    BY DEF Get
  <2>4. toUs' = IF i \in Has(pad) THEN Append(toUs, Data(i)) ELSE Append(toUs, Refusal)
    BY <1>4, <2>2, <2>3 DEF PadAnswers, Data, Refusal
  <2> HIDE DEF i
  <2>5. toUs' = <<AnswerTo(i)>>
    BY <2>1, <2>4 DEF AnswerTo
  <2> QED BY <1>4, <2>2, <2>5 DEF PadAnswers, i
<1>5. CASE PadReports \/ LinkDies \/ (\E r \in Requests : KernelAsks(r))
  BY <1>5 DEF PadReports, LinkDies, KernelAsks, IInv, QuestionInv, Timely, AnswerTo
<1>6. CASE TurnWithoutReport \/ TurnRelays \/ TurnDrops \/ Serve
  BY <1>6 DEF TurnWithoutReport, TurnRelays, TurnDrops, Serve, GetHit, GetMiss, FetchGets,
    FetchSkips, FetchTimesOut, Fetched, SetForwards, NoRequest, Drains, DrainEnds, Close, NoFrame,
    QuestionInv
<1>7. CASE UNCHANGED vars
  BY <1>7 DEF vars, IInv, QuestionInv, Timely, AnswerTo
<1> QED BY <1>1, <1>2, <1>3, <1>4, <1>5, <1>6, <1>7 DEF Next, Proxy, Handshake, Settles

\* While the loop runs a step keeps the kind, the pad and what the cache has.
LEMMA ServingKeeps ==
  ASSUME TypeOK, ReadyInv, Serving, Serving', [Next]_vars
  PROVE  /\ pad' = pad /\ kind' = kind /\ up' \in {up, FALSE}
         /\ late' = late \/ late' = late + 1
         /\ \A i \in Ids : cache[i] # None => cache'[i] # None
<1> HIDE DEF ToPad, ToUs, Requests, Answers
<1>1. ~Handshake /\ ~(\E p \in Kinds : Connects(p)) /\ ~Close /\ ~DrainEnds
  BY DEF Serving, Handshake, GetAsks, Gets, GetRefused, GetTimesOut, GetDies, GetSkips, Connects,
    DrainEnds, Close
<1>2. /\ pad' = pad /\ kind' = kind /\ up' \in {up, FALSE}
      /\ late' = late \/ late' = late + 1
  BY <1>1 DEF Next, Proxy, Serve, PadAnswers, PadReports, LinkDies, KernelAsks, TurnWithoutReport,
    TurnRelays, TurnDrops, GetHit, GetMiss, FetchGets, FetchSkips, FetchTimesOut, Fetched, Deadline,
    SetForwards, NoRequest, Drains, NoFrame, vars, TypeOK
<1>3. \A i \in Ids : cache[i] # None => cache'[i] # None
  BY <1>1, CacheGrows, Limits DEF TypeOK
<1> QED BY <1>2, <1>3

LEMMA KindStep ==
  ASSUME IInv, [Next]_vars
  PROVE  KindIsRight'
<1> SUFFICES ASSUME Serving', late' = 0, up'
             PROVE  /\ kind' = pad'
                    /\ \A i \in Has(pad') \ {"test"} : cache'[i] # None
  BY DEF KindIsRight
<1>1. CASE Serving
  <2>1. /\ pad' = pad /\ kind' = kind /\ up' \in {up, FALSE}
        /\ late' = late \/ late' = late + 1
        /\ \A i \in Ids : cache[i] # None => cache'[i] # None
    BY <1>1, ServingKeeps DEF IInv
  <2>2. late = 0 /\ up
    <3>1. late \in Nat
      BY Limits DEF IInv, TypeOK
    <3>2. late = 0
      BY <2>1, <3>1
    <3>3. up
      BY <2>1
    <3> QED BY <3>2, <3>3
  <2>3. Has(pad) \subseteq Ids
    BY Pads DEF IInv, TypeOK, Ids
  <2> QED BY <1>1, <2>1, <2>2, <2>3 DEF IInv, KindIsRight
<1>2. CASE ~Serving
  <2>1. Settles
    BY <1>2 DEF Serving, Next, Proxy, Handshake, Serve, Settles, Connects, PadAnswers, PadReports,
      LinkDies, KernelAsks, GetAsks, TurnWithoutReport, TurnRelays, TurnDrops, GetHit, GetMiss,
      FetchGets, FetchSkips, FetchTimesOut, SetForwards, NoRequest, Drains, DrainEnds, NoFrame, vars
  <2>2. /\ Timely /\ pad' = pad
        /\ \E got \in BOOLEAN :
              /\ got <=> Head(todo) \in Has(pad)
              /\ Goes(got, cache', << >>)
              /\ cache' = IF got THEN [cache EXCEPT ![Head(todo)] = Head(todo)] ELSE cache
    BY <2>1, InTime
  <2>3. PICK got \in BOOLEAN :
              /\ got <=> Head(todo) \in Has(pad)
              /\ Goes(got, cache', << >>)
              /\ cache' = IF got THEN [cache EXCEPT ![Head(todo)] = Head(todo)] ELSE cache
    BY <2>2
  <2>4. kind' = KindOf(cache') /\ kind' # None /\ Rest(got) = << >>
    BY <2>3, GoesCases DEF Serving, Close
  <2>5. Handshaking /\ todo \in Stages /\ Head(todo) \in Ids
    BY <2>1, SettlesAsked DEF IInv, StageInv
  <2>6. todo = <<"cal">>
    BY <2>4, <2>5, StageLeads, Stage
  <2>7. \A i \in Ids : cache[i] # None <=> i \in Has(pad) \cap {"serial", "fw", "ds4"}
    BY <2>2, <2>5, <2>6, Stage DEF IInv, StageInv
  <2>8. \A i \in Ids : cache'[i] # None <=> i \in Has(pad) \ {"test"}
    <3>1. Head(todo) = "cal" /\ cache \in [Ids -> Ids \cup {None}] /\ None \notin Ids
      BY <2>6, StageLeads, Limits DEF IInv, TypeOK
    <3> QED BY <2>3, <2>5, <2>7, <3>1 DEF Ids
  <2>9. /\ pad \in {"ds5", "ds4", "alien"} /\ {"serial", "ds4", "cal"} \subseteq Ids
        /\ Has(pad) \subseteq Ids
    BY Pads DEF IInv, TypeOK, Ids
  <2>10. kind' = pad
    <3>1. CASE pad = "ds5"
      BY <2>4, <2>8, <2>9, <3>1, Pads DEF KindOf
    <3>2. CASE pad = "ds4"
      BY <2>4, <2>8, <2>9, <3>2, Pads DEF KindOf
    <3>3. CASE pad = "alien"
      BY <2>4, <2>8, <2>9, <3>3, Pads DEF KindOf
    <3> QED BY <2>9, <3>1, <3>2, <3>3
  <2> QED BY <2>2, <2>8, <2>9, <2>10
<1> QED BY <1>1, <1>2

-----------------------------------------------------------------------------
(* The answer to a fetch.                                                    *)

\* The frames under way, and what the waiting requests will add: only the
\* kernel adds to it.
LEMMA FlightStep ==
  ASSUME IInv, FlightInv, [Next]_vars
  PROVE  FlightInv'
<1> HIDE DEF ToPad, ToUs, Requests, Answers
<1> DEFINE all == Len(toPad) + Len(toUs) + 2 * Len(asked)
<1>1. /\ toPad \in Seq(ToPad) /\ toUs \in Seq(ToUs) /\ asked \in Seq(Requests)
      /\ Len(toPad) \in Nat /\ Len(toUs) \in Nat /\ Len(asked) \in Nat
      /\ Cap \in Nat /\ ReqCap \in Nat
  BY Limits DEF IInv, TypeOK
<1>2. SUFFICES ASSUME Timely', Serving'
               PROVE  all' <= Cap + 2 * ReqCap
  BY DEF FlightInv, Flight
<1>3. CASE ~Serving
  <2>1. Settles
    BY <1>2, <1>3 DEF Serving, Next, Proxy, Handshake, Serve, Settles, Connects, PadAnswers,
      PadReports, LinkDies, KernelAsks, GetAsks, TurnWithoutReport, TurnRelays, TurnDrops, GetHit,
      GetMiss, FetchGets, FetchSkips, FetchTimesOut, SetForwards, NoRequest, Drains, DrainEnds,
      NoFrame, vars
  <2>2. toPad' = << >> /\ toUs' = << >> /\ asked = << >>
    BY <1>2, <2>1, InTime, SettlesAsked DEF IInv, Timely, FreshInv
  <2>3. asked' = asked
    BY <1>2, <2>1, SettlesCases, GoesCases DEF IInv, Again, Close, Timely
  <2> QED BY <1>1, <2>2, <2>3
<1>4. CASE Serving
  <2>1. Timely
    <3>1. up' \in {up, FALSE} /\ (late' = late \/ late' = late + 1) /\ late \in 0..MaxLate
      BY <1>2, <1>4, ServingKeeps DEF IInv, TypeOK
    <3>2. late \in Nat
      BY <3>1, Limits
    <3>3. late = 0
      BY <1>2, <3>1, <3>2 DEF Timely
    <3>4. up
      BY <1>2, <3>1 DEF Timely
    <3> QED BY <3>3, <3>4 DEF Timely
  <2>2. all <= Cap + 2 * ReqCap
    BY <1>4, <2>1 DEF FlightInv, Flight
  <2>3. CASE PadAnswers
    <3>1. Len(toPad') = Len(toPad) - 1 /\ Len(toUs') \in {Len(toUs), Len(toUs) + 1}
      BY <1>1, <2>3 DEF PadAnswers
    <3> QED BY <1>1, <2>2, <2>3, <3>1 DEF PadAnswers
  <2>4. ASSUME NEW r \in Requests, KernelAsks(r)
        PROVE  all' <= Cap + 2 * ReqCap
    <3>1. Len(asked') = Len(asked) + 1
      BY <1>1, <2>4 DEF KernelAsks
    <3> QED BY <1>1, <2>4, <3>1 DEF KernelAsks
  <2>5. CASE GetHit \/ GetMiss \/ SetForwards
    <3>1. asked # << >>
      BY <2>5 DEF GetHit, GetMiss, SetForwards, IInv, ReadyInv
    <3>2. Len(asked') = Len(asked) - 1 /\ toUs' = toUs
      BY <1>1, <2>5, <3>1 DEF GetHit, GetMiss, SetForwards
    <3>3. Len(toPad') \in {Len(toPad), Len(toPad) + 1, Len(toPad) + 2}
      <4>1. CASE toPad' = toPad
        BY <4>1
      <4>2. ASSUME NEW f \in ToPad, toPad' = Append(toPad, f)
            PROVE  Len(toPad') = Len(toPad) + 1
        BY <1>1, <4>2
      <4>3. ASSUME NEW f \in ToPad, NEW g \in ToPad, toPad' = toPad \o <<f, g>>
            PROVE  Len(toPad') = Len(toPad) + 2
        BY <1>1, <4>3
      <4>4. /\ [tag |-> "SET"] \in ToPad /\ [tag |-> "BODY"] \in ToPad
            /\ \A i \in Ids : [tag |-> "GET", id |-> i] \in ToPad
        BY DEF ToPad
      <4>5. Head(asked) \in Requests
        BY <1>1, <3>1
      <4>6. GetMiss => Head(asked).id \in Ids
        BY <4>5, Limits DEF GetMiss, Requests
      <4> QED BY <2>5, <4>1, <4>2, <4>3, <4>4, <4>6 DEF GetHit, GetMiss, SetForwards
    <3> QED BY <1>1, <2>2, <3>2, <3>3
  <2>6. CASE FetchGets \/ FetchSkips \/ Drains
    <3>1. toUs # << >> /\ toUs' = Tail(toUs) /\ toPad' = toPad /\ asked' = asked
      BY <2>6 DEF FetchGets, FetchSkips, Fetched, Drains, IInv, ReadyInv
    <3>2. Len(toUs') = Len(toUs) - 1
      BY <1>1, <3>1
    <3> QED BY <1>1, <2>2, <3>1, <3>2
  <2>7. CASE UNCHANGED <<toPad, toUs, asked>>
    BY <2>2, <2>7
  <2>8. ~Handshake /\ ~(\E p \in Kinds : Connects(p)) /\ ~DrainEnds
    BY <1>2, <1>4 DEF Serving, Handshake, GetAsks, Gets, GetRefused, GetTimesOut, GetDies, GetSkips,
      Connects, DrainEnds, Close
  <2> QED
    BY <2>3, <2>4, <2>5, <2>6, <2>7, <2>8
    DEF Next, Proxy, Serve, PadReports, LinkDies, TurnWithoutReport, TurnRelays, TurnDrops,
      FetchTimesOut, Fetched, NoRequest, NoFrame, vars
<1> QED BY <1>3, <1>4

\* The answer to a fetch comes nearer with every frame that is read.
LEMMA FetchStep ==
  ASSUME IInv, FlightInv, FetchInv, [Next]_vars, Cap + 2 * ReqCap <= Reads + 1
  PROVE  FetchInv'
<1> HIDE DEF ToPad, ToUs, Requests, Answers
<1>1. /\ toPad \in Seq(ToPad) /\ toUs \in Seq(ToUs) /\ asked \in Seq(Requests)
      /\ Len(toPad) \in Nat /\ Len(toUs) \in Nat /\ Len(asked) \in Nat
      /\ Cap \in Nat /\ ReqCap \in Nat /\ Reads \in Nat /\ left \in Nat
  BY Limits DEF IInv, TypeOK
<1>2. SUFFICES ASSUME pc' = "fetch", Timely', want' \in Has(pad')
               PROVE  \/ toPad' # << >> /\ toPad'[Len(toPad')] = Get(want') /\ Flight' <= left'
                      \/ \E i \in 1..Len(toUs') : i <= left' /\ toUs'[i] = Data(want')
  BY DEF FetchInv, Get, Data
<1>3. CASE GetMiss
  <2>1. /\ want' = Head(asked).id /\ left' = Reads /\ up /\ late = 0 /\ toUs' = toUs
        /\ toPad' = Append(toPad, Get(want')) /\ asked # << >> /\ Serving
    BY <1>2, <1>3 DEF GetMiss, Timely, Get, IInv, ReadyInv, Serving
  <2>2. Flight + 2 * Len(asked) <= Cap + 2 * ReqCap /\ Len(asked) > 0
    BY <1>1, <2>1 DEF FlightInv, Timely
  <2>3. want' \in Ids
    <3>1. Head(asked) \in Requests
      BY <1>1, <2>1
    <3> QED BY <1>3, <2>1, <3>1, Limits DEF GetMiss, Requests
  <2>4. Get(want') \in ToPad
    BY <2>3 DEF Get, ToPad
  <2>5. Len(toPad') = Len(toPad) + 1 /\ toPad'[Len(toPad')] = Get(want') /\ toPad' # << >>
    BY <1>1, <2>1, <2>4
  <2> QED BY <1>1, <2>1, <2>2, <2>5 DEF Flight
<1>4. CASE PadAnswers /\ pc = "fetch"
  <2>1. /\ want' = want /\ pad' = pad /\ left' = left /\ Timely
        /\ toPad # << >> /\ toPad' = Tail(toPad)
    BY <1>2, <1>4 DEF PadAnswers, Timely
  <2>2. Len(toPad') = Len(toPad) - 1 /\ \A i \in 1..Len(toPad') : toPad'[i] = toPad[i + 1]
    BY <1>1, <2>1
  <2>3. /\ Len(toUs') \in {Len(toUs), Len(toUs) + 1}
        /\ \A i \in 1..Len(toUs) : i \in 1..Len(toUs') /\ toUs'[i] = toUs[i]
    <3>1. ASSUME NEW f \in ToUs, toUs' = Append(toUs, f)
          PROVE  /\ Len(toUs') = Len(toUs) + 1
                 /\ \A i \in 1..Len(toUs) : i \in 1..Len(toUs') /\ toUs'[i] = toUs[i]
      BY <1>1, <3>1
    <3>2. toUs' = toUs \/ \E f \in ToUs : toUs' = Append(toUs, f)
      <4>1. \A i \in Ids : Data(i) \in ToUs /\ Refusal \in ToUs
        BY DEF Data, Refusal, ToUs
      <4>2. Head(toPad) \in ToPad
        BY <1>1, <2>1
      <4>3. Head(toPad).tag = "GET" => Head(toPad).id \in Ids
        BY <4>2 DEF ToPad
      <4>4. "cal" \in Ids
        BY DEF Ids
      <4> QED BY <1>4, <4>1, <4>3, <4>4 DEF PadAnswers, Data, Refusal
    <3> QED BY <1>1, <3>1, <3>2
  <2>4. CASE toPad[Len(toPad)] = Get(want) /\ Flight <= left
    <3>1. CASE Len(toPad) = 1
      <4>1. Head(toPad) = Get(want)
        BY <1>1, <2>4, <3>1
      <4>2. toUs' = Append(toUs, Data(want))
        BY <1>2, <1>4, <2>1, <4>1 DEF PadAnswers, Get, Data
      <4>3. Len(toUs') = Len(toUs) + 1 /\ toUs'[Len(toUs) + 1] = Data(want)
        BY <1>1, <4>2
      <4>4. Len(toUs) + 1 <= left' /\ Len(toUs) + 1 \in 1..Len(toUs')
        BY <1>1, <2>1, <2>4, <3>1, <4>3 DEF Flight
      <4> QED BY <2>1, <4>3, <4>4
    <3>2. CASE Len(toPad) # 1
      <4>1. Len(toPad') \in 1..Len(toPad') /\ toPad' # << >>
        <5>1. \A n \in Nat : n # 0 /\ n # 1 => n - 1 \in Nat /\ n - 1 > 0
          OBVIOUS
        <5>2. Len(toPad) \in Nat /\ Len(toPad) # 0
          BY <1>1, <2>1
        <5>3. Len(toPad') \in Nat /\ Len(toPad') > 0
          BY <2>2, <3>2, <5>1, <5>2
        <5> QED BY <5>3
      <4>2. toPad'[Len(toPad')] = Get(want)
        BY <1>1, <2>2, <2>4, <4>1
      <4>3. Flight' <= left'
        BY <1>1, <2>1, <2>2, <2>3, <2>4 DEF Flight
      <4> QED BY <2>1, <4>1, <4>2, <4>3
    <3> QED BY <3>1, <3>2
  <2>5. CASE \E i \in 1..Len(toUs) : i <= left /\ toUs[i] = Data(want)
    BY <2>1, <2>3, <2>5
  <2> QED BY <1>2, <1>4, <2>1, <2>4, <2>5 DEF FetchInv
<1>5. CASE FetchSkips
  <2>1. /\ want' = want /\ pad' = pad /\ toPad' = toPad /\ left' = left - 1 /\ Timely /\ left > 1
        /\ toUs # << >> /\ Head(toUs) # Data(want) /\ toUs' = Tail(toUs) /\ pc = "fetch"
    BY <1>2, <1>5 DEF FetchSkips, Fetched, Timely, Data
  <2>2. Len(toUs') = Len(toUs) - 1 /\ \A i \in 1..Len(toUs') : toUs'[i] = toUs[i + 1]
    BY <1>1, <2>1
  <2>3. CASE toPad # << >> /\ toPad[Len(toPad)] = Get(want) /\ Flight <= left
    <3>1. Flight' <= left'
      BY <1>1, <2>1, <2>2, <2>3 DEF Flight
    <3> QED BY <2>1, <2>3, <3>1
  <2>4. ASSUME NEW i \in 1..Len(toUs), i <= left, toUs[i] = Data(want)
        PROVE  \E j \in 1..Len(toUs') : j <= left' /\ toUs'[j] = Data(want')
    <3>1. i # 1
      BY <1>1, <2>1, <2>4
    <3>2. i - 1 \in 1..Len(toUs') /\ i - 1 <= left' /\ toUs'[i - 1] = toUs[i]
      BY <1>1, <2>1, <2>2, <2>4, <3>1
    <3> QED BY <2>1, <2>4, <3>2
  <2> QED BY <1>2, <2>1, <2>3, <2>4 DEF FetchInv
<1>6. CASE pc = "fetch" /\ UNCHANGED <<pad, up, toPad, toUs, left, want, late>>
  BY <1>2, <1>6 DEF FetchInv, Flight, Timely, Get, Data
<1>7. CASE pc # "fetch"
  BY <1>2, <1>3, <1>7 DEF Next, Proxy, Handshake, Serve, Connects, PadAnswers, PadReports, LinkDies,
    KernelAsks, GetAsks, Gets, GetRefused, GetTimesOut, GetDies, GetSkips, Goes, Close,
    TurnWithoutReport, TurnRelays, TurnDrops, GetHit, FetchGets, FetchSkips, FetchTimesOut,
    SetForwards, NoRequest, Drains, DrainEnds, NoFrame, vars
<1> QED
  BY <1>2, <1>4, <1>5, <1>6, <1>7
  DEF Next, Proxy, Handshake, Serve, Connects, PadReports, LinkDies, KernelAsks, GetAsks, Gets,
    GetRefused, GetTimesOut, GetDies, GetSkips, TurnWithoutReport, TurnRelays, TurnDrops, GetHit,
    GetMiss, FetchGets, FetchTimesOut, Fetched, SetForwards, NoRequest, Drains, DrainEnds, NoFrame,
    Timely, vars

-----------------------------------------------------------------------------
(* The theorems.                                                             *)

LEMMA InitInv ==
  Init => Both
<1> SUFFICES ASSUME Init PROVE Both
  OBVIOUS
<1> USE DEF Init
<1>1. TypeOK
  <2>1. << >> \in Seq(ToPad) /\ << >> \in Seq(ToUs) /\ << >> \in Seq(Ids) /\ << >> \in Seq(Requests)
    OBVIOUS
  <2>2. NoCache \in [Ids -> Ids \cup {None}]
    BY DEF NoCache
  <2>3. 0 \in 0..Tries /\ 0 \in 0..(Skips + Reads) /\ 0 \in 0..MaxLate
    BY Limits
  <2> HIDE DEF ToPad, ToUs, Requests, Answers
  <2> QED BY <2>1, <2>2, <2>3 DEF TypeOK
<1>2. CacheInv
  BY DEF CacheInv, NoCache
<1>3. ReadyInv /\ ReplyMatches /\ FreshInv /\ StageInv /\ QuestionInv /\ KindIsRight
  BY DEF ReadyInv, ReplyMatches, FreshInv, StageInv, QuestionInv, KindIsRight, Timely, Serving
<1>4. NearInv
  BY DEF NearInv, FlightInv, FetchInv, Timely
<1> QED BY <1>1, <1>2, <1>3, <1>4 DEF Both, IInv

LEMMA StepInv ==
  Both /\ [Next]_vars => Both'
<1> SUFFICES ASSUME Both, [Next]_vars PROVE Both'
  OBVIOUS
<1>1. TypeOK /\ ReadyInv /\ CacheInv /\ ReplyMatches /\ FreshInv /\ IInv
  BY DEF Both, IInv
<1>2. TypeOK' /\ ReadyInv' /\ CacheInv' /\ ReplyMatches' /\ FreshInv'
  BY <1>1, TypeStep, ReadyStep, CacheStep, ReplyStep, FreshStep
<1>3. StageInv' /\ QuestionInv' /\ KindIsRight'
  BY <1>1, StageStep, QuestionStep, KindStep
<1>4. NearInv'
  <2>1. SUFFICES ASSUME Cap + 2 * ReqCap <= Reads + 1
                 PROVE  FlightInv' /\ FetchInv'
    BY DEF NearInv
  <2>2. FlightInv /\ FetchInv
    BY <2>1 DEF Both, NearInv
  <2> QED BY <1>1, <2>1, <2>2, FlightStep, FetchStep
<1> QED BY <1>2, <1>3, <1>4 DEF Both, IInv

LEMMA Invariance ==
  Spec => []Both
BY InitInv, StepInv, PTL DEF Spec

\* The state stays within its types.
THEOREM FeaturesTypeOK ==
  Spec => []TypeOK
<1>1. Both => TypeOK
  BY DEF Both, IInv
<1> QED BY <1>1, Invariance, PTL

\* The reply to a request of the kernel is the report it asked for or a refusal,
\* and never has the pad's own address (fetch_feature_once, relay_loop).
THEOREM RepliesMatch ==
  Spec => []ReplyMatches
<1>1. Both => ReplyMatches
  BY DEF Both, IInv
<1> QED BY <1>1, Invariance, PTL

\* A pad that meets every deadline is taken for what it is, and its whole
\* handshake is in the cache (open, get_feature).
THEOREM PadIsKnown ==
  Spec => []KindIsRight
<1>1. Both => KindIsRight
  BY DEF Both, IInv
<1> QED BY <1>1, Invariance, PTL

\* If what can be under way fits in the frames that a fetch reads, a report is
\* refused only if the pad does not have it, a deadline is missed or the channel
\* is dead (fetch_feature_once).
THEOREM RefusalsAreDue ==
  Cap + 2 * ReqCap <= Reads + 1 => (Spec => RefusalIsDue)
<1> SUFFICES ASSUME Cap + 2 * ReqCap <= Reads + 1 PROVE Spec => RefusalIsDue
  OBVIOUS
<1>1. ASSUME Both, [Next]_vars, served' # served, answer' # answer, answer'.data = None
      PROVE  answer'.asked \notin Has(pad) \/ late' > 0 \/ ~up
  <2>1. TypeOK /\ ReadyInv /\ FetchInv /\ None \notin Ids
    BY <1>1, Limits DEF Both, IInv, NearInv
  <2> SUFFICES ASSUME answer'.asked \in Has(pad), ~(late' > 0), up
               PROVE  FALSE
    OBVIOUS
  <2>2. ~GetHit
    <3>1. GetHit => answer'.data = cache[Head(asked).id] /\ cache[Head(asked).id] # None
      BY DEF GetHit, Reply
    <3> QED BY <1>1, <3>1
  <2>3. CASE FetchSkips
    <3>1. /\ left = 1 /\ toUs # << >> /\ Head(toUs) # Data(want) /\ pc = "fetch"
          /\ Fetched(None) /\ late' = late
      BY <1>1, <2>3 DEF FetchSkips, Data
    <3>2. answer'.asked = want
      BY <3>1 DEF Fetched, Reply
    <3> QED BY <2>1, <3>1, <3>2 DEF FetchInv, Flight, TypeOK, Timely
  <2>4. CASE FetchTimesOut
    <3>1. /\ Fetched(None) /\ toUs = << >> /\ Deadline /\ pc = "fetch"
      BY <2>4 DEF FetchTimesOut
    <3>2. answer'.asked = want
      BY <3>1 DEF Fetched, Reply
    <3>3. toPad = << >> /\ late' = late
      <4>1. late \in Nat
        BY <2>1 DEF TypeOK
      <4> QED BY <3>1, <4>1 DEF Deadline
    <3> QED BY <2>1, <3>1, <3>2, <3>3 DEF FetchInv, TypeOK, Timely
  <2>5. CASE Settles
    BY <1>1, <2>1, <2>5, SettlesCases, GoesCases DEF Again
  <2>6. ~FetchGets
    <3>1. FetchGets => answer'.data = want
      BY DEF FetchGets, Fetched, Reply
    <3> QED BY <1>1, <2>1, <3>1 DEF FetchGets, ReadyInv
  <2> QED
    BY <1>1, <2>2, <2>3, <2>4, <2>5, <2>6
    DEF Next, Proxy, Handshake, Serve, Settles, Connects, PadAnswers, PadReports, LinkDies,
      KernelAsks, GetAsks, TurnWithoutReport, TurnRelays, TurnDrops, GetMiss, SetForwards,
      NoRequest, Drains, DrainEnds, NoFrame, vars
<1>2. Both /\ [Next]_vars =>
        [served' # served /\ answer' # answer /\ answer'.data = None =>
           answer'.asked \notin Has(pad) \/ late' > 0 \/ ~up]_vars
  BY <1>1
<1> QED BY <1>2, Invariance, PTL DEF Spec, RefusalIsDue

=============================================================================
