------------------------------- MODULE Features -------------------------------
(***************************************************************************)
(* The control channel of an L2CAP session: the handshake that tells a      *)
(* DualSense from a DualShock 4 by the feature reports it answers, the      *)
(* cache these fill, and the relay loop that serves the kernel's report     *)
(* requests from the cache, from the pad, or by forwarding them.            *)
(*                                                                          *)
(* Answers come in the order of the questions and may come after the        *)
(* deadline; a refusal is one byte and does not say what it refuses.  The   *)
(* pad and the kernel are outside the repository.                           *)
(***************************************************************************)
EXTENDS Naturals, Sequences, Functions

CONSTANTS
  None,    \* no session, no reply
  Skips,   \* frames get_feature skips before it asks again (16)
  Tries,   \* times get_feature asks (3)
  Reads,   \* frames fetch_feature_once reads (8)
  Asks,    \* bound: the reports the kernel asks for
  MaxLate, \* bound: answers of a session that miss their deadline
  ReqCap,  \* bound: requests of the kernel that wait
  Cap      \* bound: frames under way on the channel when the kernel asks

\* The reports of the handshake: 0x09, 0x20, 0x05, and 0xA3 of a DualShock 4;
\* "test" is one that only a game asks for.
Ids   == {"serial", "fw", "cal", "ds4", "test"}
Kinds == {"ds5", "ds4", "alien"}
Has(kind) == CASE kind = "ds5"   -> {"serial", "fw", "cal", "test"}
               [] kind = "ds4"   -> {"ds4", "cal"}
               [] kind = "alien" -> {}

ASSUME FeaturesAssumption ==
  /\ None \notin Ids \cup Kinds /\ Asks \subseteq Ids
  /\ {Skips, Tries, Reads} \subseteq Nat \ {0}
  /\ {MaxLate, ReqCap, Cap} \subseteq Nat

VARIABLES
  \* the pad and the channel
  pad,    \* what the pad is
  up,     \* is the channel open?
  toPad,  \* frames the pad has not handled
  toUs,   \* frames the proxy has not read
  report, \* is an input report waiting?
  \* the handshake
  pc,     \* where open() or the relay loop is
  todo,   \* reports yet to be got, the present one first
  tries, left, \* questions and frames left for it
  kind,   \* what the session takes the pad for
  cache,  \* features: for each id, the report the map has
  \* the relay loop
  asked,  \* requests of the kernel the loop has not read
  ready,  \* what the last poll found
  want,   \* the report that is being fetched
  \* history
  late,   \* answers that have missed their deadline in this session
  answer, \* the reply to a GET in this turn
  served  \* flips with every reply

padVars    == <<pad, up>>
probeVars  == <<todo, tries, kind>>
kernelVars == <<asked, answer, served>>
vars == <<padVars, toPad, toUs, report, pc, probeVars, left, cache,
          kernelVars, ready, want, late>>

ToPad    == [tag : {"GET"}, id : Ids] \cup [tag : {"SET", "BODY"}]
ToUs     == [tag : {"DATA"}, id : Ids] \cup [tag : {"HANDSHAKE"}]
Requests == [tag : {"GET"}, id : Asks] \cup [tag : {"SET"}, id : {"test"}]
Answers  == [asked : Ids, data : Ids \cup {None}, mac : {"real", "virtual"}]

Ds5Ids  == <<"serial", "fw", "cal">>
Ds4Ids  == <<"ds4", "cal">>
NoCache == [i \in Ids |-> None]

TypeOK ==
  /\ pad \in Kinds /\ up \in BOOLEAN /\ report \in BOOLEAN
  /\ toPad \in Seq(ToPad) /\ toUs \in Seq(ToUs)
  /\ pc \in {"closed", "ask", "await", "turn", "sock", "fetch", "ctrl"}
  /\ todo \in Seq(Ids) /\ (pc \in {"ask", "await"} => todo # << >>)
  /\ tries \in 0..Tries /\ left \in 0..(Skips + Reads)
  /\ kind \in {"ds5", "ds4", None} /\ (pc \in {"turn", "sock", "fetch", "ctrl"} => kind # None)
  /\ cache \in [Ids -> Ids \cup {None}]
  /\ asked \in Seq(Requests) /\ ready \subseteq {"sock", "ctrl"} /\ want \in Ids \cup {None}
  /\ late \in 0..MaxLate /\ answer \in Answers \cup {None} /\ served \in BOOLEAN

Init ==
  /\ pad \in Kinds /\ up = FALSE /\ toPad = << >> /\ toUs = << >> /\ report = FALSE
  /\ pc = "closed" /\ todo = << >> /\ tries = 0 /\ left = 0 /\ kind = None /\ cache = NoCache
  /\ asked = << >> /\ ready = {} /\ want = None
  /\ late = 0 /\ answer = None /\ served = FALSE

-----------------------------------------------------------------------------
(* The pad and the kernel.                                                   *)

\* A pad has opened both channels.
Connects(p) ==
  /\ pc = "closed"
  /\ pad' = p /\ up' = TRUE /\ late' = 0
  /\ pc' = "ask" /\ todo' = Ds5Ids /\ tries' = Tries /\ left' = Skips
  /\ UNCHANGED <<toPad, toUs, report, kind, cache, kernelVars, ready, want>>

\* A question is answered with the report or refused; the halves of a SET may
\* be acknowledged.
PadAnswers ==
  /\ up /\ toPad # << >> /\ toPad' = Tail(toPad)
  /\ LET f == Head(toPad) IN
       \/ f.tag = "GET" /\ f.id \in Has(pad) /\ toUs' = Append(toUs, [tag |-> "DATA", id |-> f.id])
       \/ ~(f.tag = "GET" /\ f.id \in Has(pad)) /\ toUs' = Append(toUs, [tag |-> "HANDSHAKE"])
       \/ f.tag # "GET" /\ toUs' = toUs
  /\ UNCHANGED <<padVars, report, pc, probeVars, left, cache, kernelVars, ready, want, late>>

PadReports ==
  /\ up /\ pc # "closed" /\ ~report /\ report' = TRUE
  /\ UNCHANGED <<padVars, toPad, toUs, pc, probeVars, left, cache, kernelVars, ready, want, late>>

LinkDies ==
  /\ up /\ up' = FALSE
  /\ UNCHANGED <<pad, toPad, toUs, report, pc, probeVars, left, cache, kernelVars, ready, want, late>>

KernelAsks(r) ==
  /\ kind # None /\ Len(asked) < ReqCap /\ Len(toPad) + Len(toUs) < Cap
  /\ asked' = Append(asked, r)
  /\ UNCHANGED <<padVars, toPad, toUs, report, pc, probeVars, left, cache, answer, served,
                 ready, want, late>>

-----------------------------------------------------------------------------
(* The handshake.                                                            *)

\* The session is dropped; the channel is closed with it.
Close ==
  /\ pc' = "closed" /\ up' = FALSE /\ toPad' = << >> /\ toUs' = << >> /\ report' = FALSE
  /\ todo' = << >> /\ tries' = 0 /\ left' = 0 /\ kind' = None /\ cache' = NoCache
  /\ asked' = << >> /\ ready' = {} /\ want' = None /\ answer' = None

\* Mutant: a refused serial is passed over like any other report.
RestOfDs5(got) == Tail(todo)

\* What is left to ask for, without the serial as of a DualShock 4.
Rest(got) == IF got \/ Head(todo) # "serial" THEN Tail(todo) ELSE Ds4Ids

KindOf(c) ==
  IF c["serial"] # None THEN "ds5"
  ELSE IF c["ds4"] # None \/ c["cal"] # None THEN "ds4" ELSE None

\* Mutant: a pad of neither kind is kept.
GoesAnyway(got, c, q) ==
  /\ todo' = Rest(got) /\ cache' = c /\ toUs' = q
  /\ IF Rest(got) = << >> THEN pc' = "turn" /\ kind' = KindOf(c) /\ tries' = 0 /\ left' = 0
     ELSE pc' = "ask" /\ kind' = None /\ tries' = Tries /\ left' = Skips
  /\ UNCHANGED <<pad, up, toPad, report, asked, ready, want, answer, served>>

\* The report of the moment has been got or not.  At the end of the handshake a
\* pad of neither kind is sent away, and so is a DualSense that does not take
\* its INIT report.
Goes(got, c, q) ==
  LET done == Rest(got) = << >>
      k    == KindOf(c) IN
  /\ IF done /\ (k = None \/ (k = "ds5" /\ ~up)) THEN Close
     ELSE /\ todo' = Rest(got) /\ cache' = c /\ toUs' = q
          /\ IF done THEN pc' = "turn" /\ kind' = k /\ tries' = 0 /\ left' = 0
             ELSE pc' = "ask" /\ kind' = None /\ tries' = Tries /\ left' = Skips
          /\ UNCHANGED <<up, toPad, report, asked, ready, want, answer>>
  /\ UNCHANGED <<pad, served>>

GetAsks ==
  /\ pc = "ask" /\ up /\ pc' = "await"
  /\ toPad' = Append(toPad, [tag |-> "GET", id |-> Head(todo)])
  /\ UNCHANGED <<padVars, toUs, report, probeVars, left, cache, kernelVars, ready, want, late>>

Gets ==
  /\ pc = "await" /\ up /\ toUs # << >> /\ Head(toUs) = [tag |-> "DATA", id |-> Head(todo)]
  /\ Goes(TRUE, [cache EXCEPT ![Head(todo)] = Head(todo)], Tail(toUs))
  /\ UNCHANGED late

\* A refusal, taken for one of the present question.
GetRefused ==
  /\ pc = "await" /\ up /\ toUs # << >> /\ Head(toUs).tag = "HANDSHAKE"
  /\ Goes(FALSE, cache, Tail(toUs))
  /\ UNCHANGED late

\* Time runs out with an answer on its way, or with none to come.
Deadline ==
  IF toPad = << >> THEN late' = late ELSE late < MaxLate /\ late' = late + 1

\* A missed deadline ends the question at once, and so does a dead channel.
GetTimesOut ==
  /\ pc = "await" /\ up /\ toUs = << >> /\ Deadline
  /\ Goes(FALSE, cache, toUs)

GetDies ==
  /\ pc \in {"ask", "await"} /\ ~up
  /\ Goes(FALSE, cache, toUs)
  /\ UNCHANGED late

\* The answer to an earlier question is skipped; after many the question is
\* asked again, and after many of these given up.
GetSkips ==
  /\ pc = "await" /\ up /\ toUs # << >>
  /\ Head(toUs).tag = "DATA" /\ Head(toUs).id # Head(todo)
  /\ \/ /\ left > 1 /\ left' = left - 1 /\ toUs' = Tail(toUs)
        /\ UNCHANGED <<padVars, toPad, report, pc, probeVars, cache, kernelVars, ready, want>>
     \/ /\ left = 1 /\ tries > 1 /\ tries' = tries - 1 /\ left' = Skips
        /\ pc' = "ask" /\ toUs' = Tail(toUs)
        /\ UNCHANGED <<padVars, toPad, report, todo, kind, cache, kernelVars, ready, want>>
     \/ left = 1 /\ tries = 1 /\ Goes(FALSE, cache, Tail(toUs))
  /\ UNCHANGED late

-----------------------------------------------------------------------------
(* The relay loop: a turn polls, treats the pad's report, one frame of the   *)
(* holder and one of the control channel, each if the poll has found it.     *)

Found == {x \in {"sock", "ctrl"} :
            (x = "sock" /\ asked # << >>) \/ (x = "ctrl" /\ (toUs # << >> \/ ~up))}

loopVars == <<padVars, toPad, toUs, probeVars, left, cache, asked, served, want, late>>

\* A turn that finds no report of the pad.
TurnWithoutReport ==
  /\ pc = "turn" /\ ~report /\ Found # {}
  /\ pc' = "sock" /\ ready' = Found /\ answer' = None
  /\ UNCHANGED <<loopVars, report>>

\* The report is relayed and the turn goes on.
TurnRelays ==
  /\ pc = "turn" /\ report /\ report' = FALSE
  /\ pc' = "sock" /\ ready' = Found /\ answer' = None
  /\ UNCHANGED loopVars

\* The report is held back, or comes too soon after the last one: `continue`.
TurnDrops ==
  /\ pc = "turn" /\ report /\ report' = FALSE /\ answer' = None
  /\ UNCHANGED <<loopVars, pc, ready>>

\* The reply as it goes to the holder, with the virtual pad's address in the
\* reports that hold one.
Reply(r, data) ==
  /\ answer' = [asked |-> r, data |-> data, mac |-> IF r = "serial" THEN "virtual" ELSE "real"]
  /\ served' = ~served

GetHit ==
  /\ pc = "sock" /\ "sock" \in ready /\ Head(asked).tag = "GET" /\ cache[Head(asked).id] # None
  /\ Reply(Head(asked).id, cache[Head(asked).id])
  /\ asked' = Tail(asked) /\ pc' = "turn" /\ ready' = {}
  /\ UNCHANGED <<padVars, toPad, toUs, report, probeVars, left, cache, want, late>>

\* The question goes to the pad and the loop waits for the answer.
GetMiss ==
  /\ pc = "sock" /\ "sock" \in ready /\ Head(asked).tag = "GET" /\ cache[Head(asked).id] = None
  /\ want' = Head(asked).id /\ left' = Reads /\ pc' = "fetch"
  /\ toPad' = IF up THEN Append(toPad, [tag |-> "GET", id |-> Head(asked).id]) ELSE toPad
  /\ asked' = Tail(asked) /\ ready' = {}
  /\ UNCHANGED <<padVars, toUs, report, probeVars, cache, answer, served, late>>

Fetched(data) ==
  /\ pc' = "turn" /\ want' = None /\ left' = 0 /\ Reply(want, data)
  /\ UNCHANGED <<padVars, toPad, report, probeVars, asked, ready>>

\* Mutant: whatever feature report comes is taken.
FetchGetsAny ==
  /\ pc = "fetch" /\ up /\ toUs # << >> /\ Head(toUs).tag = "DATA"
  /\ Fetched(Head(toUs).id)
  /\ cache' = [cache EXCEPT ![want] = Head(toUs).id] /\ toUs' = Tail(toUs) /\ UNCHANGED late

FetchGets ==
  /\ pc = "fetch" /\ up /\ toUs # << >> /\ Head(toUs) = [tag |-> "DATA", id |-> want]
  /\ Fetched(want)
  /\ cache' = [cache EXCEPT ![want] = want] /\ toUs' = Tail(toUs) /\ UNCHANGED late

\* Mutant: a frame that is not the answer is a refusal.
FetchSkipsNone ==
  /\ pc = "fetch" /\ up /\ toUs # << >> /\ Head(toUs) # [tag |-> "DATA", id |-> want]
  /\ toUs' = Tail(toUs) /\ Fetched(None)
  /\ UNCHANGED <<cache, late>>

\* Anything else is read and forgotten, refusals too, at most Reads times.
FetchSkips ==
  /\ pc = "fetch" /\ up /\ toUs # << >> /\ Head(toUs) # [tag |-> "DATA", id |-> want]
  /\ toUs' = Tail(toUs)
  /\ \/ /\ left > 1 /\ left' = left - 1
        /\ UNCHANGED <<padVars, toPad, report, pc, probeVars, kernelVars, ready, want>>
     \/ left = 1 /\ Fetched(None)
  /\ UNCHANGED <<cache, late>>

\* Mutant: a fetch in vain is not replied to.
TimesOutSilently ==
  /\ pc = "fetch"
  /\ \/ up /\ toUs = << >> /\ Deadline
     \/ ~up /\ late' = late
  /\ pc' = "turn" /\ want' = None /\ left' = 0
  /\ UNCHANGED <<padVars, toPad, toUs, report, probeVars, cache, kernelVars, ready>>

FetchTimesOut ==
  /\ pc = "fetch"
  /\ \/ up /\ toUs = << >> /\ Deadline
     \/ ~up /\ late' = late
  /\ Fetched(None)
  /\ UNCHANGED <<toUs, cache>>

\* A SET goes to the pad in two frames and is acknowledged without its answer.
SetForwards ==
  /\ pc = "sock" /\ "sock" \in ready /\ Head(asked).tag = "SET"
  /\ toPad' = IF up THEN toPad \o <<[tag |-> "SET"], [tag |-> "BODY"]>> ELSE toPad
  /\ asked' = Tail(asked) /\ served' = ~served /\ pc' = "ctrl"
  /\ UNCHANGED <<padVars, toUs, report, probeVars, left, cache, answer, ready, want, late>>

NoRequest ==
  /\ pc = "sock" /\ "sock" \notin ready /\ pc' = "ctrl"
  /\ UNCHANGED <<loopVars, answer, report, ready>>

\* Every feature report that comes is kept.
Drains ==
  /\ pc = "ctrl" /\ "ctrl" \in ready /\ up
  /\ cache' = IF Head(toUs).tag = "DATA" THEN [cache EXCEPT ![Head(toUs).id] = Head(toUs).id]
              ELSE cache
  /\ toUs' = Tail(toUs) /\ pc' = "turn" /\ ready' = {}
  /\ UNCHANGED <<padVars, toPad, report, probeVars, left, kernelVars, want, late>>

\* The end of the channel ends the session.
DrainEnds ==
  /\ pc = "ctrl" /\ "ctrl" \in ready /\ ~up /\ Close
  /\ UNCHANGED <<pad, served, late>>

NoFrame ==
  /\ pc = "ctrl" /\ "ctrl" \notin ready /\ pc' = "turn" /\ ready' = {}
  /\ UNCHANGED <<loopVars, answer, report>>

-----------------------------------------------------------------------------
Handshake == GetAsks \/ Gets \/ GetRefused \/ GetTimesOut \/ GetDies \/ GetSkips
Serve == GetHit \/ GetMiss \/ FetchGets \/ FetchSkips \/ FetchTimesOut \/ SetForwards
           \/ NoRequest \/ Drains \/ DrainEnds \/ NoFrame
Proxy == Handshake \/ TurnWithoutReport \/ TurnRelays \/ TurnDrops \/ Serve

Next ==
  \/ Proxy
  \/ \E p \in Kinds : Connects(p)
  \/ PadAnswers \/ PadReports \/ LinkDies
  \/ \E r \in Requests : KernelAsks(r)

\* The proxy runs and the pad answers in the end.  Reports come more slowly than
\* the loop turns: again and again a turn finds none.
Fairness ==
  /\ WF_vars(Proxy) /\ WF_vars(PadAnswers)
  /\ SF_vars(TurnWithoutReport)

Spec == Init /\ [][Next]_vars /\ Fairness

-----------------------------------------------------------------------------
(* Properties.                                                               *)

Serving == pc \in {"turn", "sock", "fetch", "ctrl"}

\* Unless an answer missed its deadline or the channel died, a pad is taken for
\* what it is and the whole handshake is in the cache, whatever answers and
\* refusals were under way (open, get_feature).
KindIsRight ==
  Serving /\ late = 0 /\ up =>
    /\ kind = pad
    /\ \A i \in Has(pad) \ {"test"} : cache[i] # None

\* A reply carries the report that was asked for, with the virtual pad's address
\* and not the pad's own; it is refused only if the pad does not have it, a
\* deadline was missed or the channel died (fetch_feature_once, relay_loop).
ReplyMatches ==
  answer # None =>
    /\ answer.data \in {answer.asked, None}
    /\ answer.data = "serial" => answer.mac = "virtual"

RefusalIsDue ==
  [][served' # served /\ answer' # answer /\ answer'.data = None =>
       answer'.asked \notin Has(pad) \/ late' > 0 \/ ~up]_vars

\* A request of the kernel is answered, however many reports the pad sends,
\* unless the session ends.
Answered ==
  \A b \in BOOLEAN :
    ((asked # << >> \/ pc = "fetch") /\ served = b) ~> (served # b \/ pc = "closed")

=============================================================================
