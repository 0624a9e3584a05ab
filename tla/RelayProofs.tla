----------------------------- MODULE RelayProofs -----------------------------
(***************************************************************************)
(* Proofs about the relay of input reports for every set of buttons and     *)
(* chords, either layout, every pace window and every number of reloads and *)
(* sessions.                                                                *)
(***************************************************************************)
EXTENDS Relay, TLAPS

\* A tap that is down or in a pause shows the XInput pad at rest.
XiInv == (pause_break \/ ~xi) => xp = Rest

\* While the pad has been at rest the pace window has been running, unless the
\* games already see the buttons up.
CalmInv == ds.down = {} \/ past.calm <= age

\* The engine swallows what the history knows of the chords of this PS press.
ChordInv ==
  /\ ~past.reloaded => past.chorded \subseteq ch.swallow
  /\ past.chorded # {} => "ps" \in raw.down

\* A button that has been down since the input was held back keeps it so.
ClosingInv == past.closing \cap Plain # {} => pause_break \/ gate_break

\* A key whose chord fired is down for the engine, unless the engine is new.
LatchInv == ch.skip \/ past.latched \subseteq ch.prev

\* The engine knows of every PS press but one that a reload has cut; of a press
\* that may still run a command it knows that nothing else was down, and whether
\* it has run one.
PressInv ==
  /\ "ps" \in raw.down => ch.held \/ ch.skip
  /\ ch.held /\ ~ch.paired => ~past.company /\ (past.acted => ch.fired)

\* The inductive invariant.
IInv == TypeOK /\ XiInv /\ CalmInv /\ ChordInv /\ ClosingInv /\ LatchInv /\ PressInv

-----------------------------------------------------------------------------
(* The chord engine.                                                         *)

\* What fires is bound to a chord, and the clock stays within its bound.
LEMMA EngineBounds ==
  ASSUME NEW c \in ChordStates, NEW r \in Reports
  PROVE  /\ Pressed(c, r) \in SUBSET Keys
         /\ Fires(c, r) \in SUBSET Keys
         /\ Since(c) \in 0..Hold
BY RelayAssumption DEF Pressed, Fires, Since, ChordStates, Reports, Buttons

\* feed keeps the type of the engine's state.
LEMMA FedType ==
  ASSUME NEW c \in ChordStates, NEW r \in Reports
  PROVE  Fed(c, r) \in ChordStates
<1>1. Pressed(c, r) \in SUBSET Keys /\ Fires(c, r) \in SUBSET Keys /\ Since(c) \in 0..Hold
  BY EngineBounds
<1>2. c.swallow \cup Swallows(Fires(c, r)) \in SUBSET (Keys \cup {"ps"})
  BY <1>1 DEF Swallows, ChordStates
<1>3. Paired(c, r) \in BOOLEAN /\ (c.held /\ c.fired) \in BOOLEAN /\ HoldFires(c, r) \in BOOLEAN
  BY DEF Paired, PairedNow, HoldFires, ChordStates
<1>4. 0 \in 0..Hold
  BY RelayAssumption
<1> QED
  BY <1>1, <1>2, <1>3, <1>4 DEF Fed, ChordStates

\* strip, the PS filter, the gate and the translation turn reports into reports.
LEMMA LeftType ==
  ASSUME NEW r \in Reports
  PROVE  Left(r) \in Reports /\ GateInput(r) \in Reports /\ Translate(r) \in Reports
BY DEF Left, PsFilter, Strip, GateInput, Translate, Reports

\* A button without a chord is left in the report.
LEMMA LeftKeepsPlain ==
  ASSUME NEW r \in Reports, ch' \in ChordStates
  PROVE  Left(r).down \cap Plain = r.down \cap Plain
BY RelayAssumption DEF Left, PsFilter, Strip, Reports, Buttons, ChordStates

\* Nothing swallowed is left in the report, but for a trigger's button bit.
LEMMA LeftDropsSwallowed ==
  ASSUME NEW r \in Reports, ch' \in ChordStates
  PROVE  /\ Left(r).down \cap ch'.swallow \subseteq {"t"}
         /\ "t" \in ch'.swallow => Left(r).t = 0
BY DEF Left, PsFilter, Strip, Reports, ChordStates

\* Of a pad at rest nothing is left.
LEMMA LeftOfRest == Left(Rest).down = {} /\ ~Live(Left(Rest))
BY DEF Left, PsFilter, Strip, Live, Rest

-----------------------------------------------------------------------------
(* A report.                                                                 *)

\* The history after a report.
LEMMA RememberType ==
  ASSUME TypeOK, NEW r \in Reports, Remember(r)
  PROVE  /\ past' \in Pasts
         /\ past'.calm <= past.calm + 1
         /\ r # Rest \/ paused => past'.calm = 0
         /\ past'.chorded # {} => "ps" \in r.down
         /\ past'.closing = IF paused \/ gate THEN Down(r) ELSE past.closing \cap Down(r)
<1> DEFINE ps    == "ps" \in r.down
           edge  == ps /\ "ps" \notin raw.down
           goes  == ~edge /\ ("ps" \in raw.down \/ ch.held)
           fires == Fires(ch, r)
           chorded == IF ps THEN past.chorded \cup (IF fires = {} THEN {} ELSE fires \cup {"ps"})
                            ELSE {}
           company == (goes /\ past.company) \/ (ps /\ (r.down # {"ps"} \/ r.t = 3))
           acted   == (goes /\ past.acted) \/ Commands(ch, r) \cap {"tap", "hold"} # {}
           lasted  == IF ~ps \/ edge THEN 0
                      ELSE IF past.lasted < Hold THEN past.lasted + 1 ELSE Hold
           latched == ((past.latched \cup fires) \cap Down(r))
                        \ (IF r.t < (IF ch.skip THEN 3 ELSE 2) THEN {"t"} ELSE {})
           closing == IF paused \/ gate THEN Down(r) ELSE past.closing \cap Down(r)
           calm    == IF paused \/ r # Rest THEN 0
                      ELSE IF past.calm < Pace THEN past.calm + 1 ELSE Pace
<1>1. past' = [chorded |-> chorded, reloaded |-> ps /\ past.reloaded, company |-> company,
               acted |-> acted, lasted |-> lasted, latched |-> latched,
               closing |-> closing, calm |-> calm]
  BY DEF Remember
<1>2. fires \in SUBSET Keys
  BY EngineBounds DEF TypeOK
<1>3. past \in Pasts
  BY DEF TypeOK
<1>4. chorded \in SUBSET (Keys \cup {"ps"}) /\ latched \in SUBSET Keys
  BY <1>2, <1>3 DEF Pasts
<1>5. closing \in SUBSET (Buttons \cup {"t"})
  BY <1>3 DEF Pasts, Down, Reports
<1>6. lasted \in 0..Hold /\ calm \in 0..Pace /\ calm <= past.calm + 1
  BY <1>3, RelayAssumption DEF Pasts
<1>7. (ps /\ past.reloaded) \in BOOLEAN /\ company \in BOOLEAN /\ acted \in BOOLEAN
  BY <1>3 DEF Pasts
<1>8. past' \in Pasts
  <2> HIDE DEF ps, edge, goes, fires, chorded, company, acted, lasted, latched, closing, calm
  <2> QED BY <1>1, <1>4, <1>5, <1>6, <1>7 DEF Pasts
<1> QED
  BY <1>1, <1>6, <1>8

\* A key stays latched only as long as the engine takes it for pressed: a trigger
\* by the lower threshold, once the engine has seen it above the upper one.
LEMMA LatchReceive ==
  ASSUME IInv, NEW r \in Reports, Receive(r)
  PROVE  LatchInv'
<1> SUFFICES ASSUME NEW k \in past'.latched PROVE k \in ch'.prev
  BY DEF LatchInv
<1>1. k \in past.latched \cup Fires(ch, r) /\ k \in Down(r) /\ ch'.prev = Pressed(ch, r)
  BY DEF Receive, Remember, Fed
<1>2. k = "t" => r.t >= IF ch.skip THEN 3 ELSE 2
  BY DEF Receive, Remember, Reports
<1>3. k \in Keys /\ r.t \in 0..3
  BY <1>1, EngineBounds DEF IInv, TypeOK, Pasts, Reports
<1>4. CASE k # "t"
  BY <1>1, <1>3, <1>4 DEF Down, Pressed
<1>5. CASE k = "t" /\ k \in Fires(ch, r)
  BY <1>1, <1>5 DEF Fires
<1>6. CASE k = "t" /\ k \in past.latched
  <2>1. CASE ch.skip
    <3>1. r.t > 2 /\ r.t > 1
      BY <1>2, <1>3, <1>6, <2>1
    <3> QED BY <1>1, <1>3, <1>6, <3>1 DEF Pressed
  <2>2. CASE ~ch.skip
    <3>1. "t" \in ch.prev
      BY <1>6, <2>2 DEF IInv, LatchInv
    <3>2. r.t > 1
      BY <1>2, <1>3, <1>6, <2>2
    <3> QED BY <1>1, <1>3, <1>6, <3>1, <3>2 DEF Pressed
  <2> QED BY <2>1, <2>2
<1> QED BY <1>1, <1>4, <1>5, <1>6

\* While a press may still run a command the engine has seen all of it.
LEMMA PressSeen ==
  ASSUME IInv, NEW r \in Reports, "ps" \in r.down, ~Paired(ch, r), "ps" \in raw.down
  PROVE  ch.held /\ ~ch.paired /\ ~past.company /\ (past.acted => ch.fired)
<1>1. ch.held
  BY DEF Paired, IInv, PressInv
<1>2. ~ch.paired
  BY <1>1 DEF Paired
<1> QED BY <1>1, <1>2 DEF IInv, PressInv

\* What the history says of the press after a report.
LEMMA PressAfter ==
  ASSUME IInv, NEW r \in Reports, Receive(r)
  PROVE  /\ past'.company => \/ /\ past.company
                                /\ "ps" \in raw.down \/ (ch.held /\ "ps" \notin r.down)
                             \/ "ps" \in r.down /\ PairedNow(r)
         /\ past'.acted => \/ /\ past.acted
                              /\ "ps" \in raw.down \/ (ch.held /\ "ps" \notin r.down)
                           \/ HoldFires(ch, r) \/ TapFires(ch, r)
<1>1. Fires(ch, r) \cap {"tap", "hold"} = {}
  BY EngineBounds, RelayAssumption DEF IInv, TypeOK
<1>2. Commands(ch, r) \cap {"tap", "hold"} # {} => HoldFires(ch, r) \/ TapFires(ch, r)
  BY <1>1 DEF Commands
<1>3. "ps" \in r.down /\ (r.down # {"ps"} \/ r.t = 3) => PairedNow(r)
  BY DEF PairedNow
<1> QED BY <1>2, <1>3 DEF Receive, Remember

LEMMA PressReceive ==
  ASSUME IInv, NEW r \in Reports, Receive(r)
  PROVE  PressInv'
<1>1. /\ raw' = r /\ (ch'.held <=> "ps" \in r.down)
      /\ ch'.paired <=> "ps" \in r.down /\ Paired(ch, r)
      /\ ch'.fired <=> "ps" \in r.down /\ ((ch.held /\ ch.fired) \/ HoldFires(ch, r))
  BY DEF Receive, Fed
<1> SUFFICES ASSUME "ps" \in r.down, ~Paired(ch, r)
             PROVE  ~past'.company /\ (past'.acted => ch'.fired)
  BY <1>1 DEF PressInv
<1>2. ~PairedNow(r) /\ ~TapFires(ch, r)
  BY DEF Paired, TapFires
<1>3. CASE "ps" \in raw.down
  BY <1>1, <1>2, <1>3, PressSeen, PressAfter
<1>4. CASE "ps" \notin raw.down
  BY <1>1, <1>2, <1>4, PressAfter
<1> QED BY <1>3, <1>4

\* Types, and what holds of the chords and of the presses, after any report.
LEMMA ReceiveStep ==
  ASSUME IInv, NEW r \in Reports, Receive(r)
  PROVE  /\ raw' \in Reports /\ ch' \in ChordStates /\ ps_swallow' \in BOOLEAN
         /\ paused' = paused /\ gate' = gate /\ past' \in Pasts
         /\ ChordInv' /\ LatchInv' /\ PressInv'
<1>1. ch' \in ChordStates
  BY FedType DEF Receive, IInv, TypeOK
<1>2. past' \in Pasts /\ (past'.chorded # {} => "ps" \in r.down)
  BY RememberType DEF Receive, IInv
<1>3. ~past'.reloaded => past'.chorded \subseteq ch'.swallow
  <2>1. CASE "ps" \notin r.down
    BY <2>1 DEF Receive, Remember
  <2>2. CASE "ps" \in r.down
    <3>1. /\ past'.chorded = past.chorded \cup Swallows(Fires(ch, r))
          /\ past'.reloaded = past.reloaded
      BY <2>2 DEF Receive, Remember, Swallows, IInv, TypeOK, Pasts
    <3>2. ch'.swallow = ch.swallow \cup Swallows(Fires(ch, r))
      BY <2>2 DEF Receive, Fed
    <3> QED BY <3>1, <3>2 DEF IInv, ChordInv
  <2> QED BY <2>1, <2>2
<1> QED
  BY <1>1, <1>2, <1>3, LatchReceive, PressReceive DEF Receive, flagVars, ChordInv, IInv, TypeOK

\* Whether or not the report is held back or paced, the rest of the invariant
\* follows from what it does to the pads and the window.
LEMMA PausedStep ==
  ASSUME IInv, NEW r \in Reports, ReportPaused(r)
  PROVE  IInv'
<1>1. /\ raw' \in Reports /\ ch' \in ChordStates /\ ps_swallow' \in BOOLEAN
      /\ paused' = paused /\ gate' = gate /\ past' \in Pasts
      /\ ChordInv' /\ LatchInv' /\ PressInv'
  BY ReceiveStep DEF ReportPaused
<1>2. past'.calm = 0
  BY RememberType DEF ReportPaused, Receive, IInv
<1>3. Rest \in Reports
  BY DEF Rest, Reports
<1>4. age' \in 0..(Pace - 1)
  BY RelayAssumption DEF ReportPaused, Aged, IInv, TypeOK
<1>5. TypeOK'
  BY <1>1, <1>3, <1>4 DEF ReportPaused, IInv, TypeOK
<1>6. XiInv' /\ ClosingInv'
  BY DEF ReportPaused, XiInv, ClosingInv, IInv
<1>7. CalmInv'
  BY <1>2, <1>4, RelayAssumption DEF CalmInv
<1> QED
  BY <1>1, <1>5, <1>6, <1>7 DEF IInv

LEMMA HeldBackStep ==
  ASSUME IInv, NEW r \in Reports, ReportHeldBack(r)
  PROVE  IInv'
<1>1. /\ raw' \in Reports /\ ch' \in ChordStates /\ ps_swallow' \in BOOLEAN
      /\ paused' = paused /\ gate' = gate /\ past' \in Pasts
      /\ ChordInv' /\ LatchInv' /\ PressInv'
  BY ReceiveStep DEF ReportHeldBack
<1>2. past'.calm = 0
  BY RememberType, LeftOfRest DEF ReportHeldBack, Receive, IInv
<1>3. age' \in 0..(Pace - 1)
  BY RelayAssumption DEF ReportHeldBack, Aged, IInv, TypeOK
<1>4. TypeOK'
  BY <1>1, <1>3 DEF ReportHeldBack, padVars, IInv, TypeOK
<1>5. XiInv' /\ ClosingInv'
  BY DEF ReportHeldBack, padVars, XiInv, ClosingInv, IInv
<1>6. CalmInv'
  BY <1>2, <1>3, RelayAssumption DEF CalmInv
<1> QED
  BY <1>1, <1>4, <1>5, <1>6 DEF IInv

\* A report that passes the pause leaves a closing press behind the gate.
LEMMA PassesClosing ==
  ASSUME IInv, NEW r \in Reports, Passes(r), gate_break' = Gated(r)
  PROVE  past'.closing \cap Plain # {} => gate_break'
<1>1. CASE gate
  BY <1>1 DEF Gated
<1>2. CASE ~gate
  <2> SUFFICES ASSUME past'.closing \cap Plain # {}
               PROVE  gate_break'
    OBVIOUS
  <2>1. past'.closing = past.closing \cap Down(r)
    BY <1>2, RememberType DEF Passes, Receive, IInv
  <2>2. Left(r).down # {}
    <3>1. ch' \in ChordStates
      BY ReceiveStep DEF Passes
    <3>2. r.down \cap Plain # {}
      BY <2>1, RelayAssumption DEF Down
    <3> QED BY <3>1, <3>2, LeftKeepsPlain
  <2>3. Live(Left(r))
    BY <2>2 DEF Live
  <2>4. pause_break \/ gate_break
    BY <2>1 DEF IInv, ClosingInv
  <2> QED BY <2>3, <2>4 DEF Passes, Gated
<1> QED BY <1>1, <1>2

LEMMA GatedType ==
  ASSUME TypeOK, NEW r
  PROVE  Gated(r) \in BOOLEAN
BY DEF Gated, TypeOK, Live

LEMMA PacedStep ==
  ASSUME IInv, NEW r \in Reports, ReportPaced(r)
  PROVE  IInv'
<1>1. /\ raw' \in Reports /\ ch' \in ChordStates /\ ps_swallow' \in BOOLEAN
      /\ paused' = paused /\ gate' = gate /\ past' \in Pasts
      /\ ChordInv' /\ LatchInv' /\ PressInv'
  BY ReceiveStep DEF ReportPaced, Passes
<1>2. past'.calm <= past.calm + 1
  BY RememberType DEF ReportPaced, Passes, Receive, IInv
<1>3. age' \in 0..(Pace - 1) /\ age' = age + 1
  BY RelayAssumption DEF ReportPaced, IInv, TypeOK
<1>4. gate_break' \in BOOLEAN
  BY GatedType DEF ReportPaced, IInv
<1>5. TypeOK'
  BY <1>1, <1>3, <1>4 DEF ReportPaced, Passes, padVars, IInv, TypeOK
<1>6. XiInv'
  BY DEF ReportPaced, Passes, padVars, XiInv, IInv
<1>7. ClosingInv'
  BY PassesClosing DEF ReportPaced, ClosingInv
<1>8. CalmInv'
  <2>1. past.calm \in Nat /\ past'.calm \in Nat /\ age \in Nat
    BY <1>1 DEF IInv, TypeOK, Pasts
  <2>2. ds' = ds
    BY DEF ReportPaced, padVars
  <2> QED BY <1>2, <1>3, <2>1, <2>2 DEF CalmInv, IInv
<1> QED
  BY <1>1, <1>5, <1>6, <1>7, <1>8 DEF IInv

LEMMA ForwardedStep ==
  ASSUME IInv, NEW r \in Reports, ReportForwarded(r)
  PROVE  IInv'
<1>1. /\ raw' \in Reports /\ ch' \in ChordStates /\ ps_swallow' \in BOOLEAN
      /\ paused' = paused /\ gate' = gate /\ past' \in Pasts
      /\ ChordInv' /\ LatchInv' /\ PressInv'
  BY ReceiveStep DEF ReportForwarded, Passes
<1>2. ds' \in Reports
  BY LeftType DEF ReportForwarded
<1>9. xp' \in Reports
  <2>1. Translate(ds') \in Reports
    BY <1>2, LeftType
  <2> QED BY <2>1 DEF ReportForwarded, IInv, TypeOK
<1>3. age' = 0 /\ age' \in 0..(Pace - 1)
  BY RelayAssumption DEF ReportForwarded
<1>4. gate_break' \in BOOLEAN
  BY GatedType DEF ReportForwarded, IInv
<1>5. TypeOK'
  BY <1>1, <1>2, <1>3, <1>4, <1>9 DEF ReportForwarded, Passes, IInv, TypeOK
<1>6. XiInv'
  BY DEF ReportForwarded, Passes, XiInv, IInv
<1>7. ClosingInv'
  BY PassesClosing DEF ReportForwarded, ClosingInv
<1>8. CalmInv'
  <2>1. CASE r = Rest
    BY <2>1, LeftOfRest DEF ReportForwarded, GateInput, CalmInv
  <2>2. CASE r # Rest
    <3>1. past'.calm = 0
      BY <2>2, RememberType DEF ReportForwarded, Passes, Receive, IInv
    <3> QED BY <1>3, <3>1, RelayAssumption DEF CalmInv
  <2> QED BY <2>1, <2>2
<1> QED
  BY <1>1, <1>5, <1>6, <1>7, <1>8 DEF IInv

-----------------------------------------------------------------------------
(* The other steps.                                                          *)

LEMMA ReloadStep ==
  ASSUME IInv, Reload
  PROVE  IInv'
<1>1. past' \in Pasts
  <2> DEFINE b == "ps" \in raw.down
  <2>1. past \in Pasts /\ b \in BOOLEAN
    BY DEF IInv, TypeOK
  <2>2. past' = [past EXCEPT !.reloaded = b]
    BY DEF Reload
  <2> HIDE DEF b
  <2> QED BY <2>1, <2>2 DEF Pasts
<1>2. /\ past'.chorded = past.chorded /\ past'.closing = past.closing
      /\ past'.calm = past.calm /\ past'.reloaded = ("ps" \in raw.down)
  BY DEF Reload, Pasts, IInv, TypeOK
<1>3. NewChords \in ChordStates /\ Rest \in Reports
  BY RelayAssumption DEF NewChords, ChordStates, Rest, Reports
<1>4. TypeOK'
  BY <1>1, <1>3 DEF Reload, flagVars, breakVars, IInv, TypeOK
<1>5. XiInv'
  BY DEF Reload, breakVars, XiInv, IInv
<1>6. CalmInv' /\ ClosingInv'
  BY <1>2 DEF Reload, breakVars, CalmInv, ClosingInv, IInv
<1>7. ChordInv'
  BY <1>2 DEF Reload, ChordInv, IInv
<1>8. LatchInv' /\ PressInv'
  BY DEF Reload, NewChords, LatchInv, PressInv
<1> QED
  BY <1>4, <1>5, <1>6, <1>7, <1>8 DEF IInv

LEMMA SessionStep ==
  ASSUME IInv, SessionEnds
  PROVE  IInv'
<1>1. raw' \in Reports /\ ds' \in Reports /\ xp' \in Reports
  BY DEF SessionEnds, Rest, Reports, IInv, TypeOK
<1>2. /\ ch' \in ChordStates /\ ch'.swallow = ch.swallow /\ ch'.skip = ch.skip
      /\ ch'.prev = ch.prev /\ ch'.held = ch.held /\ ch'.paired = ch.paired /\ ch'.fired = ch.fired
  BY RelayAssumption DEF SessionEnds, ChordStates, IInv, TypeOK
<1>3. /\ past' \in Pasts /\ past'.calm = 0 /\ past'.closing = {}
      /\ past'.chorded = (IF raw' = Rest THEN {} ELSE past.chorded)
      /\ past'.reloaded = past.reloaded /\ past'.latched \subseteq past.latched
      /\ past'.company = past.company /\ past'.acted = past.acted
  <2> DEFINE chorded == IF raw' = Rest THEN {} ELSE past.chorded
             lasted  == IF raw' = Rest THEN 0 ELSE IF ch' = ch THEN past.lasted ELSE Hold
             latched == past.latched \cap Down(raw')
  <2>1. past \in Pasts
    BY DEF IInv, TypeOK
  <2>2. /\ past' = [past EXCEPT !.closing = {}, !.calm = 0, !.chorded = chorded,
                                !.lasted = lasted, !.latched = latched]
    BY DEF SessionEnds
  <2>3. chorded \in SUBSET (Keys \cup {"ps"}) /\ latched \in SUBSET Keys
    BY <2>1 DEF Pasts
  <2>4. lasted \in 0..Hold /\ 0 \in 0..Pace
    BY <2>1, RelayAssumption DEF Pasts
  <2> HIDE DEF chorded, lasted, latched
  <2>5. /\ past' \in Pasts /\ past'.calm = 0 /\ past'.closing = {}
        /\ past'.chorded = chorded /\ past'.reloaded = past.reloaded /\ past'.latched = latched
        /\ past'.company = past.company /\ past'.acted = past.acted
    BY <2>1, <2>2, <2>3, <2>4 DEF Pasts
  <2> QED BY <2>5 DEF chorded, latched
<1>4. age' \in 0..(Pace - 1)
  BY RelayAssumption DEF SessionEnds
<1>5. TypeOK'
  BY <1>1, <1>2, <1>3, <1>4 DEF SessionEnds, flagVars, IInv, TypeOK
<1>6. XiInv' /\ ClosingInv'
  BY <1>3 DEF SessionEnds, XiInv, ClosingInv
<1>7. CalmInv'
  BY <1>3, <1>4, RelayAssumption DEF CalmInv
<1>8. ChordInv'
  BY <1>2, <1>3 DEF SessionEnds, ChordInv, IInv, Rest
<1>9. LatchInv'
  BY <1>2, <1>3 DEF LatchInv, IInv
<1>10. PressInv'
  BY <1>2, <1>3 DEF SessionEnds, PressInv, IInv, Rest
<1> QED
  BY <1>5, <1>6, <1>7, <1>8, <1>9, <1>10 DEF IInv

LEMMA Step ==
  ASSUME IInv, [Next]_vars
  PROVE  IInv'
<1>1. CASE Report
  <2>1. PICK r \in Inputs :
          ReportPaused(r) \/ ReportHeldBack(r) \/ ReportPaced(r) \/ ReportForwarded(r)
    BY <1>1 DEF Report
  <2>2. r \in Reports
    BY DEF Inputs
  <2> QED BY <2>1, <2>2, PausedStep, HeldBackStep, PacedStep, ForwardedStep
<1>2. CASE Reload
  BY <1>2, ReloadStep
<1>3. CASE XiLost
  <2>1. TypeOK'
    <3>1. Rest \in Reports
      BY DEF Rest, Reports
    <3> QED BY <1>3, <3>1 DEF XiLost, flagVars, breakVars, IInv, TypeOK
  <2>2. XiInv' /\ CalmInv' /\ ClosingInv'
    BY <1>3 DEF XiLost, breakVars, IInv, XiInv, CalmInv, ClosingInv
  <2>3. ChordInv' /\ LatchInv' /\ PressInv'
    BY <1>3 DEF XiLost, IInv, ChordInv, LatchInv, PressInv
  <2> QED BY <2>1, <2>2, <2>3 DEF IInv
<1>4. CASE FlagsMove
  <2>1. TypeOK' /\ XiInv' /\ CalmInv' /\ ChordInv' /\ ClosingInv'
    BY <1>4 DEF FlagsMove, breakVars, padVars, IInv, TypeOK, XiInv, CalmInv, ChordInv, ClosingInv
  <2>2. LatchInv' /\ PressInv'
    BY <1>4 DEF FlagsMove, IInv, LatchInv, PressInv
  <2> QED BY <2>1, <2>2 DEF IInv
<1>5. CASE SessionEnds
  BY <1>5, SessionStep
<1>6. CASE UNCHANGED vars
  BY <1>6 DEF vars, chordVars, flagVars, breakVars, padVars, IInv, TypeOK, XiInv, CalmInv,
              ChordInv, ClosingInv, LatchInv, PressInv
<1> QED
  BY <1>1, <1>2, <1>3, <1>4, <1>5, <1>6 DEF Next

LEMMA Start ==
  ASSUME Init
  PROVE  IInv
<1>1. NewChords \in ChordStates /\ Rest \in Reports
  BY RelayAssumption DEF NewChords, ChordStates, Rest, Reports
<1>2. 0 \in 0..Hold /\ 0 \in 0..Pace /\ age \in 0..(Pace - 1)
  BY RelayAssumption DEF Init
<1>3. past \in Pasts
  BY <1>2 DEF Init, Pasts
<1>4. TypeOK
  BY <1>1, <1>2, <1>3 DEF Init, TypeOK
<1>5. past.calm <= age
  BY <1>2 DEF Init
<1> QED
  BY <1>4, <1>5
  DEF Init, IInv, XiInv, CalmInv, ChordInv, ClosingInv, LatchInv, PressInv, NewChords, Rest

\* The inductive invariant holds in every reachable state.
THEOREM Invariance == Spec => []IInv
  BY Start, Step, PTL DEF Spec

-----------------------------------------------------------------------------

\* Every variable of the loop keeps its type, the counters within their bounds.
THEOREM Typing == Spec => []TypeOK
  BY Invariance, PTL DEF IInv

\* While an overlay holds the pad, and until all buttons are up after it, the
\* XInput pad is at rest (park_neutral), whatever is reloaded or lost.
THEOREM Parked == Spec => []XiParked
<1>1. IInv => XiParked
  BY DEF IInv, XiInv, XiParked
<1> QED
  BY <1>1, Invariance, PTL

\* Pacing loses no release: after Pace reports at rest the games see the
\* buttons up, however the flags moved before.
THEOREM ReleasesArrive == Spec => []Settled
<1>1. IInv => Settled
  BY RelayAssumption DEF IInv, CalmInv, Settled, TypeOK
<1> QED
  BY <1>1, Invariance, PTL

\* A report that is forwarded shows nothing of the chords of this PS press.
LEMMA ForwardHides ==
  ASSUME IInv, IInv', ReportForwarded(raw'), ~past'.reloaded, ~gate_break'
  PROVE  /\ ds'.down \cap past'.chorded \subseteq {"t"}
         /\ "t" \in past'.chorded => ds'.t = 0
<1>1. ds' = Left(raw')
  BY DEF ReportForwarded
<1>2. past'.chorded \subseteq ch'.swallow
  BY DEF IInv, ChordInv
<1>3. /\ Left(raw').down \cap ch'.swallow \subseteq {"t"}
      /\ "t" \in ch'.swallow => Left(raw').t = 0
  BY LeftDropsSwallowed DEF IInv, TypeOK
<1> QED
  BY <1>1, <1>2, <1>3

\* From the press that fires a chord until PS is up, feed and strip keep PS and
\* the chord's button, and a trigger's level, from the games: for every set of
\* chords.
THEOREM ChordsHide == Spec => ChordHidden
<1> DEFINE Hides == past'.chorded # {} /\ ~past'.reloaded /\ ~gate_break' /\ ReportForwarded(raw')
                      => /\ ds'.down \cap past'.chorded \subseteq {"t"}
                         /\ "t" \in past'.chorded => ds'.t = 0
<1>1. IInv /\ IInv' => [Hides]_vars
  BY ForwardHides
<1> QED
  BY <1>1, Invariance, PTL DEF ChordHidden

\* feed runs a chord's command once for a press of its key, however a trigger
\* hovers between its thresholds and whatever is reloaded: for every set of keys.
THEOREM OncePerPress == Spec => ChordNeedsRelease
<1> DEFINE Once == Fires(ch, raw') \cap past.latched # {} => ~Receive(raw')
<1>1. IInv => [Once]_vars
  BY DEF IInv, LatchInv, Fires
<1> QED
  BY <1>1, Invariance, PTL DEF ChordNeedsRelease

\* feed runs a PS command only for a press of nothing but PS, and one at most for
\* each: for every length of a hold and every set of buttons.
THEOREM PsAlone == Spec => PsIsSolo
<1> DEFINE Solo == Commands(ch, raw') \cap {"tap", "hold"} # {} /\ Receive(raw')
                     => /\ ~past'.company
                        /\ past.acted => "ps" \in raw'.down \ raw.down
<1>1. IInv /\ IInv' => [Solo]_vars
  <2> SUFFICES ASSUME IInv, IInv', Receive(raw'), Commands(ch, raw') \cap {"tap", "hold"} # {}
               PROVE  ~past'.company /\ (past.acted => "ps" \in raw'.down \ raw.down)
    OBVIOUS
  <2>1. raw' \in Reports
    BY DEF IInv, TypeOK
  <2>2. Fires(ch, raw') \cap {"tap", "hold"} = {}
    BY <2>1, EngineBounds, RelayAssumption DEF IInv, TypeOK
  <2>3. CASE HoldFires(ch, raw')
    <3>1. "ps" \in raw'.down /\ ~Paired(ch, raw') /\ ~(ch.held /\ ch.fired) /\ ~PairedNow(raw')
      BY <2>3 DEF HoldFires, Paired
    <3> QED BY <2>1, <3>1, PressSeen, PressAfter
  <2>4. CASE TapFires(ch, raw')
    <3>1. "ps" \notin raw'.down /\ ~past.company /\ ~past.acted
      BY <2>4 DEF TapFires, IInv, PressInv
    <3> QED BY <2>1, <3>1, PressAfter
  <2> QED BY <2>2, <2>3, <2>4 DEF Commands
<1> QED
  BY <1>1, Invariance, PTL DEF PsIsSolo

\* A button without a chord that was down when a pause or a gate ended does not
\* reach the games before it has been up.
THEOREM ClosingHides == Spec => UnboundClosingHidden
<1> DEFINE Hides == Down(ds') \cap past'.closing \cap Plain # {} => ~ReportForwarded(raw')
<1>1. IInv /\ IInv' => [Hides]_vars
  <2> SUFFICES ASSUME IInv, IInv', ReportForwarded(raw'), past'.closing \cap Plain # {}
               PROVE  Down(ds') \cap past'.closing \cap Plain = {}
    OBVIOUS
  <2>1. gate_break'
    BY PassesClosing DEF ReportForwarded, IInv, TypeOK
  <2>2. ds'.down = {}
    BY <2>1 DEF ReportForwarded, GateInput
  <2> QED BY <2>2, RelayAssumption DEF Down
<1> QED
  BY <1>1, Invariance, PTL DEF UnboundClosingHidden

=============================================================================
