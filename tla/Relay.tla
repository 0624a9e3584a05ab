-------------------------------- MODULE Relay --------------------------------
(***************************************************************************)
(* The input half of the proxy's relay loop: what becomes of a report of    *)
(* the real pad before the games see it.  Each report runs through the      *)
(* chord engine, the PS filter, the pause of the overlays, the focus gate   *)
(* and the pacing, and what is left goes to the virtual pad and, if the tap *)
(* is up, to the XInput pad.  A SIGHUP reloads the configuration between    *)
(* two reports; the bridge and the gate thread move their flags at any time.*)
(*                                                                          *)
(* A pad has the PS button, buttons and the trigger `t`.  Some of them have *)
(* a chord; the trigger's toggles the PS filter, the others run a command.  *)
(***************************************************************************)
EXTENDS Naturals, FiniteSets

CONSTANTS
  Plain,    \* buttons without a chord
  Keys,     \* buttons with a chord; "t" is the trigger
  Digital,  \* TRUE: the pad sets a button bit with its trigger, as real pads do
  Ds4,      \* TRUE: DualShock 4 layout, where the triggers are not after the sticks
  Pace,     \* reports per pace window (1: no pacing, the USB relay)
  Hold,     \* time in reports after which a solo PS press is a hold (3 s)
  Reloads,  \* may the configuration be reloaded?
  Sessions, \* may the session end and another begin?
  MaxDown   \* bound: buttons down at once besides PS

ASSUME RelayAssumption ==
  /\ Plain \cap Keys = {} /\ {"ps", "t"} \cap Plain = {}
  /\ {"ps", "tap", "hold"} \cap Keys = {} \* the other commands have names of their own
  /\ Digital \in BOOLEAN /\ Ds4 \in BOOLEAN /\ Reloads \in BOOLEAN /\ Sessions \in BOOLEAN
  /\ Pace \in Nat \ {0} /\ Hold \in Nat \ {0} /\ MaxDown \in Nat

VARIABLES
  raw,         \* the last report of the pad
  ch,          \* ChordState
  ps_swallow,  \* is PS stripped from what is relayed?
  paused,      \* PAUSED, moved by the bridge
  gate,        \* the gate flag, moved by the gate thread
  pause_break, gate_break,
  age,         \* reports since the last forwarded one
  xi,          \* is the XInput tap up?
  ds, xp,      \* what the virtual pad and the XInput pad show
  past         \* history of the presses, for the properties

breakVars == <<pause_break, gate_break, age>>
flagVars  == <<paused, gate>>
padVars   == <<xi, ds, xp>>
chordVars == <<raw, ch, ps_swallow, past>>
vars == <<chordVars, flagVars, breakVars, padVars>>

Buttons == {"ps"} \cup Plain \cup (Keys \ {"t"})

\* Trigger levels: 0 at rest, 1 up to TRIG_RELEASE, 2 up to TRIG_THRESHOLD, 3
\* above.  The trigger's button bit, if the pad has one, is "t" in `down`.
Reports == [down : SUBSET (Buttons \cup {"t"}), t : 0..3]
Rest    == [down |-> {}, t |-> 0]
Down(r) == r.down \cup (IF r.t > 0 THEN {"t"} ELSE {})
Inputs  ==
  {r \in Reports : /\ "t" \in r.down <=> Digital /\ r.t > 0
                  /\ Cardinality(Down(r) \ {"ps"}) <= MaxDown}

ChordStates ==
  [prev : SUBSET Keys, swallow : SUBSET (Keys \cup {"ps"}), skip : BOOLEAN,
   held : BOOLEAN, since : 0..Hold, paired : BOOLEAN, fired : BOOLEAN]

\* ChordState::new
NewChords ==
  [prev |-> {}, swallow |-> {}, skip |-> TRUE, held |-> FALSE, since |-> 0,
   paired |-> FALSE, fired |-> FALSE]

\* chorded: the buttons of the chords fired in this PS press; reloaded: was the
\* configuration reloaded since; company: was anything else down in this PS
\* press; acted: has it run a PS command; lasted: reports, up to Hold, since it
\* began; latched: the keys whose chord fired and that are not released yet (a
\* trigger: not under TRIG_RELEASE); closing: what has been down ever since the
\* games' input was held back; calm: reports in a row, up to Pace, that found
\* the pad at rest and no overlay holding it.
Pasts ==
  [chorded : SUBSET (Keys \cup {"ps"}), reloaded : BOOLEAN, company : BOOLEAN,
   acted : BOOLEAN, lasted : 0..Hold, latched : SUBSET Keys, closing : SUBSET (Buttons \cup {"t"}),
   calm : 0..Pace]

TypeOK ==
  /\ raw \in Reports /\ ch \in ChordStates /\ ps_swallow \in BOOLEAN
  /\ paused \in BOOLEAN /\ gate \in BOOLEAN
  /\ pause_break \in BOOLEAN /\ gate_break \in BOOLEAN /\ age \in 0..(Pace - 1)
  /\ xi \in BOOLEAN /\ ds \in Reports /\ xp \in Reports
  /\ past \in Pasts

Init ==
  /\ raw = Rest /\ ch = NewChords /\ ps_swallow \in BOOLEAN
  /\ paused \in BOOLEAN /\ gate \in BOOLEAN
  /\ pause_break = FALSE /\ gate_break = FALSE /\ age = Pace - 1
  /\ xi \in BOOLEAN /\ ds = Rest /\ xp = Rest
  /\ past = [chorded |-> {}, reloaded |-> FALSE, company |-> FALSE, acted |-> FALSE,
             lasted |-> 0, latched |-> {}, closing |-> {}, calm |-> 0]

-----------------------------------------------------------------------------
(* The chord engine: feed and strip.                                         *)

\* A trigger is known by its level; once latched it is released only under the
\* lower threshold.
Pressed(c, r) ==
  {k \in Keys \ {"t"} : k \in r.down}
    \cup (IF r.t > (IF "t" \in c.prev THEN 1 ELSE 2) THEN Keys \cap {"t"} ELSE {})

\* Mutant: the first report after a reload makes edges.
FiresAtOnce(c, r) == IF "ps" \in r.down THEN Pressed(c, r) \ c.prev ELSE {}

Fires(c, r) == IF "ps" \in r.down /\ ~c.skip THEN Pressed(c, r) \ c.prev ELSE {}

\* Mutant: only what is fired is swallowed, not PS.
SwallowsKey(fires) == fires

Swallows(fires) == IF fires = {} THEN {} ELSE fires \cup {"ps"}

\* Any other button during the press.
PairedNow(r) == r.down \ {"ps"} # {} \/ r.t = 3

\* Mutant: what else was down is looked at only when PS goes down.
PairedAtPress(c, r) == IF c.held THEN c.paired ELSE c.skip \/ PairedNow(r)

\* A PS press under way when the engine starts counts as paired.
Paired(c, r) == (IF c.held THEN c.paired ELSE c.skip) \/ PairedNow(r)

\* Mutant: the clock runs on.
SinceUncapped(c) == IF c.held THEN c.since + 1 ELSE 0

Since(c) == IF ~c.held THEN 0 ELSE IF c.since < Hold THEN c.since + 1 ELSE Hold

HoldFires(c, r) ==
  "ps" \in r.down /\ ~Paired(c, r) /\ ~(c.held /\ c.fired) /\ Since(c) = Hold

TapFires(c, r) == "ps" \notin r.down /\ c.held /\ ~c.paired /\ ~c.fired

\* The state after a report; swallowing ends, and the press is over, with PS up.
Fed(c, r) ==
  LET ps == "ps" \in r.down
  IN  [prev    |-> Pressed(c, r),
       swallow |-> IF ps THEN c.swallow \cup Swallows(Fires(c, r)) ELSE {},
       skip    |-> FALSE,
       held    |-> ps,
       since   |-> IF ps THEN Since(c) ELSE 0,
       paired  |-> ps /\ Paired(c, r),
       fired   |-> ps /\ ((c.held /\ c.fired) \/ HoldFires(c, r))]

Commands(c, r) ==
  Fires(c, r) \cup (IF HoldFires(c, r) THEN {"hold"} ELSE {})
              \cup (IF TapFires(c, r) THEN {"tap"} ELSE {})

\* The level of a swallowed trigger is zeroed, its button bit is not known of.
Strip(r, swallow) ==
  [down |-> r.down \ (swallow \ {"t"}), t |-> IF "t" \in swallow THEN 0 ELSE r.t]

PsFilter(r, on) == IF on THEN [r EXCEPT !.down = @ \ {"ps"}] ELSE r

-----------------------------------------------------------------------------

\* What the history keeps of a report.
Remember(r) ==
  LET ps    == "ps" \in r.down
      edge  == ps /\ "ps" \notin raw.down
      goes  == ~edge /\ ("ps" \in raw.down \/ ch.held)
      fires == Fires(ch, r)
  IN  past' =
        [chorded  |-> IF ps THEN past.chorded \cup (IF fires = {} THEN {} ELSE fires \cup {"ps"})
                            ELSE {},
         reloaded |-> ps /\ past.reloaded,
         company  |-> (goes /\ past.company) \/ (ps /\ (r.down # {"ps"} \/ r.t = 3)),
         acted    |-> (goes /\ past.acted) \/ Commands(ch, r) \cap {"tap", "hold"} # {},
         lasted   |-> IF ~ps \/ edge THEN 0
                      ELSE IF past.lasted < Hold THEN past.lasted + 1 ELSE Hold,
         latched  |-> ((past.latched \cup fires) \cap Down(r))
                        \ (IF r.t < (IF ch.skip THEN 3 ELSE 2) THEN {"t"} ELSE {}),
         closing  |-> IF paused \/ gate THEN Down(r) ELSE past.closing \cap Down(r),
         calm     |-> IF paused \/ r # Rest THEN 0
                      ELSE IF past.calm < Pace THEN past.calm + 1 ELSE Pace]

\* A report comes in: the chords are fed with it as it is.
Receive(r) ==
  /\ raw' = r
  /\ ch' = Fed(ch, r)
  /\ ps_swallow' = IF "t" \in Fires(ch, r) THEN ~ps_swallow ELSE ps_swallow
  /\ Remember(r)
  /\ UNCHANGED flagVars

\* What is left of it for the games.
Left(r) == PsFilter(Strip(r, ch'.swallow), ps_swallow')

\* buttons_live looks for the triggers right after the sticks.
Live(r) == r.down # {} \/ (~Ds4 /\ r.t > 0)

\* gate_input fills the six bytes from the sticks on with the centre value.
GateInput(r) == [down |-> {}, t |-> IF Ds4 THEN r.t ELSE 3]

\* xinput::translate takes a trigger from its level only.
Translate(r) == [r EXCEPT !.down = @ \ {"t"}]

Aged == IF age + 1 < Pace THEN age + 1 ELSE age

\* Mutant: the XInput pad is left as it was.
PausedUnparked(r) ==
  /\ paused /\ Receive(r)
  /\ pause_break' = TRUE /\ age' = Aged
  /\ UNCHANGED <<gate_break, padVars>>

\* An overlay holds the pad: nothing is forwarded, and the first report parks
\* the XInput pad.
ReportPaused(r) ==
  /\ paused /\ Receive(r)
  /\ pause_break' = TRUE /\ age' = Aged
  /\ xp' = IF xi /\ ~pause_break THEN Rest ELSE xp
  /\ UNCHANGED <<gate_break, xi, ds>>

\* After a pause nothing is forwarded until all buttons are up.
ReportHeldBack(r) ==
  /\ ~paused /\ pause_break /\ Receive(r) /\ Live(Left(r))
  /\ age' = Aged
  /\ UNCHANGED <<pause_break, gate_break, padVars>>

Passes(r) ==
  /\ ~paused /\ Receive(r) /\ ~(pause_break /\ Live(Left(r)))
  /\ pause_break' = FALSE

\* Mutant: the gate is let go of as soon as its flag is down.
GateUntilFlag(r) == gate

\* The gate keeps its hold in the same way.
Gated(r) == gate \/ (gate_break /\ Live(Left(r)))

\* Mutant: a report that is not forwarded starts the window anew.
PacedRestarts(r) ==
  /\ age + 1 < Pace /\ Passes(r)
  /\ gate_break' = Gated(r)
  /\ age' = 0
  /\ UNCHANGED padVars

\* At most one report in a pace window goes further.
ReportPaced(r) ==
  /\ age + 1 < Pace /\ Passes(r)
  /\ gate_break' = Gated(r)
  /\ age' = age + 1
  /\ UNCHANGED padVars

ReportForwarded(r) ==
  /\ age + 1 >= Pace /\ Passes(r)
  /\ gate_break' = Gated(r)
  /\ ds' = IF Gated(r) THEN GateInput(Left(r)) ELSE Left(r)
  /\ xp' = IF xi THEN Translate(ds') ELSE xp
  /\ age' = 0
  /\ UNCHANGED xi

-----------------------------------------------------------------------------

\* SIGHUP: a new chord engine, the PS mode of the file, and the tap raised or
\* lowered.  A pad that is raised is new or was parked by its holder.
Reload ==
  /\ Reloads
  /\ ch' = NewChords /\ ps_swallow' \in BOOLEAN
  /\ xi' \in BOOLEAN /\ xp' = IF xi /\ xi' THEN xp ELSE Rest
  /\ past' = [past EXCEPT !.reloaded = "ps" \in raw.down]
  /\ UNCHANGED <<raw, flagVars, breakVars, ds>>

\* The tap's holder link ends: the tap is dark until the next reload.
XiLost ==
  /\ xi /\ xi' = FALSE /\ xp' = Rest
  /\ UNCHANGED <<raw, ch, ps_swallow, past, flagVars, breakVars, ds>>

FlagsMove ==
  /\ \/ paused' = ~paused /\ UNCHANGED gate
     \/ gate' = ~gate /\ UNCHANGED paused
  /\ UNCHANGED <<raw, ch, ps_swallow, past, breakVars, padVars>>

\* relay_loop returns: the pad is gone, and is off until it connects again, or
\* the holder is, and its pads are made anew.  The next session starts afresh
\* but for the chord engine and the PS mode, which belong to run() and for which
\* only time goes by.  A pad without a neutral report stays as it was.
SessionEnds ==
  /\ Sessions
  /\ \/ raw' = Rest /\ ds' \in {ds, Rest}
     \/ raw' = raw /\ ds' = Rest
  /\ \/ UNCHANGED ch
     \/ ch.held /\ ch' = [ch EXCEPT !.since = Hold]
  /\ pause_break' = FALSE /\ gate_break' = FALSE /\ age' = Pace - 1
  /\ xi' \in BOOLEAN /\ xp' = Rest
  /\ past' = [past EXCEPT !.closing = {}, !.calm = 0,
                !.chorded = IF raw' = Rest THEN {} ELSE @,
                !.lasted = IF raw' = Rest THEN 0 ELSE IF ch' = ch THEN @ ELSE Hold,
                !.latched = @ \cap Down(raw')]
  /\ UNCHANGED <<ps_swallow, flagVars>>

Report ==
  \E r \in Inputs :
    ReportPaused(r) \/ ReportHeldBack(r) \/ ReportPaced(r) \/ ReportForwarded(r)

Next == Report \/ Reload \/ XiLost \/ FlagsMove \/ SessionEnds

Spec == Init /\ [][Next]_vars

-----------------------------------------------------------------------------

\* From the press that fires a chord until PS is released, neither PS nor the
\* chord's button is in a report the games get (unless a reload forgets it); a
\* chord's trigger is at rest in it.
ChordHidden ==
  [][ past'.chorded # {} /\ ~past'.reloaded /\ ~gate_break' /\ ReportForwarded(raw')
        => /\ ds'.down \cap past'.chorded \subseteq {"t"}
           /\ "t" \in past'.chorded => ds'.t = 0 ]_vars

\* The same without exception: the games do not see the chord at all.
ChordUnseen ==
  [][ past'.chorded # {} /\ ~past'.reloaded /\ ~gate_break' /\ ReportForwarded(raw')
        => Down(ds') \cap past'.chorded = {} ]_vars

\* A chord fires once per press of its button, whatever is reloaded and however
\* a trigger hovers at the threshold (but one that a new engine first sees
\* between the thresholds counts as released).
ChordNeedsRelease ==
  [][ Fires(ch, raw') \cap past.latched # {} => ~Receive(raw') ]_vars

\* A tap or a hold of PS runs its command only when nothing else was pressed
\* with it, and one press runs one command, across reloads.
PsIsSolo ==
  [][ Commands(ch, raw') \cap {"tap", "hold"} # {} /\ Receive(raw')
        => /\ ~past'.company
           /\ past.acted => "ps" \in raw'.down \ raw.down ]_vars

\* The hold command runs only for a press that has lasted as long as a hold.
HoldIsLong ==
  [][ Receive(raw') /\ HoldFires(ch, raw') => past'.lasted = Hold ]_vars

\* The press that ends a pause or a gate never reaches the games: a button
\* without a chord is seen again only after it has been up.
UnboundClosingHidden ==
  [][ Down(ds') \cap past'.closing \cap Plain # {} => ~ReportForwarded(raw') ]_vars

\* The same of every button.
ClosingHidden ==
  [][ ReportForwarded(raw') /\ ~gate_break' => Down(ds') \cap past'.closing = {} ]_vars

\* A paused game's XInput pad is at rest, through reloads and lost links.
XiParked == pause_break => xp = Rest

\* Pacing and the hold-backs lose no release: a pace window after the pad is at
\* rest, and no overlay holds it, the games see all buttons up.
Settled == past.calm = Pace => ds.down = {}

=============================================================================
