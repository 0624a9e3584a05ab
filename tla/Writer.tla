------------------------------- MODULE Writer -------------------------------
(***************************************************************************)
(* The sink's writer thread on an L2CAP pad: the one writer of the pad's    *)
(* interrupt channel.  It outlives the pad sessions of the proxy, which     *)
(* hand it a link on attach_pad and take the link back on detach_pad, and   *)
(* the relay loop hands it the output reports of the games.  While audio    *)
(* is streamed an output rides in the audio reports; otherwise it is        *)
(* relayed in a report of its own.                                          *)
(***************************************************************************)
EXTENDS Naturals, Sequences

CONSTANTS
  Outputs,    \* output reports a game writes
  MaxOutputs, \* bound: outputs written in all
  MaxLinks,   \* bound: links the pad makes, numbered in order
  QCap,       \* OUT_Q_CAP: outputs that wait for the writer
  SeqMod,     \* report sequence numbers are modulo this (16)
  IdleAfter,  \* windows of silence or starvation after which the stream idles (30)
  Audio,      \* does any audio ever play?
  None

ASSUME WriterAssumption ==
  /\ MaxLinks \in Nat /\ MaxOutputs \in Nat /\ QCap \in Nat \ {0}
  /\ SeqMod \in Nat \ {0, 1} /\ IdleAfter \in Nat \ {0}
  /\ Audio \in BOOLEAN /\ None \notin Outputs \cup BOOLEAN
  /\ None \notin [out : Outputs \cup {None}, jack : BOOLEAN]

VARIABLES
  \* the proxy's session and the pad
  session,  \* where the session is
  links,    \* links made so far
  alive,    \* the number of the link that is up, or 0
  pad,      \* what the pad has received
  written,  \* outputs written so far
  asked,    \* the newest of them, or None
  \* Shared
  intr,     \* the attached link, or 0
  gen,      \* attachments so far
  jack,     \* JACK_PLUGGED
  out_q,    \* outputs that wait for the writer
  \* writer_thread
  pc,       \* what it does next
  seen,     \* the generation it has just read
  cur_gen,  \* the generation it serves
  link,     \* the link it holds a duplicate of, or 0
  seq,      \* the shared report counter
  state,    \* the tracked state (state63)
  last,     \* last_state47
  path,     \* this turn's jack_path
  engaged,  \* engaged_jack
  primed, silent, starved

sessionVars == <<session, links, alive, written, asked>>
sharedVars  == <<intr, gen, jack>>
stateVars   == <<state, last>>
streamVars  == <<primed, silent, starved>>
linkVars    == <<seen, cur_gen, link>>
vars == <<sessionVars, pad, sharedVars, out_q, pc, linkVars, seq, stateVars,
          path, engaged, streamVars>>

Links == 0..MaxLinks

\* A state is an output merged with the audio path; the writer starts from a
\* fixed one and a fresh link counts as having been sent zeros.
States == [out : Outputs \cup {None}, jack : BOOLEAN]
Zero   == None

\* `n` flips with every report the pad gets.
Pad == [link : Links, n : {0, 1}, seq : 0..(SeqMod - 1), shows : States \cup {Zero}]

TypeOK ==
  /\ session \in {"out", "open", "attaching", "in"}
  /\ links \in Links /\ alive \in Links /\ pad \in Pad
  /\ written \in 0..MaxOutputs /\ asked \in Outputs \cup {None}
  /\ intr \in Links /\ gen \in Links /\ jack \in BOOLEAN
  /\ out_q \in Seq(Outputs) /\ Len(out_q) <= QCap
  /\ pc \in {"wait", "fetch", "init", "top", "keepalive", "flush", "gather", "window", "first"}
  /\ seen \in Links /\ cur_gen \in Links /\ link \in Links
  /\ seq \in 0..(SeqMod - 1)
  /\ state \in States /\ last \in States \cup {Zero}
  /\ path \in BOOLEAN /\ engaged \in BOOLEAN \cup {None}
  /\ primed \in BOOLEAN /\ silent \in 0..IdleAfter /\ starved \in 0..IdleAfter

Init ==
  /\ session = "out" /\ links = 0 /\ alive = 0 /\ written = 0 /\ asked = None
  /\ pad = [link |-> 0, n |-> 0, seq |-> 0, shows |-> Zero]
  /\ intr = 0 /\ gen = 0 /\ jack = FALSE /\ out_q = <<>>
  /\ pc = "wait" /\ seen = 0 /\ cur_gen = 0 /\ link = 0 /\ seq = 0
  /\ state = [out |-> None, jack |-> FALSE] /\ last = Zero
  /\ path = FALSE /\ engaged = None
  /\ primed = FALSE /\ silent = 0 /\ starved = 0

writerVars == <<pc, linkVars, seq, stateVars, path, engaged, streamVars>>

-----------------------------------------------------------------------------
(* The proxy's session, the pad and the games.                               *)

\* The pad connects: one link at a time.
PadConnects ==
  /\ session = "out" /\ alive = 0 /\ links < MaxLinks
  /\ links' = links + 1 /\ alive' = links + 1
  /\ session' = "open"
  /\ UNCHANGED <<written, asked, pad, sharedVars, out_q, writerVars>>

\* attach_pad puts the descriptor in place, then moves the generation on.
AttachLink ==
  /\ session = "open"
  /\ intr' = links
  /\ session' = "attaching"
  /\ UNCHANGED <<links, alive, written, asked, pad, gen, jack, out_q, writerVars>>

AttachGeneration ==
  /\ session = "attaching"
  /\ gen' = gen + 1
  /\ session' = "in"
  /\ UNCHANGED <<links, alive, written, asked, pad, intr, jack, out_q, writerVars>>

\* detach_pad at the session's end.  The session's descriptor is closed; the
\* link stays up as long as the writer has its own.
Detach ==
  /\ session = "in"
  /\ session' = "out" /\ intr' = 0
  /\ alive' = IF alive = link THEN alive ELSE 0
  /\ UNCHANGED <<links, written, asked, pad, gen, jack, out_q, writerVars>>

LinkDies ==
  /\ alive # 0 /\ alive' = 0
  /\ UNCHANGED <<session, links, written, asked, pad, sharedVars, out_q, writerVars>>

\* Mutant: a full queue refuses the newest output.
EnqueueOrDrop(o) ==
  /\ session = "in" /\ written < MaxOutputs
  /\ out_q' = IF Len(out_q) >= QCap THEN out_q ELSE Append(out_q, o)
  /\ asked' = o /\ written' = written + 1
  /\ UNCHANGED <<session, links, alive, pad, sharedVars, writerVars>>

\* Mutant: the queue takes one output more than it holds.
EnqueueOneMore(o) ==
  /\ session = "in" /\ written < MaxOutputs
  /\ out_q' = Append(IF Len(out_q) > QCap THEN Tail(out_q) ELSE out_q, o)
  /\ asked' = o /\ written' = written + 1
  /\ UNCHANGED <<session, links, alive, pad, sharedVars, writerVars>>

\* enqueue_output, rumble: a full queue drops its oldest output.
Enqueue(o) ==
  /\ session = "in" /\ written < MaxOutputs
  /\ out_q' = Append(IF Len(out_q) >= QCap THEN Tail(out_q) ELSE out_q, o)
  /\ asked' = o /\ written' = written + 1
  /\ UNCHANGED <<session, links, alive, pad, sharedVars, writerVars>>

JackMoves ==
  /\ session = "in" /\ jack' = ~jack
  /\ UNCHANGED <<sessionVars, pad, intr, gen, out_q, writerVars>>

-----------------------------------------------------------------------------
(* Writing to the pad.                                                       *)

Writable == alive = link

\* The pad takes a report; only a relay or an audio report carries a state.
Delivered(st) ==
  pad' = [link |-> link, n |-> 1 - pad.n, seq |-> seq,
          shows |-> IF st # Zero THEN st ELSE IF pad.link = link THEN pad.shows ELSE Zero]

NextSeq == seq' = (seq + 1) % SeqMod

\* Mutant: a failed write is only logged.
LinkDownIgnored ==
  /\ pc' = "top"
  /\ UNCHANGED <<pad, linkVars, seq, stateVars, engaged, streamVars>>

\* The inner loop breaks: the duplicate is closed and the next link awaited.
LinkDown ==
  /\ pc' = "wait" /\ link' = 0
  /\ UNCHANGED <<pad, seen, cur_gen, seq, stateVars, engaged, streamVars>>

-----------------------------------------------------------------------------
(* Waiting for a link.                                                       *)

\* The generation is read before the descriptor: a session may end, and
\* another start, between the two.
ReadGeneration ==
  /\ pc = "wait" /\ gen # cur_gen
  /\ seen' = gen /\ pc' = "fetch"
  /\ UNCHANGED <<sessionVars, pad, sharedVars, out_q, cur_gen, link, seq, stateVars, path,
                 engaged, streamVars>>

FindNoLink ==
  /\ pc = "fetch" /\ intr = 0
  /\ pc' = "wait"
  /\ UNCHANGED <<sessionVars, pad, sharedVars, out_q, linkVars, seq, stateVars, path,
                 engaged, streamVars>>

\* Mutant: the counter goes on from the link before.
TakeLinkKeepingSeq ==
  /\ pc = "fetch" /\ intr # 0
  /\ link' = intr /\ cur_gen' = seen
  /\ state' = [state EXCEPT !.jack = TRUE] /\ last' = Zero
  /\ engaged' = None /\ primed' = FALSE /\ silent' = 0 /\ starved' = 0
  /\ pc' = "init"
  /\ UNCHANGED <<sessionVars, pad, sharedVars, out_q, seen, seq, path>>

\* Mutant: the mirror is left over from the link before.
TakeLinkKeepingLast ==
  /\ pc = "fetch" /\ intr # 0
  /\ link' = intr /\ cur_gen' = seen
  /\ state' = [state EXCEPT !.jack = TRUE] /\ seq' = 0
  /\ engaged' = None /\ primed' = FALSE /\ silent' = 0 /\ starved' = 0
  /\ pc' = "init"
  /\ UNCHANGED <<sessionVars, pad, sharedVars, out_q, seen, last, path>>

\* A fresh link: everything is reset but the tracked state, which is merged
\* with the path of a headset (!force_speaker, the default).
TakeLink ==
  /\ pc = "fetch" /\ intr # 0
  /\ link' = intr /\ cur_gen' = seen
  /\ state' = [state EXCEPT !.jack = TRUE] /\ last' = Zero /\ seq' = 0
  /\ engaged' = None /\ primed' = FALSE /\ silent' = 0 /\ starved' = 0
  /\ pc' = "init"
  /\ UNCHANGED <<sessionVars, pad, sharedVars, out_q, seen, path>>

\* The handshake: a mic-state report, then a mic-open one of its own counter.
Handshake ==
  /\ pc = "init"
  /\ \/ ~Writable /\ LinkDown
     \/ /\ Writable /\ Delivered(Zero) /\ NextSeq
        /\ pc' = "top"
        /\ UNCHANGED <<linkVars, stateVars, engaged, streamVars>>
  /\ UNCHANGED <<sessionVars, sharedVars, out_q, path>>

-----------------------------------------------------------------------------
(* One turn of the inner loop.                                               *)

\* The turn reads the jack once and answers a plug or an unplug.
Engage ==
  /\ pc = "top"
  /\ path' = jack
  /\ \/ /\ engaged = jack /\ pc' = "keepalive"
        /\ UNCHANGED <<pad, linkVars, seq, stateVars, engaged, streamVars>>
     \/ engaged # jack /\ ~Writable /\ LinkDown
     \/ /\ engaged # jack /\ Writable /\ Delivered(Zero) /\ NextSeq
        /\ engaged' = jack /\ pc' = "keepalive"
        /\ UNCHANGED <<linkVars, stateVars, streamVars>>
  /\ UNCHANGED <<sessionVars, sharedVars, out_q>>

\* Every two seconds an idle writer keeps the pad awake.
KeepAlive ==
  /\ pc = "keepalive" /\ ~primed
  /\ \/ ~Writable /\ LinkDown
     \/ /\ Writable /\ Delivered(Zero) /\ NextSeq
        /\ pc' = "flush"
        /\ UNCHANGED <<linkVars, stateVars, engaged, streamVars>>
  /\ UNCHANGED <<sessionVars, sharedVars, out_q, path>>

NoKeepAlive ==
  /\ pc = "keepalive"
  /\ pc' = "flush"
  /\ UNCHANGED <<sessionVars, pad, sharedVars, out_q, linkVars, seq, stateVars, path,
                 engaged, streamVars>>

\* flush_kernel_outputs pops until it finds the queue empty.
Pop(o) ==
  /\ pc = "flush" /\ out_q # <<>> /\ o = Head(out_q)
  /\ out_q' = Tail(out_q)
  /\ state' = [out |-> o, jack |-> path]
  /\ UNCHANGED <<sessionVars, sharedVars, path>>

\* While audio is streamed the output waits for the next audio report.
Absorb(o) ==
  /\ primed /\ Pop(o)
  /\ UNCHANGED <<pad, pc, linkVars, seq, last, engaged, streamVars>>

\* What the pad was last sent is not sent again.
SkipSame(o) ==
  /\ ~primed /\ Pop(o) /\ state' = last
  /\ UNCHANGED <<pad, pc, linkVars, seq, last, engaged, streamVars>>

Relay(o) ==
  /\ ~primed /\ Pop(o) /\ state' # last /\ Writable
  /\ Delivered(state') /\ NextSeq
  /\ last' = state'
  /\ UNCHANGED <<pc, linkVars, engaged, streamVars>>

RelayFails(o) ==
  /\ ~primed /\ Pop(o) /\ state' # last /\ ~Writable
  /\ pc' = "wait" /\ link' = 0
  /\ UNCHANGED <<pad, cur_gen, seen, seq, last, engaged, streamVars>>

FlushEnds ==
  /\ pc = "flush" /\ out_q = <<>>
  /\ pc' = IF primed THEN "window" ELSE "gather"
  /\ UNCHANGED <<sessionVars, pad, sharedVars, out_q, linkVars, seq, stateVars, path,
                 engaged, streamVars>>

\* No audio, or only silence: the turn ends.
StayIdle ==
  /\ pc = "gather"
  /\ pc' = "top" /\ starved' = 0
  /\ UNCHANGED <<sessionVars, pad, sharedVars, out_q, linkVars, seq, stateVars, path,
                 engaged, primed, silent>>

\* Audio: the stream starts with another handshake and the window at hand.
Prime ==
  /\ pc = "gather" /\ Audio
  /\ primed' = TRUE /\ starved' = 0
  /\ \/ ~Writable /\ pc' = "wait" /\ link' = 0 /\ UNCHANGED <<pad, cur_gen, seen, seq>>
     \/ /\ Writable /\ Delivered(Zero) /\ NextSeq
        /\ pc' = "first" /\ UNCHANGED linkVars
  /\ UNCHANGED <<sessionVars, sharedVars, out_q, stateVars, path, engaged, silent>>

\* Too many windows in a row were padded: the stream idles.  Their count is not
\* looked at again before Prime resets it.
StarveOut ==
  /\ pc = "window" /\ starved = IdleAfter
  /\ primed' = FALSE /\ starved' = 0 /\ pc' = "top"
  /\ UNCHANGED <<sessionVars, pad, sharedVars, out_q, linkVars, seq, stateVars, path,
                 engaged, silent>>

\* A window of silence is not sent; after a number of them the stream idles.
SilentWindow ==
  /\ pc = "window"
  /\ silent' = IF silent + 1 >= IdleAfter THEN 0 ELSE silent + 1
  /\ primed' = (silent + 1 < IdleAfter)
  /\ starved' = 0 /\ pc' = "top"
  /\ UNCHANGED <<sessionVars, pad, sharedVars, out_q, linkVars, seq, stateVars, path, engaged>>

\* Any other window goes out with the tracked state.  It may have been padded.
\* (That Opus fails, which drops the window, is left out.)
SendAudio ==
  /\ pc \in {"window", "first"} /\ Audio /\ silent' = 0
  /\ starved' = 0 \/ (starved < IdleAfter /\ starved' = starved + 1)
  /\ state' = [state EXCEPT !.jack = path]
  /\ \/ ~Writable /\ pc' = "wait" /\ link' = 0 /\ UNCHANGED <<pad, cur_gen, seen, seq, last>>
     \/ /\ Writable /\ Delivered(state') /\ NextSeq
        /\ last' = state' /\ pc' = "top" /\ UNCHANGED linkVars
  /\ UNCHANGED <<sessionVars, sharedVars, out_q, path, engaged, primed>>

-----------------------------------------------------------------------------

WriterStep ==
  \/ ReadGeneration \/ FindNoLink \/ TakeLink \/ Handshake
  \/ Engage \/ NoKeepAlive \/ FlushEnds
  \/ \E o \in Outputs : Absorb(o) \/ SkipSame(o) \/ Relay(o) \/ RelayFails(o)
  \/ StayIdle \/ Prime \/ StarveOut \/ SilentWindow \/ SendAudio

SessionStep ==
  \/ PadConnects \/ AttachLink \/ AttachGeneration \/ Detach \/ LinkDies \/ JackMoves
  \/ \E o \in Outputs : Enqueue(o)

Next == WriterStep \/ KeepAlive \/ SessionStep

Spec == Init /\ [][Next]_vars

\* The thread runs and its keep-alive timer runs out again and again.  A flush
\* ends because MaxOutputs bounds what games write: they write far more slowly
\* than the writer pops.
FairSpec == Spec /\ WF_vars(WriterStep) /\ SF_vars(KeepAlive)

-----------------------------------------------------------------------------

\* The pad tracks one counter: on a link every report has the next number,
\* whichever of the five places sent it.
SeqAdvances ==
  [][ pad'.n # pad.n =>
        pad'.seq = IF pad'.link = pad.link THEN (pad.seq + 1) % SeqMod ELSE 0 ]_vars

\* Change detection never withholds an output the pad does not show.
SkipIsSafe ==
  [][ \A o \in Outputs : SkipSame(o) => pad.link = link /\ pad.shows = state' ]_vars

\* However full the queue gets, the newest output is the one that is kept.
NewestKept ==
  asked # None =>
    IF out_q = <<>> THEN state.out = asked ELSE out_q[Len(out_q)] = asked

\* A link that stays up is found by the writer and initialised, even when it
\* still holds the link before.
Serves ==
  (session = "in" /\ alive = intr) ~> (pad.link = intr \/ alive # intr \/ session # "in")

\* When the writer is idle and has nothing to flush, the pad shows what the
\* game asked for last.
NewestShown ==
  pc = "gather" /\ out_q = <<>> /\ asked # None /\ alive = link /\ link # 0
    => pad.link = link /\ pad.shows # Zero /\ pad.shows.out = asked

=============================================================================
