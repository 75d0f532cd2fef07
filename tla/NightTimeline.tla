--------------------------- MODULE NightTimeline ---------------------------
(***************************************************************************)
(* The night as the scrubber lays it out and moves over it                 *)
(* (web/lib/timeline.ts, components/scrubber/Scrubber.tsx), as functions   *)
(* of a set of events.                                                     *)
(*                                                                         *)
(* An event is [ts, id, duration], a tick's duration is Tick.  Positions   *)
(* across the night are in thousandths of it, which is what the keys move  *)
(* by, and instants in thousandths of a millisecond: the model has no      *)
(* rounding of floating point.                                             *)
(***************************************************************************)
EXTENDS Integers, Sequences, FiniteSets, SequencesExt

Grid == 1000
TickDuration == -1

Before(d, e) == d.ts < e.ts \/ (d.ts = e.ts /\ d.id < e.id)

Lasting(e) == IF e.duration = TickDuration THEN 0 ELSE e.duration

Greater(a, b) == IF a > b THEN a ELSE b

\* The frame ends where the last event ends, not where the last one starts.
LayoutNight(events, startedAt) ==
    LET marks == SetToSortSeq(events, Before)
        from  == IF events = {} THEN startedAt ELSE marks[1].ts
        to    == FoldLeft(LAMBDA latest, e : Greater(latest, e.ts + Lasting(e)), from, marks)
    IN  [marks |-> marks, from |-> from, to |-> to, span |-> Greater(1, to - from)]

Clamp(value, low, high) == IF value < low THEN low ELSE IF value > high THEN high ELSE value

InstantAt(night, position) == Grid * night.from + Clamp(position, 0, Grid) * night.span

PositionOf(night, instant) == Clamp((instant - Grid * night.from) \div night.span, 0, Grid)

-----------------------------------------------------------------------------
(* Moving the playhead touches only the marks it crosses.                  *)

AtRest(night) == [crossed |-> 0, past |-> [i \in 1 .. Len(night.marks) |-> FALSE]]

\* The two loops of moveTo: forwards over what the instant has reached,
\* backwards over what it has left.
Forwards(night, head, instant) ==
    LET Walk[k \in 0 .. Len(night.marks)] ==
          IF k = Len(night.marks) \/ Grid * night.marks[k + 1].ts > instant THEN k ELSE Walk[k + 1]
        to == Walk[head.crossed]
    IN  [crossed |-> to, past |-> [i \in DOMAIN head.past |-> head.past[i] \/ i \in head.crossed + 1 .. to]]

Backwards(night, head, instant) ==
    LET Walk[k \in 0 .. Len(night.marks)] ==
          IF k = 0 \/ Grid * night.marks[k].ts <= instant THEN k ELSE Walk[k - 1]
        to == Walk[head.crossed]
    IN  [crossed |-> to, past |-> [i \in DOMAIN head.past |-> head.past[i] /\ i \notin to + 1 .. head.crossed]]

MoveTo(night, head, position) ==
    LET instant == InstantAt(night, position)
    IN  Backwards(night, Forwards(night, head, instant), instant)

Moves(night, positions) ==
    FoldLeft(LAMBDA head, position : MoveTo(night, head, position), AtRest(night), positions)

Steps == [ArrowRight |-> 2, ArrowLeft |-> -2, PageUp |-> 20, PageDown |-> -20]
Coarse == 20

NextPosition(current, key, shift) ==
    CASE key = "Home" -> 0
      [] key = "End"  -> Grid
      [] shift /\ key = "ArrowRight" -> Clamp(current + Coarse, 0, Grid)
      [] shift /\ key = "ArrowLeft"  -> Clamp(current - Coarse, 0, Grid)
      [] OTHER -> Clamp(current + Steps[key], 0, Grid)

\* What the playhead is inside of, with a tolerance that finds a tick.
EventsAt(night, instant, tolerance) ==
    {e \in ToSet(night.marks) :
        /\ instant >= Grid * (e.ts - tolerance)
        /\ instant <= Grid * (e.ts + Lasting(e) + tolerance)}
=============================================================================
