----------------------------- MODULE MCMorning -----------------------------
\* Instances of Morning for TLC, and what the scrubber of module NightTimeline
\* computes, compared with its definition over small nights.
EXTENDS Morning, NightTimeline

Symmetry == Permutations(Runs) \cup Permutations(Questions) \cup Permutations(Pages)

SomeSets == UNION {
    {{[ts |-> f[i][1], id |-> i, duration |-> f[i][2]] : i \in ids} :
        f \in [ids -> (10 .. 12) \X {TickDuration, 0, 2}]} : ids \in SUBSET (1 .. 3)}
SomeNights == {LayoutNight(E, 9) : E \in SomeSets}
SomePositions == {0, 333, 500, 1000}

\* A night is laid out in the order of its instants and is not empty, which is
\* what the theorems about the playhead ask of it (timeline.ts, layoutNight).
ASSUME MarksAreInOrder ==
    \A night \in SomeNights :
        /\ night.span > 0
        /\ \A i, j \in DOMAIN night.marks : i < j => Before(night.marks[i], night.marks[j])

\* Every event lies inside its own night (timeline.ts: "A bar that begins near
\* the end still has to fit inside its own night").
ASSUME EveryEventFits ==
    \A E \in SomeSets : LET night == LayoutNight(E, 9) IN
        \A e \in E : night.from <= e.ts /\ e.ts + Lasting(e) <= night.to

\* Wherever the playhead went before, a mark is drawn as past exactly when its
\* event has begun by the instant the playhead is on (Scrubber.tsx, moveTo).
ASSUME PastMeansBegun ==
    \A night \in SomeNights : \A a, b, c \in SomePositions :
        LET head == Moves(night, <<a, b, c>>)
        IN  \A i \in DOMAIN night.marks :
                head.past[i] = (Grid * night.marks[i].ts <= InstantAt(night, c))

\* What begins at or before an instant and has not ended by it is listed there.
ASSUME TheCurrentAreListed ==
    \A night \in SomeNights : \A p \in SomePositions :
        LET instant == InstantAt(night, p)
        IN  \A e \in ToSet(night.marks) :
                Grid * e.ts <= instant /\ instant <= Grid * (e.ts + Lasting(e))
                    => e \in EventsAt(night, instant, 1)

\* Keys reach both ends, never leave the night, and undo each other inside it.
ASSUME KeysStayInside ==
    \A p \in 0 .. Grid : \A shift \in BOOLEAN : \A key \in DOMAIN Steps :
        /\ NextPosition(p, key, shift) \in 0 .. Grid
        /\ p \in Coarse .. Grid - Coarse =>
             NextPosition(NextPosition(p, "ArrowRight", shift), "ArrowLeft", shift) = p

\* The position of an instant is where that instant was found.
ASSUME PositionsRoundTrip ==
    \A night \in SomeNights : \A p \in SomePositions : PositionOf(night, InstantAt(night, p)) = p
=============================================================================
