------------------------------ MODULE StageWalk ------------------------------
(***************************************************************************)
(* One run of one idea: the walk over the six stages that NightLoop shows  *)
(* as a single interval (night/run.py, night/stages.py, night/output.py,   *)
(* artifacts/store.py, artifacts/variants.py), a kill in the middle of it, *)
(* and the recovery that closes what it left (night/recovery.py).          *)
(*                                                                         *)
(* Rows (run_stages, artifacts, runs) and files outlive a kill; `result`   *)
(* and `walk` are the process's memory and do not.  Every action is one    *)
(* statement, one file write or one call of a provider.  Timeline events,  *)
(* which never fail a stage (night/events.py), the text a stage hands to   *)
(* the next, and the commit distill makes in the brain are left out.       *)
(***************************************************************************)
EXTENDS Naturals, Sequences, FiniteSets, SequencesExt

CONSTANTS
    Variants,     \* how many variants a fan-out may have: 0 .. n-1
    MaxCrashes,   \* how many times the process is killed
    MaxFaults     \* how many statements raise

ASSUME WalkConstants ==
    /\ Variants \in Nat \ {0}
    /\ MaxCrashes \in Nat
    /\ MaxFaults \in Nat

VARIABLES
    stage,     \* run_stages.status, "absent" before the insert
    files,     \* the files on disk, as <<stage, variant index>>
    rows,      \* the artifacts table, likewise
    rank,      \* artifacts.variant_rank of the build group, 0 for null
    run,       \* the run's outcome and furthest_stage, "none" for null
    result,    \* in memory: what each stage came to
    walk,      \* in memory: where the walk is
    mishaps

vars == <<stage, files, rows, rank, run, result, walk, mishaps>>

STAGES == <<"brief", "research", "mockups", "build", "critique", "distill">>
Stages == {STAGES[i] : i \in 1..6}

\* The kinds that fan out; every other stage writes one file, at index 0.
FansOut(s) == s \in {"mockups", "build"}
Indices(s) == IF FansOut(s) THEN 0..(Variants - 1) ELSE {0}

\* What each stage needs to have completed (STAGES in night/stages.py).
CanRun(s, done) ==
    CASE s = "brief"    -> TRUE
      [] s = "critique" -> "build" \in done
      [] s = "distill"  -> done # {}
      [] OTHER          -> "brief" \in done

Done == {s \in Stages : result[s] = "complete"}

Landed(s) == {v \in Indices(s) : <<s, v>> \in rows}

\* Mutant: a run that reached its last stage is complete.
OutcomeOfTheLast(done) ==
    IF done = {} THEN "failed"
    ELSE IF "distill" \in done THEN "complete" ELSE "degraded"

\* _outcome_for and `furthest`, from the results in memory.
OutcomeOf(done) ==
    IF done = {} THEN "failed"
    ELSE IF done = Stages THEN "complete" ELSE "degraded"

FurthestOf(done) ==
    IF done = {} THEN "none"
    ELSE STAGES[CHOOSE i \in 1..6 :
                  /\ STAGES[i] \in done
                  /\ \A j \in (i+1)..6 : STAGES[j] \notin done]

\* No process has the run any more: its own walk closed it ("done"), or the
\* process was killed, or could not close it ("gone").
Over(pc) == [pc |-> pc, at |-> 7, todo |-> {}, order |-> <<>>]

Init ==
    /\ stage = [s \in Stages |-> "absent"]
    /\ files = {}
    /\ rows = {}
    /\ rank = [v \in 0..(Variants - 1) |-> 0]
    /\ run = [outcome |-> "open", furthest |-> "none"]
    /\ result = [s \in Stages |-> "none"]
    /\ walk = [pc |-> "next", at |-> 1, todo |-> {}, order |-> <<>>]
    /\ mishaps = [crash |-> 0, fault |-> 0]

-----------------------------------------------------------------------------
(* Operations on the rows.                                                 *)

Here == STAGES[walk.at]

At(pc) == walk.pc = pc /\ walk.at <= 6

InsertRunStage(s, status) ==
    /\ stage[s] = "absent"
    /\ stage' = [stage EXCEPT ![s] = status]

\* The row that names a file, which is written before it.
InsertArtifactRow(s, v) == rows' = rows \cup {<<s, v>>}

\* Every close refuses a stage that already has an end time.
CloseStage(s, status) ==
    /\ stage[s] = "running"
    /\ stage' = [stage EXCEPT ![s] = status]

\* The stage returned this result; the walk goes to the next one.
Return(s, status) ==
    /\ result' = [result EXCEPT ![s] = status]
    /\ walk' = [walk EXCEPT !.pc = "next", !.at = @ + 1, !.todo = {}]

-----------------------------------------------------------------------------
(* The walk.                                                               *)

InsertStage ==
    /\ At("next")
    /\ InsertRunStage(Here, "running")
    /\ walk' = [walk EXCEPT !.pc = IF CanRun(Here, Done) THEN "turn" ELSE "blocked"]
    /\ UNCHANGED <<files, rows, rank, run, result, mishaps>>

\* A blocked stage is inserted `running` and closed by a second statement.
CloseBlocked ==
    /\ At("blocked")
    /\ CloseStage(Here, "skipped")
    /\ Return(Here, "skipped")
    /\ UNCHANGED <<files, rows, rank, run, mishaps>>

\* local-only, no credential, or nothing left to search for after redaction.
ResearchSkips ==
    /\ At("turn")
    /\ Here = "research"
    /\ CloseStage(Here, "skipped")
    /\ Return(Here, "skipped")
    /\ UNCHANGED <<files, rows, rank, run, mishaps>>

\* The search or the model call raised; recorded, and the walk goes on.
TurnFails ==
    /\ At("turn")
    /\ CloseStage(Here, "failed")
    /\ Return(Here, "failed")
    /\ UNCHANGED <<files, rows, rank, run, mishaps>>

\* The turn, or the search, came back with one body per variant it proposed.
TurnReturns(k) ==
    /\ At("turn")
    /\ k \in 1..Cardinality(Indices(Here))
    /\ walk' = [walk EXCEPT !.pc = "file", !.todo = 0..(k - 1)]
    /\ UNCHANGED <<stage, files, rows, rank, run, result, mishaps>>

NextIndex == CHOOSE v \in walk.todo : \A w \in walk.todo : v <= w

WriteFile ==
    /\ At("file")
    /\ walk.todo # {}
    /\ files' = files \cup {<<Here, NextIndex>>}
    /\ walk' = [walk EXCEPT !.pc = "row"]
    /\ UNCHANGED <<stage, rows, rank, run, result, mishaps>>

InsertArtifact ==
    /\ At("row")
    /\ InsertArtifactRow(Here, NextIndex)
    /\ walk' = [walk EXCEPT !.pc = "file", !.todo = @ \ {NextIndex}]
    /\ UNCHANGED <<stage, files, rank, run, result, mishaps>>

\* ArtifactWriteFailed: one variant of a fan-out is passed over.  For a stage
\* of one file this leaves nothing landed, which OutputMissing then reports.
WriteFileFails ==
    /\ At("file")
    /\ walk.todo # {}
    /\ walk' = [walk EXCEPT !.todo = @ \ {NextIndex}]
    /\ UNCHANGED <<stage, files, rows, rank, run, result, mishaps>>

\* Mutant: a stage whose every write failed completes.
LandedOrNot(s) == TRUE

\* Does write_output return, rather than raise for having landed nothing?
OutputLanded(s) == Landed(s) # {}

OutputMissing ==
    /\ At("file")
    /\ walk.todo = {}
    /\ ~OutputLanded(Here)
    /\ CloseStage(Here, "failed")
    /\ Return(Here, "failed")
    /\ UNCHANGED <<files, rows, rank, run, mishaps>>

\* The stage closes once its output has landed; a critique then ranks.
CompleteStage ==
    /\ At("file")
    /\ walk.todo = {}
    /\ OutputLanded(Here)
    /\ CloseStage(Here, "complete")
    /\ result' = [result EXCEPT ![Here] = "complete"]
    /\ walk' = IF Here = "critique" THEN [walk EXCEPT !.pc = "rank"]
               ELSE [walk EXCEPT !.pc = "next", !.at = @ + 1]
    /\ UNCHANGED <<files, rows, rank, run, mishaps>>

\* Mutant: an ordering that names some of the group.
CoversSome(order) == ToSet(order) \subseteq Landed("build")

\* rank_group applies an ordering only if it names every variant of the group.
\* An ordering that names one twice is refused too, and is left out here.
Covers(order) == ToSet(order) = Landed("build")

ReadOrdering(order) ==
    /\ At("rank")
    /\ walk' = IF Covers(order)
               THEN [walk EXCEPT !.pc = "ranking", !.order = order]
               ELSE [walk EXCEPT !.pc = "next", !.at = @ + 1]
    /\ UNCHANGED <<stage, files, rows, rank, run, result, mishaps>>

\* Best first: the rank is the position in the ordering.
RankOne ==
    /\ At("ranking")
    /\ walk.order # <<>>
    /\ rank' = [rank EXCEPT ![Head(walk.order)] =
                  Cardinality(Landed("build")) - Len(walk.order) + 1]
    /\ walk' = [walk EXCEPT !.order = Tail(@)]
    /\ UNCHANGED <<stage, files, rows, run, result, mishaps>>

RankingDone ==
    /\ At("ranking")
    /\ walk.order = <<>>
    /\ walk' = [walk EXCEPT !.pc = "next", !.at = @ + 1]
    /\ UNCHANGED <<stage, files, rows, rank, run, result, mishaps>>

\* run_entry's `finally`: the walk reached its end, or an exception ended it.
Closing == walk.pc = "close" \/ (walk.pc = "next" /\ walk.at = 7)

CloseRun ==
    /\ Closing
    /\ run' = [outcome |-> OutcomeOf(Done), furthest |-> FurthestOf(Done)]
    /\ walk' = Over("done")
    /\ UNCHANGED <<stage, files, rows, rank, result, mishaps>>

-----------------------------------------------------------------------------
(* What goes wrong.                                                        *)

Crash ==
    /\ walk.pc \notin {"done", "gone"}
    /\ mishaps.crash < MaxCrashes
    /\ mishaps' = [mishaps EXCEPT !.crash = @ + 1]
    /\ walk' = Over("gone")
    /\ result' = [s \in Stages |-> "none"]
    /\ UNCHANGED <<stage, files, rows, rank, run>>

Fault ==
    /\ mishaps.fault < MaxFaults
    /\ mishaps' = [mishaps EXCEPT !.fault = @ + 1]

\* insert_artifact raises: _run_stage catches it, and what landed stays.
InsertArtifactFails ==
    /\ At("row")
    /\ Fault
    /\ CloseStage(Here, "failed")
    /\ Return(Here, "failed")
    /\ UNCHANGED <<files, rows, rank, run>>

\* insert_run_stage, complete_run_stage, write_to_brain (it catches only two
\* kinds of error), the SELECT of a group or an UPDATE of a rank raises: it escapes _run_stage or
\* _rank_the_builds, and run_entry closes the run on the way out.
WalkRaises ==
    /\ \E pc \in {"next", "turn", "blocked", "file", "rank", "ranking"} : At(pc)
    /\ Fault
    /\ walk' = [walk EXCEPT !.pc = "close"]
    /\ UNCHANGED <<stage, files, rows, rank, run, result>>

CloseRunFails ==
    /\ Closing
    /\ Fault
    /\ walk' = Over("gone")
    /\ UNCHANGED <<stage, files, rows, rank, run, result>>

-----------------------------------------------------------------------------
(* Recovery, by the next night: open stages of an open run, then the run.  *)

OpenStages == {s \in Stages : stage[s] = "running"}

\* Mutant: recovery looks for runs through their open stages.
InterruptedInAStage == run.outcome = "open" /\ OpenStages # {}

IsInterrupted == run.outcome = "open"

\* Mutant: recovery closes every stage of the run with an UPDATE of its own.
RecoverAnyStage(s) ==
    /\ walk.pc = "gone"
    /\ IsInterrupted
    /\ stage[s] \notin {"absent", "failed"}
    /\ stage' = [stage EXCEPT ![s] = "failed"]
    /\ UNCHANGED <<files, rows, rank, run, result, walk, mishaps>>

RecoverStage(s) ==
    /\ walk.pc = "gone"
    /\ IsInterrupted
    /\ s \in OpenStages
    /\ CloseStage(s, "failed")
    /\ UNCHANGED <<files, rows, rank, run, result, walk, mishaps>>

RecoverRun ==
    /\ walk.pc = "gone"
    /\ IsInterrupted
    /\ OpenStages = {}
    /\ run' = [run EXCEPT !.outcome = "failed"]
    /\ UNCHANGED <<stage, files, rows, rank, result, walk, mishaps>>

-----------------------------------------------------------------------------

Orderings == UNION {SetToSeqs(S) : S \in SUBSET (0..(Variants - 1))}

WalkStep ==
    \/ InsertStage \/ CloseBlocked \/ ResearchSkips \/ TurnFails
    \/ \E k \in 1..Variants : TurnReturns(k)
    \/ WriteFile \/ InsertArtifact \/ WriteFileFails
    \/ OutputMissing \/ CompleteStage
    \/ \E order \in Orderings : ReadOrdering(order)
    \/ RankOne \/ RankingDone
    \/ CloseRun

Recovery == RecoverRun \/ \E s \in Stages : RecoverStage(s)

Mishap == Crash \/ InsertArtifactFails \/ WalkRaises \/ CloseRunFails

\* A closed run stops here; the night goes on to its next entry.
Finished == run.outcome # "open" /\ UNCHANGED vars

Next == WalkStep \/ Recovery \/ Mishap \/ Finished

\* A walk that is not killed goes on (every provider call has a timeout), and
\* another night comes (deploy/spark/second-shift-night.timer).
Spec == Init /\ [][Next]_vars

FairSpec == Spec /\ WF_vars(WalkStep) /\ WF_vars(Recovery)

-----------------------------------------------------------------------------
(* What a run promises.                                                    *)

ArtifactKeys == {k \in Stages \X (0..(Variants - 1)) : k[2] \in Indices(k[1])}

WalkMemory == [pc : {"next", "blocked", "turn", "file", "row", "rank", "ranking",
                     "close", "done", "gone"},
               at : 1..7, todo : SUBSET (0..(Variants - 1)),
               order : Seq(0..(Variants - 1))]

StageStatuses == {"absent", "running", "complete", "failed", "skipped"}

TypeOK ==
    /\ stage \in [Stages -> StageStatuses]
    /\ files \subseteq ArtifactKeys
    /\ rows \subseteq ArtifactKeys
    /\ rank \in [0..(Variants - 1) -> 0..Variants]
    /\ run \in [outcome : {"open", "complete", "degraded", "failed"},
               furthest : Stages \cup {"none"}]
    /\ result \in [Stages -> {"none", "complete", "failed", "skipped"}]
    /\ walk \in WalkMemory
    /\ mishaps \in [crash : 0..MaxCrashes, fault : 0..MaxFaults]

CompleteStages == {s \in Stages : stage[s] = "complete"}

\* A stage recorded `complete` has something the morning can open, and every
\* artifact recorded has its file, whenever the process is killed (run.py,
\* "The artifact lands before the stage closes"); and a stage that landed
\* anything had its inputs: they had completed, not only been attempted
\* (night/stages.py, Stage.can_run).
CompleteMeansLanded ==
    /\ \A s \in CompleteStages : Landed(s) # {}
    /\ rows \subseteq files
    /\ \A s \in Stages : Landed(s) # {} => CanRun(s, CompleteStages \ {s})

\* What a run finished is kept: no kill, exception or recovery takes back a
\* completed stage or an artifact (recovery.py, "a stage that completed before
\* the kill already has its own end time and keeps it").
FinishedWorkIsKept ==
    [][/\ CompleteStages \subseteq {s \in Stages : stage'[s] = "complete"}
       /\ rows \subseteq rows']_vars

\* A run closed by its own walk says what its stages say: `complete` when all
\* six rows do, `failed` when none does, and the furthest is the last that
\* completed (run.py, _outcome_for) -- also when an exception cut it short.
ClosedRunDescribesItsStages ==
    walk.pc = "done" =>
        /\ run.outcome = "complete" <=> CompleteStages = Stages
        /\ run.outcome = "failed" <=> CompleteStages = {}
        /\ \A i \in 1..6 : STAGES[i] \in CompleteStages =>
              \E j \in i..6 : STAGES[j] = run.furthest
        /\ run.furthest \in CompleteStages \cup {"none"}

\* At every moment, after kills and exceptions too, the builds that have a rank are
\* the first of one ordering: 1, 2, ... without a gap, each once, only of builds
\* that landed, by a critic whose turn completed; and a walk that has gone on to
\* distil left the group unranked or ranked as a whole: "all or nothing"
\* (variants.py, rank_group).
RankedAsAWhole ==
    LET ranked == {v \in DOMAIN rank : rank[v] # 0}
    IN  /\ ranked \subseteq Landed("build")
        /\ {rank[v] : v \in ranked} = 1..Cardinality(ranked)
        /\ ranked # {} => stage["critique"] = "complete"
        /\ stage["distill"] # "absent" => ranked \in {{}, Landed("build")}

\* A run that was interrupted anywhere, even between two stages, is closed in
\* the end, and none of its stages is left open (recovery.py).
EveryRunEnds ==
    <>[](run.outcome # "open" /\ (walk.pc = "gone" => OpenStages = {}))

\* No stage outlives its run: no error on a stage's write path leaves its row
\* `running` (openspec/specs/night-pipeline/spec.md).
NoStageOutlivesItsRun == run.outcome # "open" => OpenStages = {}

\* A closed run's group is never ranked in part: rank_group is "all or nothing"
\* (variants.py).  It does not hold: a kill or an exception between two UPDATEs
\* leaves a part (README, section 6).
NeverPartlyRanked ==
    LET ranked == {v \in DOMAIN rank : rank[v] # 0}
    IN  run.outcome # "open" => ranked \in {{}, Landed("build")}
=============================================================================
