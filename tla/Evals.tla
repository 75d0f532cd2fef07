------------------------------- MODULE Evals -------------------------------
(***************************************************************************)
(* The measurement of the brain (evals/): prompts are loaded and chosen, a *)
(* baseline pins what it will be graded under, a scoring generates and     *)
(* grades one sample at a time, and two runs are compared or refused.      *)
(*                                                                         *)
(* Every command is a process of its own: it reads the configuration, the  *)
(* rubric and the brain when it starts, and anything may be edited before  *)
(* the next one.  A score is left out: what matters is what produced it.   *)
(***************************************************************************)
EXTENDS Naturals, Sequences, FiniteSets

CONSTANTS
    Prompts,      \* the candidates, 1 .. n in the order of their slugs
    Samples,      \* values of --samples
    Scorers,      \* scoring processes
    Completions,  \* what a judge may write
    MaxRuns,      \* bound: baselines recorded
    MaxSynthetic, \* bound: those of a synthetic deployment
    MaxEdits,     \* bound: edits of what a command reads
    MaxMishaps    \* bound: kills, samples that fail

ASSUME EvalConstants ==
    /\ IsFiniteSet(Prompts) /\ Prompts = 1 .. Cardinality(Prompts)
    /\ Samples \subseteq Nat \ {0}
    /\ {MaxRuns, MaxSynthetic, MaxEdits, MaxMishaps} \subseteq Nat

VARIABLES
    disk,     \* what a command reads: the rubric, the served model, the role's
              \* prompt, the judge's instruction, the brain's head (0: no commit)
    loaded, active,  \* prompts of table eval_prompts
    runs,     \* eval_runs, in the order they were recorded
    results,  \* eval_results, each with what produced it
    job,      \* the scorings under way
    edits, mishaps

vars == <<disk, loaded, active, runs, results, job, edits, mishaps>>

\* A run that has inputs and no scores: the absence of a judge is the state.
Awaiting == 0
NoJob == [at |-> "idle"]

\* The name a judge reports is the model's; its version carries the hash of the
\* instruction it asks with.
Judge(from) == [name |-> from.model, version |-> from.ask]

Init ==
    /\ \E head \in {0, 1} : disk = [rubric |-> 1, model |-> 1, role |-> 1, ask |-> 1, brain |-> head]
    /\ loaded = {} /\ active = {}
    /\ runs = <<>>
    /\ results = {}
    /\ job = [s \in Scorers |-> NoJob]
    /\ edits = 0 /\ mishaps = 0

-----------------------------------------------------------------------------
(* The prompts and the baseline.                                           *)

\* Candidates arrive inactive; those there already are left as they are.
LoadCandidates(n) ==
    /\ ~(1 .. n \subseteq loaded)
    /\ loaded' = loaded \cup 1 .. n
    /\ UNCHANGED <<disk, active, runs, results, job, edits, mishaps>>

\* Mutant: who chooses again chooses instead.
ChosenInstead(slugs) == slugs \cap loaded

\* Marks prompts active: nothing marks one inactive.
Chosen(slugs) == active \cup (slugs \cap loaded)

Activate(slugs) ==
    /\ ~(slugs \cap loaded \subseteq active)
    /\ active' = Chosen(slugs)
    /\ UNCHANGED <<disk, loaded, runs, results, job, edits, mishaps>>

\* Which rubric and which brain, but not which prompts.
RecordBaseline(synthetic) ==
    /\ Len(runs) < MaxRuns
    /\ synthetic => Cardinality({r \in DOMAIN runs : runs[r].synthetic}) < MaxSynthetic
    /\ active # {} /\ disk.brain # 0
    /\ runs' = Append(runs, [rubric |-> disk.rubric, brain |-> disk.brain,
                             judge |-> Awaiting, version |-> 0, synthetic |-> synthetic])
    /\ UNCHANGED <<disk, loaded, active, results, job, edits, mishaps>>

-----------------------------------------------------------------------------
(* Scoring.                                                                *)

\* Every active prompt, and every sample of it.
ActivePrompts(samples) == [prompt : active, sample : 0 .. samples - 1]

Before(a, b) == a.prompt < b.prompt \/ (a.prompt = b.prompt /\ a.sample < b.sample)

\* By slug, and then by sample: there is one such sequence.
Todo(samples) ==
    LET all == ActivePrompts(samples)
    IN {q \in [1 .. Cardinality(all) -> all] : \A j, k \in DOMAIN q : j < k => Before(q[j], q[k])}

\* A deployment scores the runs of its own kind only.
SameDeployment(r, synthetic) == runs[r].synthetic = synthetic

PinsTheRubric(r) == runs[r].rubric = disk.rubric

\* Mutant: the topic files as they are now.
WorkingTree(r) == disk.brain

\* The topic files of the commit the baseline pinned.
BrainAtBaseline(r) == runs[r].brain

\* Whichever run is named, scored before or not.
StartScore(s, r, samples, synthetic) ==
    /\ job[s] = NoJob
    /\ SameDeployment(r, synthetic)
    /\ PinsTheRubric(r)
    /\ \E todo \in Todo(samples) :
         job' = [job EXCEPT ![s] =
                   [at |-> "scoring", run |-> r, todo |-> todo, synthetic |-> synthetic,
                    from |-> [disk EXCEPT !.brain = BrainAtBaseline(r)]]]
    /\ UNCHANGED <<disk, loaded, active, runs, results, edits, mishaps>>

\* Read as scores: complete, and one of its objects a set of scores, the last
\* that is.
Parses(object) == object = "scores"

Readable(completion) ==
    /\ completion.stopped
    /\ \E k \in DOMAIN completion.objects : Parses(completion.objects[k])

Scoring(s) == job[s].at = "scoring" /\ job[s].todo # <<>>

Taken(s) ==
    \E old \in results :
        /\ old.run = job[s].run
        /\ old.prompt = Head(job[s].todo).prompt /\ old.sample = Head(job[s].todo).sample

Result(s) ==
    [run |-> job[s].run, prompt |-> Head(job[s].todo).prompt, sample |-> Head(job[s].todo).sample,
     from |-> job[s].from, synthetic |-> job[s].synthetic]

\* Mutant: a later score replaces an earlier one.
Replaced(s) ==
    {old \in results : ~(old.run = Result(s).run /\ old.prompt = Result(s).prompt
                         /\ old.sample = Result(s).sample)} \cup {Result(s)}

\* The row is unique by run, prompt and sample.
Stored(s) == IF Taken(s) THEN results ELSE results \cup {Result(s)}

\* A second row for a sample is refused, and nothing catches that: the scoring
\* ends where it is, and the run keeps the judge it had.
Sample(s, completion) ==
    /\ Scoring(s) /\ Readable(completion)
    /\ results' = Stored(s)
    /\ job' = [job EXCEPT ![s] = IF Taken(s) THEN NoJob
                                    ELSE [job[s] EXCEPT !.todo = Tail(@)]]
    /\ UNCHANGED <<disk, loaded, active, runs, edits, mishaps>>

\* The model does not answer, or the judge writes nothing that is a set of
\* scores: a failure, no row, and on to the next.
SampleFails(s, completion) ==
    /\ Scoring(s) /\ ~Readable(completion) /\ mishaps < MaxMishaps
    /\ job' = [job EXCEPT ![s].todo = Tail(@)]
    /\ mishaps' = mishaps + 1
    /\ UNCHANGED <<disk, loaded, active, runs, results, edits>>

\* An answer with no text is taken for a generator that broke its contract: the
\* scoring ends where it is, for nothing catches that.
EmptyAnswer(s) ==
    /\ Scoring(s) /\ mishaps < MaxMishaps
    /\ job' = [job EXCEPT ![s] = NoJob]
    /\ mishaps' = mishaps + 1
    /\ UNCHANGED <<disk, loaded, active, runs, results, edits>>

FinishScore(s) ==
    /\ job[s].at = "scoring" /\ job[s].todo = <<>>
    /\ runs' = [runs EXCEPT ![job[s].run].judge = Judge(job[s].from).name,
                            ![job[s].run].version = Judge(job[s].from).version]
    /\ job' = [job EXCEPT ![s] = NoJob]
    /\ UNCHANGED <<disk, loaded, active, results, edits, mishaps>>

Kill(s) ==
    /\ job[s] # NoJob /\ mishaps < MaxMishaps
    /\ job' = [job EXCEPT ![s] = NoJob]
    /\ mishaps' = mishaps + 1
    /\ UNCHANGED <<disk, loaded, active, runs, results, edits>>

-----------------------------------------------------------------------------
(* Reading.                                                                *)

Under(r) == {x \in results : x.run = r}

\* Counted against the prompts active now and the --samples of this command.
Complete(r, samples) ==
    /\ runs[r].judge # Awaiting
    /\ Cardinality(Under(r)) = Cardinality(active) * samples

Generators(r) == {x.from.model : x \in Under(r)}
PromptVersions(r) == {x.from.role : x \in Under(r)}
Slugs(r) == {x.prompt : x \in Under(r)}

\* What is in the table is real or not by its run.
Real(r) == ~runs[r].synthetic

SameRubric(earlier, later) == runs[earlier].rubric = runs[later].rubric

\* Compared by the judge's name: its version is recorded and not read.
Comparable(earlier, later, samples) ==
    /\ Real(earlier) /\ Real(later)
    /\ \A r \in {earlier, later} : Under(r) # {} /\ Complete(r, samples)
    /\ SameRubric(earlier, later)
    /\ runs[earlier].judge = runs[later].judge
    /\ Generators(earlier) = Generators(later)
    /\ PromptVersions(earlier) = PromptVersions(later)
    /\ Slugs(earlier) = Slugs(later)
    /\ runs[earlier].brain # runs[later].brain

-----------------------------------------------------------------------------

\* An edit of a file or a setting, a model served anew, a sync of the brain.
Edit(field) ==
    /\ edits < MaxEdits
    /\ disk' = [disk EXCEPT ![field] = IF field = "brain" THEN @ + 1 ELSE 3 - @]
    /\ edits' = edits + 1
    /\ UNCHANGED <<loaded, active, runs, results, job, mishaps>>

ScoreStep(s) ==
    \/ \E r \in DOMAIN runs, samples \in Samples, synthetic \in BOOLEAN :
         StartScore(s, r, samples, synthetic)
    \/ \E completion \in Completions : Sample(s, completion) \/ SampleFails(s, completion)
    \/ EmptyAnswer(s)
    \/ FinishScore(s)
    \/ Kill(s)

\* Nobody gives a command: none of this has to happen.
Rest == (\A s \in Scorers : job[s] = NoJob) /\ UNCHANGED vars

\* The commands that write at once; a scoring takes its steps.
Command ==
    \/ \E n \in Prompts : LoadCandidates(n)
    \/ \E slugs \in SUBSET Prompts : Activate(slugs)
    \/ \E synthetic \in BOOLEAN : RecordBaseline(synthetic)

Next ==
    \/ Command
    \/ \E s \in Scorers : ScoreStep(s)
    \/ \E field \in DOMAIN disk : Edit(field)
    \/ Rest

Spec == Init /\ [][Next]_vars

-----------------------------------------------------------------------------

DiskMemory ==
    [rubric : 1 .. 2, model : 1 .. 2, role : 1 .. 2, ask : 1 .. 2, brain : Nat]

RunMemory ==
    [rubric : 1 .. 2, brain : Nat \ {0}, judge : 0 .. 2, version : 0 .. 2, synthetic : BOOLEAN]

\* What a command reads and what it records hold values of their types.
TypeOK ==
    /\ disk \in DiskMemory
    /\ runs \in Seq(RunMemory) /\ Len(runs) <= MaxRuns
    /\ active \subseteq loaded /\ loaded \subseteq Prompts
    /\ \A x \in results : x.run \in DOMAIN runs /\ x.from \in DiskMemory
    /\ edits \in 0 .. MaxEdits /\ mishaps \in 0 .. MaxMishaps

\* What of a run's prompts and samples has a score.
Answered(r) == {[prompt |-> x.prompt, sample |-> x.sample] : x \in Under(r)}

\* Two runs that may be compared pair up: each has a score of every prompt that
\* is active and every sample of it, generated from the brain its run pinned and
\* graded by the rubric both did.  `summarize` only counts a run's rows against
\* the prompts active now, and the curve only compares the two sets of slugs:
\* failed samples, kills, prompts activated in between and two scorings of one
\* run must not make the count come out with a sample missing.  Of one value of
\* --samples; of two it does not hold (README, section 6).
ComparedPairsUp ==
    \A earlier, later \in DOMAIN runs, samples \in Samples :
        Comparable(earlier, later, samples) =>
            /\ Answered(earlier) = ActivePrompts(samples)
            /\ Answered(later) = ActivePrompts(samples)
            /\ \A x \in Under(earlier) : x.from.brain = runs[earlier].brain
            /\ \A x \in Under(later) : x.from.brain = runs[later].brain
            /\ \A x \in Under(earlier), y \in Under(later) : x.from.rubric = y.from.rubric

\* A sample is scored once: no later scoring, of whatever process, replaces or
\* removes one, and no two rows stand for the same sample.
AScoreStands ==
    [][/\ results \subseteq results'
       /\ \A x, y \in results' :
            x.run = y.run /\ x.prompt = y.prompt /\ x.sample = y.sample => x = y]_vars

\* "The two runs' outputs were produced by different models" is refused (evals
\* spec): each prompt's two answers are one model's.  This does not hold, for
\* the models of a run are compared as a set (README, section 6).
OneGenerator ==
    \A earlier, later \in DOMAIN runs, samples \in Samples :
        Comparable(earlier, later, samples) =>
            \A x \in Under(earlier), y \in Under(later) :
                x.prompt = y.prompt => x.from.model = y.from.model

\* Two judges are two instruments: what is compared was graded by one model
\* under one instruction.  This does not hold (README, section 6).
OneInstrument ==
    \A earlier, later \in DOMAIN runs, samples \in Samples :
        Comparable(earlier, later, samples) =>
            Cardinality({Judge(x.from) : x \in Under(earlier) \cup Under(later)}) = 1
=============================================================================
