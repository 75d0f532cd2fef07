----------------------------- MODULE OperatorProofs -----------------------------
(***************************************************************************)
(* Theorems about what the operator runs by command: Evals and, under      *)
(* names with the prefix Ops, Backup.  They hold for any candidates and    *)
(* scorings at once, any pieces, destinations and migrations, and any      *)
(* number of mishaps.                                                      *)
(*                                                                         *)
(* Of Evals: a score stands, and two runs that are compared pair up.  The  *)
(* argument is provenance and counting: a scoring, and so every row it     *)
(* stores, was made under what its run had pinned, which never changes;    *)
(* and a row is of a sample of its own of a prompt that stays active, so   *)
(* that as many rows as may be asked are all of them.                      *)
(*                                                                         *)
(* Of Backup: a copy that may be restored is whole, and a restore that     *)
(* says it is done is that copy.  The argument is order: the rows are      *)
(* copied before the trees, and files are only ever added meanwhile; the   *)
(* log goes before the database is opened; and nobody writes while a       *)
(* restore does.                                                           *)
(***************************************************************************)
EXTENDS Evals, Backup, FiniteSetTheorems, SequenceTheorems, TLAPS

-----------------------------------------------------------------------------
(* Scores and comparisons.                                                 *)

\* What something was made under, and by which kind of deployment, is what its
\* run, one of `recorded`, pinned.
Pinned(made, recorded) ==
    /\ made.run \in DOMAIN recorded
    /\ made.from \in DiskMemory
    /\ made.from.rubric = recorded[made.run].rubric
    /\ made.from.brain = recorded[made.run].brain
    /\ made.synthetic = recorded[made.run].synthetic

\* Nothing a run of `before` has pinned is another in `after`.
KeepsPins(before, after) ==
    \A r \in DOMAIN before :
        /\ r \in DOMAIN after
        /\ after[r].rubric = before[r].rubric
        /\ after[r].brain = before[r].brain
        /\ after[r].synthetic = before[r].synthetic

OneRowEach ==
    \A x, y \in results :
        x.run = y.run /\ x.prompt = y.prompt /\ x.sample = y.sample => x = y

EvalsInv ==
    /\ TypeOK
    /\ job = [s \in Scorers |-> job[s]]
    /\ \A s \in Scorers : job[s] # NoJob => job[s].at = "scoring" /\ Pinned(job[s], runs)
    /\ \A x \in results : Pinned(x, runs)
    /\ OneRowEach

\* A prompt that is loaded is a candidate; an interval of them is, too.
LEMMA CandidatesAreNumbered ==
    ASSUME NEW n \in Prompts
    PROVE  1 .. n \subseteq Prompts
<1>1. Cardinality(Prompts) \in Nat /\ Prompts = 1 .. Cardinality(Prompts)
  BY EvalConstants, FS_CardinalityType
<1> QED
  BY <1>1

\* The initial state satisfies the invariant.
LEMMA EvalsInit == Init => EvalsInv
BY EvalConstants DEF Init, EvalsInv, TypeOK, DiskMemory, RunMemory, OneRowEach, NoJob, Pinned

\* A step that leaves what the runs pinned as it was keeps the invariant, if
\* the scorings and the rows it adds are pinned too.
LEMMA PinsStay ==
    ASSUME TypeOK', OneRowEach', KeepsPins(runs, runs'),
           job' = [s \in Scorers |-> job'[s]],
           \A s \in Scorers : job'[s] # NoJob =>
               job'[s].at = "scoring" /\ Pinned(job'[s], runs),
           \A x \in results' : Pinned(x, runs)
    PROVE  EvalsInv'
BY DEF EvalsInv, Pinned, KeepsPins

\* Loading, choosing, editing and recording a baseline add a run at most.
LEMMA CommandSteps ==
    ASSUME EvalsInv,
           Command \/ \E field \in DOMAIN disk : Edit(field)
    PROVE  EvalsInv'
<1> USE EvalConstants
<1>1. TypeOK /\ runs \in Seq(RunMemory) /\ KeepsPins(runs, runs)
  BY DEF EvalsInv, TypeOK, KeepsPins
<1>2. UNCHANGED <<results, job>>
  BY DEF Command, LoadCandidates, Activate, RecordBaseline, Edit
<1>3. OneRowEach' /\ job' = [s \in Scorers |-> job'[s]]
  BY <1>2 DEF EvalsInv, OneRowEach
<1>4. /\ \A s \in Scorers : job'[s] # NoJob =>
             job'[s].at = "scoring" /\ Pinned(job'[s], runs)
      /\ \A x \in results' : Pinned(x, runs)
  BY <1>2 DEF EvalsInv
<1>5. ASSUME NEW n \in Prompts, LoadCandidates(n) PROVE EvalsInv'
  <2>1. TypeOK'
    BY <1>1, <1>5, CandidatesAreNumbered DEF LoadCandidates, TypeOK
  <2> QED
    BY <1>1, <1>3, <1>4, <1>5, <2>1, PinsStay DEF LoadCandidates
<1>6. ASSUME NEW slugs \in SUBSET Prompts, Activate(slugs) PROVE EvalsInv'
  <2>1. TypeOK'
    BY <1>1, <1>6 DEF Activate, Chosen, TypeOK
  <2> QED
    BY <1>1, <1>3, <1>4, <1>6, <2>1, PinsStay DEF Activate
<1>7. ASSUME NEW synthetic \in BOOLEAN, RecordBaseline(synthetic) PROVE EvalsInv'
  <2> DEFINE row == [rubric |-> disk.rubric, brain |-> disk.brain,
                     judge |-> Awaiting, version |-> 0, synthetic |-> synthetic]
  <2>1. runs' = Append(runs, row) /\ row \in RunMemory /\ Len(runs) < MaxRuns
    BY <1>1, <1>7 DEF RecordBaseline, TypeOK, DiskMemory, RunMemory, Awaiting
  <2> HIDE DEF row
  <2>2. /\ runs' \in Seq(RunMemory) /\ Len(runs') = Len(runs) + 1
        /\ \A r \in 1 .. Len(runs) : runs'[r] = runs[r]
    BY <1>1, <2>1
  <2>3. TypeOK'
    BY <1>1, <1>7, <2>1, <2>2 DEF RecordBaseline, TypeOK
  <2>4. KeepsPins(runs, runs')
    BY <1>1, <2>2 DEF KeepsPins
  <2> QED
    BY <1>3, <1>4, <2>3, <2>4, PinsStay
<1>8. ASSUME NEW field \in DOMAIN disk, Edit(field) PROVE EvalsInv'
  <2>1. TypeOK'
    <3>1. disk \in DiskMemory /\ field \in {"rubric", "model", "role", "ask", "brain"}
      BY <1>1 DEF TypeOK, DiskMemory
    <3>2. disk' \in DiskMemory
      <4>1. disk' = [disk EXCEPT ![field] = IF field = "brain" THEN disk[field] + 1 ELSE 3 - disk[field]]
        BY <1>8 DEF Edit
      <4> QED
        BY <3>1, <4>1 DEF DiskMemory
    <3> QED
      BY <1>1, <1>8, <3>2 DEF Edit, TypeOK
  <2> QED
    BY <1>1, <1>3, <1>4, <1>8, <2>1, PinsStay DEF Edit
<1> QED
  BY <1>5, <1>6, <1>7, <1>8 DEF Command

\* A scoring starts under what its run pinned, and keeps it to the end; no
\* statement of it touches what a run pinned.
LEMMA ScoreSteps ==
    ASSUME EvalsInv, NEW s \in Scorers, ScoreStep(s)
    PROVE  EvalsInv' /\ results \subseteq results'
<1> USE EvalConstants
<1>1. /\ TypeOK /\ runs \in Seq(RunMemory) /\ KeepsPins(runs, runs)
      /\ job = [t \in Scorers |-> job[t]] /\ OneRowEach
      /\ \A x \in results : Pinned(x, runs)
      /\ \A t \in Scorers : job[t] # NoJob => job[t].at = "scoring" /\ Pinned(job[t], runs)
  BY DEF EvalsInv, TypeOK, KeepsPins
<1>2. ASSUME NEW r \in DOMAIN runs, NEW samples \in Samples, NEW synthetic \in BOOLEAN,
             StartScore(s, r, samples, synthetic)
      PROVE  EvalsInv' /\ results \subseteq results'
  <2>0. PICK todo \in Todo(samples) :
           job' = [job EXCEPT ![s] =
                     [at |-> "scoring", run |-> r, todo |-> todo, synthetic |-> synthetic,
                      from |-> [disk EXCEPT !.brain = BrainAtBaseline(r)]]]
    BY <1>2 DEF StartScore
  <2> DEFINE from == [disk EXCEPT !.brain = BrainAtBaseline(r)]
             new == [at |-> "scoring", run |-> r, todo |-> todo,
                     synthetic |-> synthetic, from |-> from]
  <2>1. job' = [job EXCEPT ![s] = new] /\ UNCHANGED <<disk, loaded, active, runs, results, edits, mishaps>>
    BY <1>2, <2>0 DEF StartScore
  <2>2. from \in DiskMemory /\ from.rubric = disk.rubric /\ from.brain = runs[r].brain
    <3>1. runs[r] \in RunMemory /\ disk \in DiskMemory
      BY <1>1, <1>2 DEF TypeOK
    <3>2. runs[r].brain \in Nat
      BY <3>1 DEF RunMemory
    <3> QED
      BY <3>1, <3>2 DEF DiskMemory, BrainAtBaseline
  <2>3. disk.rubric = runs[r].rubric /\ runs[r].synthetic = synthetic
    BY <1>2 DEF StartScore, PinsTheRubric, SameDeployment
  <2> HIDE DEF from
  <2>4. new.at = "scoring" /\ Pinned(new, runs)
    BY <2>2, <2>3 DEF Pinned
  <2> HIDE DEF new
  <2>5. /\ job' = [t \in Scorers |-> job'[t]]
        /\ \A t \in Scorers : job'[t] = IF t = s THEN new ELSE job[t]
    BY <1>1, <2>1
  <2>6. TypeOK' /\ OneRowEach'
    BY <1>1, <2>1 DEF TypeOK, OneRowEach
  <2> QED
    BY <1>1, <2>1, <2>4, <2>5, <2>6, PinsStay
<1>3. ASSUME NEW completion \in Completions, Sample(s, completion)
      PROVE  EvalsInv' /\ results \subseteq results'
  <2>1. /\ job[s].at = "scoring" /\ job[s] # NoJob /\ Pinned(job[s], runs)
        /\ results' = Stored(s) /\ UNCHANGED <<disk, loaded, active, runs, edits, mishaps>>
    BY <1>1, <1>3 DEF Sample, Scoring, NoJob
  <2>2. ASSUME NEW t \in Scorers, job'[t] # NoJob
        PROVE  job'[t].at = "scoring" /\ Pinned(job'[t], runs)
    <3>1. CASE t # s
      BY <1>1, <1>3, <2>2, <3>1 DEF Sample
    <3>2. CASE t = s
      <4>1. job'[s] = [job[s] EXCEPT !.todo = Tail(job[s].todo)]
        BY <1>1, <1>3, <2>2, <3>2 DEF Sample
      <4>2. /\ job'[s].at = job[s].at /\ job'[s].run = job[s].run
            /\ job'[s].from = job[s].from /\ job'[s].synthetic = job[s].synthetic
        BY <4>1
      <4> QED
        BY <2>1, <3>2, <4>2 DEF Pinned
    <3> QED
      BY <3>1, <3>2
  <2>3. job' = [t \in Scorers |-> job'[t]]
    BY <1>1, <1>3 DEF Sample
  <2>4. Pinned(Result(s), runs)
    BY <2>1 DEF Pinned, Result
  <2>5. results \subseteq results' /\ \A x \in results' : Pinned(x, runs)
    BY <1>1, <2>1, <2>4 DEF Stored
  <2>6. OneRowEach'
    BY <1>1, <2>1 DEF OneRowEach, Stored, Taken, Result
  <2>7. TypeOK'
    BY <1>1, <2>1, <2>5 DEF TypeOK, Pinned
  <2> QED
    BY <1>1, <2>1, <2>2, <2>3, <2>5, <2>6, <2>7, PinsStay
<1>4. ASSUME NEW completion \in Completions, SampleFails(s, completion)
      PROVE  EvalsInv' /\ results \subseteq results'
  <2>1. /\ job' = [job EXCEPT ![s].todo = Tail(job[s].todo)] /\ job[s].at = "scoring"
        /\ UNCHANGED <<disk, loaded, active, runs, results, edits>>
        /\ mishaps' = mishaps + 1 /\ mishaps < MaxMishaps
    BY <1>4 DEF SampleFails, Scoring
  <2>2. /\ job'[s].at = job[s].at /\ job'[s].run = job[s].run
        /\ job'[s].from = job[s].from /\ job'[s].synthetic = job[s].synthetic
        /\ \A t \in Scorers \ {s} : job'[t] = job[t]
        /\ job' = [t \in Scorers |-> job'[t]]
    <3> DEFINE new == [job[s] EXCEPT !.todo = Tail(job[s].todo)]
    <3>1. job' = [job EXCEPT ![s] = new]
      BY <2>1
    <3>2. /\ new.at = job[s].at /\ new.run = job[s].run
          /\ new.from = job[s].from /\ new.synthetic = job[s].synthetic
      OBVIOUS
    <3> HIDE DEF new
    <3> QED
      BY <1>1, <3>1, <3>2
  <2>3. job[s] # NoJob
    BY <2>1 DEF NoJob
  <2>4. \A t \in Scorers : job'[t] # NoJob => job'[t].at = "scoring" /\ Pinned(job'[t], runs)
    BY <1>1, <2>2, <2>3 DEF Pinned
  <2>5. TypeOK' /\ OneRowEach'
    BY <1>1, <2>1 DEF TypeOK, OneRowEach
  <2> QED
    BY <1>1, <2>1, <2>2, <2>4, <2>5, PinsStay
<1>5. CASE FinishScore(s)
  <2> DEFINE r == job[s].run
             row == [runs[r] EXCEPT !.judge = Judge(job[s].from).name,
                                    !.version = Judge(job[s].from).version]
  <2>1. /\ job[s].at = "scoring" /\ Pinned(job[s], runs) /\ r \in DOMAIN runs
        /\ job' = [job EXCEPT ![s] = NoJob]
        /\ UNCHANGED <<disk, loaded, active, results, edits, mishaps>>
    BY <1>1, <1>5 DEF FinishScore, Pinned, NoJob
  <2>2. runs' = [runs EXCEPT ![r] = row]
    BY <1>1, <1>5, <2>1 DEF FinishScore, Judge
  <2>3. /\ row \in RunMemory /\ row.rubric = runs[r].rubric /\ row.brain = runs[r].brain
        /\ row.synthetic = runs[r].synthetic
    <3>1. runs[r] \in RunMemory /\ job[s].from \in DiskMemory
      BY <1>1, <2>1 DEF Pinned
    <3>2. Judge(job[s].from).name \in 0 .. 2 /\ Judge(job[s].from).version \in 0 .. 2
      BY <3>1 DEF Judge, DiskMemory
    <3> QED
      BY <3>1, <3>2 DEF RunMemory
  <2> HIDE DEF row, r
  <2>4. /\ runs' \in Seq(RunMemory) /\ Len(runs') = Len(runs) /\ DOMAIN runs' = DOMAIN runs
        /\ \A q \in DOMAIN runs : runs'[q] = IF q = r THEN row ELSE runs[q]
    BY <1>1, <2>1, <2>2, <2>3
  <2>5. KeepsPins(runs, runs')
    BY <2>3, <2>4 DEF KeepsPins
  <2>6. /\ job' = [t \in Scorers |-> job'[t]]
        /\ \A t \in Scorers : job'[t] = IF t = s THEN NoJob ELSE job[t]
    BY <1>1, <2>1
  <2>7. TypeOK' /\ OneRowEach'
    BY <1>1, <2>1, <2>4 DEF TypeOK, OneRowEach
  <2> QED
    BY <1>1, <2>1, <2>5, <2>6, <2>7, PinsStay
<1>6. CASE EmptyAnswer(s) \/ Kill(s)
  <2>1. /\ job' = [job EXCEPT ![s] = NoJob] /\ mishaps' = mishaps + 1 /\ mishaps < MaxMishaps
        /\ UNCHANGED <<disk, loaded, active, runs, results, edits>>
    BY <1>6 DEF EmptyAnswer, Kill
  <2>2. /\ job' = [t \in Scorers |-> job'[t]]
        /\ \A t \in Scorers : job'[t] = IF t = s THEN NoJob ELSE job[t]
    BY <1>1, <2>1
  <2>3. TypeOK' /\ OneRowEach'
    BY <1>1, <2>1 DEF TypeOK, OneRowEach
  <2> QED
    BY <1>1, <2>1, <2>2, <2>3, PinsStay
<1> QED
  BY <1>2, <1>3, <1>4, <1>5, <1>6 DEF ScoreStep

\* Every step of the measurement keeps the invariant, and every score.
LEMMA EvalsStep == EvalsInv /\ [Next]_vars => EvalsInv' /\ results \subseteq results'
<1> SUFFICES ASSUME EvalsInv, [Next]_vars PROVE EvalsInv' /\ results \subseteq results'
  OBVIOUS
<1>1. CASE Command \/ \E field \in DOMAIN disk : Edit(field)
  <2>1. results' = results
    BY <1>1 DEF Command, LoadCandidates, Activate, RecordBaseline, Edit
  <2> QED
    BY <1>1, <2>1, CommandSteps
<1>2. ASSUME NEW s \in Scorers, ScoreStep(s) PROVE EvalsInv' /\ results \subseteq results'
  BY <1>2, ScoreSteps
<1>3. CASE UNCHANGED vars
  BY <1>3 DEF vars, EvalsInv, TypeOK, OneRowEach
<1> QED
  BY <1>1, <1>2, <1>3 DEF Next, Rest

\* The invariant holds in every reachable state.
LEMMA EvalsInvariant == Spec => []EvalsInv
BY EvalsInit, EvalsStep, PTL DEF Spec

\* What a command reads and what it records hold values of their types.
THEOREM EvalsTypes == Spec => []TypeOK
<1>1. EvalsInv => TypeOK
  BY DEF EvalsInv
<1> QED
  BY <1>1, EvalsInvariant, PTL

\* What may be asked of the prompts in S, and a scoring that asks it.
Asks(S) == [prompt : S, sample : UNION {0 .. n - 1 : n \in Samples}]
Scorings(S) ==
    [at : {"scoring"}, run : DOMAIN runs, todo : Seq(Asks(S)), synthetic : BOOLEAN, from : DiskMemory]

\* What is scored, and what a scoring has yet to score, is a sample of a prompt
\* that is active, for good.
AskedInv ==
    /\ active \subseteq Prompts
    /\ \A s \in Scorers : job[s] # NoJob => job[s] \in Scorings(active)
    /\ \A x \in results : [prompt |-> x.prompt, sample |-> x.sample] \in Asks(active)

LEMMA AskedInit == Init => AskedInv
BY DEF Init, AskedInv

\* More prompts may be active and more runs recorded, and what was asked stays.
LEMMA AsksMore ==
    ASSUME active \subseteq active', active' \subseteq Prompts, DOMAIN runs \subseteq DOMAIN runs',
           \A s \in Scorers : job'[s] # NoJob => job'[s] \in Scorings(active),
           \A x \in results' : [prompt |-> x.prompt, sample |-> x.sample] \in Asks(active)
    PROVE  AskedInv'
<1>1. Asks(active) \subseteq Asks(active')
  BY DEF Asks
<1>2. \A q \in Seq(Asks(active)) : q \in Seq(Asks(active'))
  BY <1>1
<1>3. Asks(active)' = Asks(active')
  BY DEF Asks
<1> HIDE DEF Asks
<1>4. Scorings(active) \subseteq Scorings(active)'
  BY <1>2, <1>3 DEF Scorings
<1> HIDE DEF Scorings
<1> QED
  BY <1>1, <1>3, <1>4 DEF AskedInv

\* There are as many samples to score as prompts times samples.
LEMMA AskedSamples ==
    ASSUME active \subseteq Prompts, NEW samples \in Samples
    PROVE  /\ IsFiniteSet(ActivePrompts(samples))
           /\ Cardinality(ActivePrompts(samples)) = Cardinality(active) * samples
<1> DEFINE pairs == active \X (0 .. samples - 1)
           f == [p \in pairs |-> [prompt |-> p[1], sample |-> p[2]]]
<1>1. samples \in Nat /\ samples > 0
  BY EvalConstants
<1>2. IsFiniteSet(active)
  BY EvalConstants, FS_Subset
<1>3. IsFiniteSet(0 .. samples - 1) /\ Cardinality(0 .. samples - 1) = samples
  BY <1>1, FS_Interval
<1>4. IsFiniteSet(pairs) /\ Cardinality(pairs) = Cardinality(active) * samples
  BY <1>2, <1>3, FS_Product
<1>5. f \in Bijection(pairs, ActivePrompts(samples))
  <2>1. f \in [pairs -> ActivePrompts(samples)]
    BY DEF ActivePrompts
  <2>2. \A p, q \in pairs : f[p] = f[q] => p = q
    <3> SUFFICES ASSUME NEW p \in pairs, NEW q \in pairs, f[p] = f[q] PROVE p = q
      OBVIOUS
    <3>1. f[p].prompt = p[1] /\ f[p].sample = p[2] /\ f[q].prompt = q[1] /\ f[q].sample = q[2]
      OBVIOUS
    <3> QED
      BY <3>1
  <2>3. \A a \in ActivePrompts(samples) : \E p \in pairs : f[p] = a
    <3> SUFFICES ASSUME NEW a \in ActivePrompts(samples) PROVE \E p \in pairs : f[p] = a
      OBVIOUS
    <3>1. <<a.prompt, a.sample>> \in pairs /\ f[<<a.prompt, a.sample>>] = a
      BY DEF ActivePrompts
    <3> QED
      BY <3>1
  <2> HIDE DEF f, pairs
  <2> QED
    BY <2>1, <2>2, <2>3 DEF Bijection, Injection, IsInjective, Surjection
<1> HIDE DEF f, pairs
<1>6. ExistsBijection(pairs, ActivePrompts(samples))
  BY <1>5 DEF ExistsBijection
<1> QED
  BY <1>4, <1>6, FS_Bijection

\* A scoring sets out to score samples of active prompts.
LEMMA TodoIsAsked ==
    ASSUME active \subseteq Prompts, NEW samples \in Samples, NEW todo \in Todo(samples)
    PROVE  todo \in Seq(Asks(active))
<1> DEFINE all == ActivePrompts(samples)
<1>1. all \subseteq Asks(active) /\ todo \in [1 .. Cardinality(all) -> all]
  BY DEF Asks, ActivePrompts, Todo
<1>2. Cardinality(all) \in Nat
  BY AskedSamples, FS_CardinalityType
<1> HIDE DEF all
<1>3. todo \in Seq(all)
  BY <1>1, <1>2, SeqDef
<1> QED
  BY <1>1, <1>3

LEMMA AskedStep == EvalsInv /\ AskedInv /\ [Next]_vars => AskedInv'
<1> SUFFICES ASSUME EvalsInv, AskedInv, [Next]_vars PROVE AskedInv'
  OBVIOUS
<1>1. /\ loaded \subseteq Prompts /\ active \subseteq loaded /\ disk \in DiskMemory
      /\ job = [s \in Scorers |-> job[s]] /\ runs \in Seq(RunMemory)
  BY DEF EvalsInv, TypeOK
<1>2. /\ active \subseteq Prompts
      /\ \A s \in Scorers : job[s] # NoJob => job[s] \in Scorings(active)
      /\ \A x \in results : [prompt |-> x.prompt, sample |-> x.sample] \in Asks(active)
  BY DEF AskedInv
<1>3. CASE (\E field \in DOMAIN disk : Edit(field)) \/ Command \/ UNCHANGED vars
  <2>1. results' = results /\ job' = job
    BY <1>3 DEF Edit, Command, LoadCandidates, Activate, RecordBaseline, vars
  <2>2. active \subseteq active' /\ active' \subseteq Prompts
    BY <1>1, <1>3 DEF Edit, Command, LoadCandidates, Activate, Chosen, RecordBaseline, vars
  <2>3. DOMAIN runs \subseteq DOMAIN runs'
    <3>1. CASE runs' = runs
      BY <3>1
    <3>2. ASSUME NEW synthetic \in BOOLEAN, RecordBaseline(synthetic)
          PROVE  DOMAIN runs \subseteq DOMAIN runs'
      <4>1. Len(runs') = Len(runs) + 1 /\ DOMAIN runs' = 1 .. Len(runs')
        BY <1>1, <3>2 DEF RecordBaseline
      <4> QED
        BY <1>1, <4>1
    <3> QED
      BY <1>3, <3>1, <3>2 DEF Edit, Command, LoadCandidates, Activate, vars
  <2> QED
    BY <1>2, <2>1, <2>2, <2>3, AsksMore
<1>4. ASSUME NEW s \in Scorers, ScoreStep(s) PROVE AskedInv'
  <2>1. active' = active /\ DOMAIN runs' = DOMAIN runs
    BY <1>1, <1>4 DEF ScoreStep, StartScore, Sample, SampleFails, EmptyAnswer, FinishScore, Kill
  <2>2. ASSUME NEW new, job' = [job EXCEPT ![s] = new],
               new # NoJob => new \in Scorings(active),
               \A x \in results' : [prompt |-> x.prompt, sample |-> x.sample] \in Asks(active)
        PROVE  AskedInv'
    <3>1. \A t \in Scorers : job'[t] = IF t = s THEN new ELSE job[t]
      BY <1>1, <2>2
    <3>2. \A t \in Scorers : job'[t] # NoJob => job'[t] \in Scorings(active)
      BY <1>2, <2>2, <3>1
    <3> QED
      BY <1>2, <2>1, <2>2, <3>2, AsksMore
  <2>3. ASSUME NEW samples \in Samples, NEW r \in DOMAIN runs, NEW synthetic \in BOOLEAN,
               StartScore(s, r, samples, synthetic)
        PROVE  AskedInv'
    <3> DEFINE from == [disk EXCEPT !.brain = BrainAtBaseline(r)]
               new(todo) == [at |-> "scoring", run |-> r, todo |-> todo,
                             synthetic |-> synthetic, from |-> from]
    <3>1. PICK todo \in Todo(samples) : job' = [job EXCEPT ![s] = new(todo)]
      BY <2>3 DEF StartScore
    <3>2. todo \in Seq(Asks(active))
      BY <1>2, TodoIsAsked
    <3>3. from \in DiskMemory
      <4>1. runs[r] \in RunMemory
        BY <1>1
      <4>2. BrainAtBaseline(r) \in Nat
        BY <4>1 DEF BrainAtBaseline, RunMemory
      <4> QED
        BY <1>1, <4>2 DEF DiskMemory
    <3> HIDE DEF from
    <3>4. new(todo) \in Scorings(active)
      BY <3>2, <3>3 DEF Scorings
    <3>5. results' = results
      BY <2>3 DEF StartScore
    <3> HIDE DEF new
    <3> QED
      BY <1>2, <2>2, <3>1, <3>4, <3>5
  <2> DEFINE next == [job[s] EXCEPT !.todo = Tail(job[s].todo)]
  <2>4. ASSUME Scoring(s)
        PROVE  next \in Scorings(active) /\ Head(job[s].todo) \in Asks(active)
    <3>1. job[s] \in Scorings(active) /\ job[s].todo # <<>>
      BY <1>2, <2>4 DEF Scoring, NoJob
    <3>2. Tail(job[s].todo) \in Seq(Asks(active)) /\ Head(job[s].todo) \in Asks(active)
      BY <3>1 DEF Scorings
    <3> QED
      BY <3>1, <3>2 DEF Scorings
  <2> HIDE DEF next
  <2>5. ASSUME NEW completion \in Completions, Sample(s, completion) PROVE AskedInv'
    <3> DEFINE after == IF Taken(s) THEN NoJob ELSE next
    <3>1. Scoring(s) /\ job' = [job EXCEPT ![s] = after]
      BY <2>5 DEF Sample, next
    <3>2. \A x \in results' : [prompt |-> x.prompt, sample |-> x.sample] \in Asks(active)
      <4>1. \A x \in results' : x \in results \/ x = Result(s)
        BY <2>5 DEF Sample, Stored
      <4>2. Result(s).prompt = Head(job[s].todo).prompt /\ Result(s).sample = Head(job[s].todo).sample
        BY DEF Result
      <4>3. [prompt |-> Result(s).prompt, sample |-> Result(s).sample] \in Asks(active)
        BY <2>4, <3>1, <4>2 DEF Asks
      <4> QED
        BY <1>2, <4>1, <4>3
    <3>3. after # NoJob => after \in Scorings(active)
      BY <2>4, <3>1
    <3> HIDE DEF after
    <3> QED
      BY <2>2, <3>1, <3>2, <3>3
  <2>6. ASSUME NEW completion \in Completions, SampleFails(s, completion) PROVE AskedInv'
    <3>1. Scoring(s) /\ job' = [job EXCEPT ![s] = next] /\ results' = results
      BY <2>6 DEF SampleFails, next
    <3> QED
      BY <1>2, <2>2, <2>4, <3>1
  <2>7. CASE EmptyAnswer(s) \/ FinishScore(s) \/ Kill(s)
    <3>1. job' = [job EXCEPT ![s] = NoJob] /\ results' = results
      BY <2>7 DEF EmptyAnswer, FinishScore, Kill
    <3> QED
      BY <1>2, <2>2, <3>1
  <2> QED
    BY <1>4, <2>3, <2>5, <2>6, <2>7 DEF ScoreStep
<1> QED
  BY <1>3, <1>4 DEF Next, Rest

\* The rows of a run number what it has answered, for each is of a sample of its
\* own; as many as may be asked are all that may be asked.
LEMMA CountedIsAnswered ==
    ASSUME EvalsInv, AskedInv, NEW n, Samples = {n}, NEW r \in DOMAIN runs, Complete(r, n)
    PROVE  Answered(r) = ActivePrompts(n)
<1>1. Answered(r) \subseteq ActivePrompts(n)
  BY DEF AskedInv, Answered, Under, Asks, ActivePrompts
<1>2. /\ IsFiniteSet(ActivePrompts(n))
      /\ Cardinality(ActivePrompts(n)) = Cardinality(active) * n
  BY AskedSamples DEF AskedInv
<1>3. IsFiniteSet(Answered(r)) /\ Cardinality(Under(r)) = Cardinality(Answered(r))
  <2> DEFINE f == [x \in Under(r) |-> [prompt |-> x.prompt, sample |-> x.sample]]
  <2>1. IsFiniteSet(Answered(r))
    BY <1>1, <1>2, FS_Subset
  <2>2. f \in Bijection(Under(r), Answered(r))
    <3>1. \A x, y \in Under(r) : f[x] = f[y] => x = y
      BY DEF EvalsInv, OneRowEach, Under
    <3>2. f \in [Under(r) -> Answered(r)] /\ \A a \in Answered(r) : \E x \in Under(r) : f[x] = a
      BY DEF Answered
    <3> QED
      BY <3>1, <3>2 DEF Bijection, Injection, IsInjective, Surjection
  <2> HIDE DEF f
  <2>3. IsFiniteSet(Under(r))
    BY <2>1, <2>2, FS_Injection DEF Bijection
  <2>4. ExistsBijection(Under(r), Answered(r))
    BY <2>2 DEF ExistsBijection
  <2> QED
    BY <2>1, <2>3, <2>4, FS_Bijection
<1>4. Cardinality(Answered(r)) = Cardinality(ActivePrompts(n))
  BY <1>2, <1>3 DEF Complete
<1> QED
  BY <1>1, <1>2, <1>4, FS_Subset

\* Two runs that may be compared pair up, while --samples has one value: both
\* answered every prompt that is active and every sample of it, each from the
\* brain it pinned and by the rubric both did (runner.py, `summarize`, `curve`,
\* `brain_at_baseline`).
THEOREM ComparedRunsPairUp ==
    ASSUME NEW n, Samples = {n}
    PROVE  Spec => []ComparedPairsUp
<1>1. ASSUME EvalsInv, AskedInv PROVE ComparedPairsUp
  <2> SUFFICES ASSUME NEW earlier \in DOMAIN runs, NEW later \in DOMAIN runs,
                      Comparable(earlier, later, n)
               PROVE  /\ Answered(earlier) = ActivePrompts(n)
                      /\ Answered(later) = ActivePrompts(n)
                      /\ \A x \in Under(earlier) : x.from.brain = runs[earlier].brain
                      /\ \A x \in Under(later) : x.from.brain = runs[later].brain
                      /\ \A x \in Under(earlier), y \in Under(later) :
                           x.from.rubric = y.from.rubric
    BY DEF ComparedPairsUp
  <2>1. \A r \in {earlier, later} : \A x \in Under(r) : x.run = r /\ Pinned(x, runs)
    BY <1>1 DEF EvalsInv, Under
  <2>2. /\ runs[earlier].rubric = runs[later].rubric
        /\ Complete(earlier, n) /\ Complete(later, n)
    BY DEF Comparable, SameRubric
  <2>3. Answered(earlier) = ActivePrompts(n) /\ Answered(later) = ActivePrompts(n)
    BY <1>1, <2>2, CountedIsAnswered
  <2> QED
    BY <2>1, <2>2, <2>3 DEF Pinned
<1>2. Spec => [](EvalsInv /\ AskedInv)
  BY EvalsInit, EvalsStep, AskedInit, AskedStep, PTL DEF Spec
<1> QED
  BY <1>1, <1>2, PTL

\* A score stands: no scoring replaces or removes one, and no two rows are about
\* the same sample of a run (schema, eval_results).
THEOREM ScoresStand == Spec => AScoreStands
<1>1. EvalsInv /\ [Next]_vars =>
        [/\ results \subseteq results'
         /\ \A x, y \in results' :
              x.run = y.run /\ x.prompt = y.prompt /\ x.sample = y.sample => x = y]_vars
  BY EvalsStep DEF EvalsInv, OneRowEach
<1> QED
  BY <1>1, EvalsInvariant, PTL DEF Spec, AScoreStands

-----------------------------------------------------------------------------
(* Backups, restores and migrations.                                       *)

\* Of a copy, what a restore needs of it: every row has its file in it, or had
\* none, and every tree it has rows of.
CopyIsWhole(copy) ==
    /\ copy.rows \subseteq copy.files \cup copy.lost
    /\ "artifacts" \in copy.trees
    /\ "payloads" \in copy.trees \/ copy.rows \cap Payloads = {}

\* What has a manifest is whole and elsewhere, whatever is altered in it later.
CopiesKept ==
    \A s \in Slots : copies[s].manifest => copies[s].on = "share" /\ CopyIsWhole(copies[s])

\* A process has read a version the database has reached, and nobody has read
\* any while a restore is under way.
ReadBefore ==
    \A p \in Starters : starter[p] # Down => starter[p] <= live.db.schema /\ restore.at = "idle"

\* What a backup has copied so far: the rows it took, the trees it has read, and
\* of the trees it has not, files that are still there to be read.
CopiedSoFar ==
    LET copy == copies[backup.slot]
        had  == copy.rows \ copy.lost
    IN  backup.at # "idle" =>
          /\ restore.at = "idle" /\ backup.slot \in Slots
          /\ copy.on = "share" /\ ~copy.manifest
          /\ backup.at = "artifacts" => had \subseteq live.files
          /\ backup.at \in {"payloads", "manifest"} =>
               "artifacts" \in copy.trees /\ had \cap Artifacts \subseteq copy.files
          /\ backup.at = "payloads" => had \subseteq live.files
          /\ backup.at = "manifest" =>
               "payloads" \in copy.trees /\ had \cap Payloads \subseteq copy.files

\* What a restore has put back so far.
PutSoFar ==
    restore.at # "idle" =>
      /\ restore.slot \in Slots /\ Source.manifest
      /\ restore.at # "database" =>
           live.db.rows = Source.rows /\ live.db.schema = Source.schema /\ ~live.db.mixed
      /\ restore.at \notin {"database", "sidecars"} => live.db.log = "none"
      /\ restore.at \in {"payloads", "check", "done"} =>
           Source.rows \cap Artifacts \subseteq live.files \cup Source.lost
      /\ restore.at \in {"check", "done"} =>
           Source.rows \cap Payloads \subseteq live.files \cup Source.lost

OpsInv ==
    /\ OpsTypeOK
    /\ KnownVersion
    /\ CopiesKept
    /\ ReadBefore
    /\ CopiedSoFar
    /\ PutSoFar

\* A copy of another database, at another version, with other files.
LEMMA CopyWith ==
    ASSUME NEW copy \in CopyRecord, NEW rows \in SUBSET Pieces, NEW version \in 0 .. Latest,
           NEW files \in SUBSET Pieces, NEW trees \in SUBSET {"artifacts", "payloads"}
    PROVE  [copy EXCEPT !.database = TRUE, !.rows = rows, !.schema = version, !.files = files,
                        !.trees = trees, !.on = "share", !.manifest = TRUE] \in CopyRecord
BY DEF CopyRecord

\* Nothing is at any destination, or what the first release left there.
LEMMA OpsStart == OpsInit => OpsInv
<1> SUFFICES ASSUME OpsInit PROVE OpsInv
  OBVIOUS
<1> USE BackupConstants DEF OpsInit
<1>1. NoCopy \in CopyRecord /\ OldCopy \in CopyRecord
  <2>1. NoCopy \in CopyRecord
    BY DEF NoCopy, CopyRecord
  <2>2. Artifacts \in SUBSET Pieces /\ 1 \in 0 .. Latest
    BY DEF Pieces
  <2>3. OldCopy \in CopyRecord
    BY <2>1, <2>2, CopyWith DEF OldCopy
  <2> QED
    BY <2>1, <2>3
<1>2. OpsTypeOK
  <2>1. live \in [db : Database, files : SUBSET Pieces]
    BY DEF NoDatabase, Database
  <2>2. copies \in [Slots -> CopyRecord]
    BY <1>1
  <2>3. starter \in [Starters -> 0 .. Down] /\ accidents \in 0 .. MaxAccidents
    BY DEF Down
  <2> QED
    BY <2>1, <2>2, <2>3 DEF OpsTypeOK, NotBacking, NotRestoring
<1>3. KnownVersion
  BY DEF KnownVersion, NoDatabase
<1>4. CopiesKept
  <2>1. ~NoCopy.manifest
    BY DEF NoCopy
  <2>2. OldCopy.on = "share" /\ CopyIsWhole(OldCopy)
    BY DEF OldCopy, NoCopy, CopyIsWhole
  <2> QED
    BY <2>1, <2>2 DEF CopiesKept
<1>5. ReadBefore /\ CopiedSoFar /\ PutSoFar
  BY DEF ReadBefore, CopiedSoFar, PutSoFar, NotBacking, NotRestoring
<1> QED
  BY <1>2, <1>3, <1>4, <1>5 DEF OpsInv

\* What happens to the live data while nothing is being restored, and takes no
\* file away from a backup under way.
LEMMA LiveStep ==
    ASSUME OpsInv, UNCHANGED <<copies, mounted, backup, restore>>,
           restore.at # "idle" => live' = live,
           live' \in [db : Database, files : SUBSET Pieces],
           starter' \in [Starters -> 0 .. Down], accidents' \in 0 .. MaxAccidents,
           KnownVersion', ReadBefore', live.files \subseteq live'.files
    PROVE  OpsInv'
<1>1. OpsTypeOK'
  BY DEF OpsInv, OpsTypeOK
<1>2. CopiesKept'
  BY DEF OpsInv, CopiesKept
<1>3. CopiedSoFar'
  BY DEF OpsInv, CopiedSoFar
<1>4. PutSoFar'
  BY DEF OpsInv, PutSoFar, Source
<1> QED
  BY <1>1, <1>2, <1>3, <1>4 DEF OpsInv

\* A database that is opened or written is still one.
LEMMA OpenedDatabase ==
    ASSUME NEW db \in Database
    PROVE  /\ Opened(db) \in Database /\ Written(db) \in Database
           /\ \A field \in {"rows", "scripts", "schema"} :
                Opened(db)[field] = db[field] /\ Written(db)[field] = db[field]
           /\ Opened(db).log = db.log
           /\ Opened(db).mixed = (db.mixed \/ db.log = "foreign")
BY DEF Opened, Written, Database

\* A script applied leaves the rest of a database as it is, and so does a row
\* inserted.
LEMMA ScriptedDatabase ==
    ASSUME NEW db \in Database, NEW n \in 1 .. Latest
    PROVE  /\ [db EXCEPT !.scripts = @ \cup {n}, !.schema = n] \in Database
           /\ [db EXCEPT !.scripts = @ \cup {n}, !.schema = n].schema = n
           /\ [db EXCEPT !.scripts = @ \cup {n}, !.schema = n].scripts = db.scripts \cup {n}
<1>1. n \in 0 .. Latest
  BY BackupConstants
<1>2. db.scripts \in SUBSET (1 .. Latest)
  BY DEF Database
<1> DEFINE scripts == db.scripts \cup {n}
<1>3. scripts \in SUBSET (1 .. Latest)
  BY <1>2
<1> HIDE DEF scripts
<1>4. /\ [db EXCEPT !.scripts = scripts, !.schema = n] \in Database
      /\ [db EXCEPT !.scripts = scripts, !.schema = n].schema = n
      /\ [db EXCEPT !.scripts = scripts, !.schema = n].scripts = scripts
  BY <1>1, <1>3 DEF Database
<1> QED
  BY <1>4 DEF scripts

LEMMA InsertedDatabase ==
    ASSUME NEW db \in Database, NEW w \in Pieces
    PROVE  /\ [db EXCEPT !.rows = @ \cup {w}] \in Database
           /\ [db EXCEPT !.rows = @ \cup {w}].schema = db.schema
           /\ [db EXCEPT !.rows = @ \cup {w}].scripts = db.scripts
BY DEF Database

\* The live data with another database, or other files.
LEMMA LiveWith ==
    ASSUME live \in [db : Database, files : SUBSET Pieces],
           NEW db \in Database, NEW files \in SUBSET Pieces
    PROVE  /\ [live EXCEPT !.db = db] = [db |-> db, files |-> live.files]
           /\ [live EXCEPT !.files = files] = [db |-> live.db, files |-> files]
OBVIOUS

\* Processes that start read a version there is; of two that apply the same
\* script one fails; and what is written only adds.
LEMMA ProcessSteps ==
    ASSUME OpsInv,
           \/ \E p \in Starters : Start(p) \/ Migrate(p) \/ KillStarter(p) \/ Stop(p) \/ Die(p)
           \/ \E w \in Pieces : WriteFile(w) \/ InsertRow(w)
    PROVE  OpsInv'
<1>1. /\ live \in [db : Database, files : SUBSET Pieces]
      /\ starter \in [Starters -> 0 .. Down] /\ accidents \in 0 .. MaxAccidents
      /\ Latest \in Nat \ {0} /\ Down = Latest + 1 /\ MaxAccidents \in Nat
      /\ live.db \in Database /\ live.db.scripts = 1 .. live.db.schema
      /\ ReadBefore
  BY BackupConstants DEF OpsInv, OpsTypeOK, Down, KnownVersion
<1>2. live.db.schema \in 0 .. Latest
  BY <1>1 DEF Database
<1>3. ASSUME NEW p \in Starters, Start(p) PROVE OpsInv'
  <2>1. live' = [db |-> Opened(live.db), files |-> live.files]
    BY <1>1, <1>3, OpenedDatabase, LiveWith DEF Start
  <2>2. KnownVersion' /\ live' \in [db : Database, files : SUBSET Pieces]
    BY <1>1, <2>1, OpenedDatabase DEF KnownVersion
  <2>3. ReadBefore' /\ starter' \in [Starters -> 0 .. Down]
    BY <1>1, <1>2, <1>3, <2>1, OpenedDatabase DEF ReadBefore, Start
  <2> QED
    BY <1>1, <1>3, <2>1, <2>2, <2>3, LiveStep DEF Start
<1>4. ASSUME NEW p \in Starters, Migrate(p) PROVE OpsInv'
  <2> DEFINE next == starter[p] + 1
  <2>1. starter[p] \in 0 .. Latest - 1 /\ starter[p] <= live.db.schema /\ restore.at = "idle"
    BY <1>1, <1>4 DEF Migrate, Migrating, ReadBefore
  <2>2. CASE next \in live.db.scripts
    <3>1. ReadBefore' /\ starter' \in [Starters -> 0 .. Down] /\ KnownVersion' /\ live' = live
      BY <1>1, <1>4, <2>1, <2>2 DEF Migrate, ReadBefore, KnownVersion
    <3> QED
      BY <1>1, <1>4, <3>1, LiveStep DEF Migrate
  <2>3. CASE next \notin live.db.scripts
    <3>1. next = live.db.schema + 1 /\ next \in 1 .. Latest
      BY <1>1, <1>2, <2>1, <2>3
    <3>2. /\ Script(live.db, next) \in Database
          /\ Script(live.db, next).schema = next
          /\ Script(live.db, next).scripts = (1 .. live.db.schema) \cup {next}
      <4> DEFINE written == Written(live.db)
                 db == Script(live.db, next)
      <4>1. written \in Database /\ written.scripts = 1 .. live.db.schema
        BY <1>1, OpenedDatabase
      <4>2. db = [written EXCEPT !.scripts = @ \cup {next}, !.schema = next]
        BY DEF Script
      <4> HIDE DEF written, db, next
      <4>3. db \in Database /\ db.schema = next /\ db.scripts = (1 .. live.db.schema) \cup {next}
        BY <3>1, <4>1, <4>2, ScriptedDatabase
      <4> QED
        BY <4>3 DEF db
    <3>3. live' = [db |-> Script(live.db, next), files |-> live.files]
      BY <1>1, <1>4, <2>3, <3>2, LiveWith DEF Migrate
    <3>4. KnownVersion' /\ live' \in [db : Database, files : SUBSET Pieces]
      <4>1. (1 .. live.db.schema) \cup {next} = 1 .. next
        BY <1>2, <3>1
      <4> QED
        BY <1>1, <3>2, <3>3, <4>1 DEF KnownVersion
    <3>5. ReadBefore' /\ starter' \in [Starters -> 0 .. Down]
      <4>1. starter' = [starter EXCEPT ![p] = next]
        BY <1>4, <2>3 DEF Migrate
      <4>2. live'.db.schema = next /\ restore' = restore
        BY <1>4, <3>2, <3>3 DEF Migrate
      <4> QED
        BY <1>1, <1>2, <2>1, <3>1, <4>1, <4>2 DEF ReadBefore
    <3> QED
      BY <1>1, <1>4, <2>1, <3>3, <3>4, <3>5, LiveStep DEF Migrate
  <2> QED
    BY <2>2, <2>3
<1>5. ASSUME NEW p \in Starters, KillStarter(p) \/ Die(p) PROVE OpsInv'
  <2>1. live' = live
    BY <1>1, <1>5, LiveWith DEF KillStarter, Die, CutShort
  <2>2. ReadBefore' /\ KnownVersion' /\ starter' \in [Starters -> 0 .. Down]
    BY <1>1, <1>5, <2>1 DEF ReadBefore, KnownVersion, KillStarter, Die
  <2> QED
    BY <1>1, <1>5, <2>1, <2>2, LiveStep DEF KillStarter, Die
<1>6. ASSUME NEW p \in Starters, Stop(p) PROVE OpsInv'
  <2>1. restore.at = "idle"
    BY <1>1, <1>6 DEF Stop, ReadBefore
  <2>2. /\ live' \in [db : Database, files : SUBSET Pieces]
        /\ live'.files = live.files
        /\ live'.db.scripts = live.db.scripts /\ live'.db.schema = live.db.schema
    BY <1>1, <1>6 DEF Stop, Database
  <2>3. ReadBefore' /\ KnownVersion' /\ starter' \in [Starters -> 0 .. Down]
    BY <1>1, <1>6, <2>2 DEF ReadBefore, KnownVersion, Stop
  <2> QED
    BY <1>1, <1>6, <2>1, <2>2, <2>3, LiveStep DEF Stop
<1>7. ASSUME NEW w \in Pieces, WriteFile(w) \/ InsertRow(w) PROVE OpsInv'
  <2>1. restore.at = "idle"
    BY <1>1, <1>7 DEF WriteFile, InsertRow, Serving, ReadBefore
  <2>3. /\ live' \in [db : Database, files : SUBSET Pieces]
        /\ live.files \subseteq live'.files
        /\ live'.db.scripts = live.db.scripts /\ live'.db.schema = live.db.schema
    <3>1. CASE WriteFile(w)
      BY <1>1, <3>1 DEF WriteFile
    <3>2. CASE InsertRow(w)
      <4> DEFINE written == Written(live.db)
                 db == Inserted(live.db, w)
      <4>1. /\ written \in Database
            /\ written.schema = live.db.schema /\ written.scripts = live.db.scripts
        BY <1>1, OpenedDatabase
      <4>2. db = [written EXCEPT !.rows = @ \cup {w}] /\ live' = [live EXCEPT !.db = db]
        BY <3>2 DEF InsertRow, Inserted
      <4> HIDE DEF written, db
      <4>3. db \in Database /\ db.schema = live.db.schema /\ db.scripts = live.db.scripts
        BY <4>1, <4>2, InsertedDatabase
      <4> QED
        BY <1>1, <4>2, <4>3, LiveWith
    <3> QED
      BY <1>7, <3>1, <3>2
  <2>4. ReadBefore' /\ KnownVersion'
    BY <1>1, <1>7, <2>3 DEF ReadBefore, KnownVersion, WriteFile, InsertRow
  <2> QED
    BY <1>1, <1>7, <2>1, <2>3, <2>4, LiveStep DEF WriteFile, InsertRow
<1> QED
  BY <1>3, <1>4, <1>5, <1>6, <1>7

\* A step of a backup writes into the copy it is making, and no process starts or
\* restore begins with it.
LEMMA BackupStep ==
    ASSUME OpsInv, restore.at = "idle", UNCHANGED <<mounted, restore, starter>>,
           NEW s \in Slots, NEW copy \in CopyRecord, copies' = [copies EXCEPT ![s] = copy],
           copy.manifest => copy.on = "share" /\ CopyIsWhole(copy),
           live' \in [db : Database, files : SUBSET Pieces],
           live'.db.scripts = live.db.scripts, live'.db.schema = live.db.schema,
           backup' \in [at : {"idle", "database", "artifacts", "payloads", "manifest"},
                        slot : Slots \cup {"none"}],
           accidents' \in 0 .. MaxAccidents, CopiedSoFar'
    PROVE  OpsInv'
<1>1. OpsTypeOK'
  BY DEF OpsInv, OpsTypeOK
<1>2. CopiesKept'
  BY DEF OpsInv, OpsTypeOK, CopiesKept
<1>3. KnownVersion' /\ ReadBefore' /\ PutSoFar'
  BY DEF OpsInv, KnownVersion, ReadBefore, PutSoFar
<1> QED
  BY <1>1, <1>2, <1>3 DEF OpsInv

\* The steps come in the order of a copy.
LEMMA InOrder ==
    /\ Following("database") = "artifacts"
    /\ Following("artifacts") = "payloads"
    /\ Following("payloads") = "manifest"
<1>1. ASSUME NEW step, NEW next \in {"artifacts", "payloads", "manifest"}, NEW k \in 1 .. 3,
             Order[k] = step, Order[k + 1] = next
      PROVE  Following(step) = next
  <2>1. k = 1 \/ k = 2 \/ k = 3
    OBVIOUS
  <2> QED
    BY <1>1, <2>1 DEF Following, Order
<1> QED
  BY <1>1 DEF Order

\* What a tree gives to a copy.
LEMMA CopyWithTree ==
    ASSUME NEW copy \in CopyRecord, NEW found \in SUBSET Pieces,
           NEW name \in {"artifacts", "payloads"}
    PROVE  [copy EXCEPT !.files = @ \cup found, !.trees = @ \cup {name}] \in CopyRecord
<1> DEFINE files == copy.files \cup found
           trees == copy.trees \cup {name}
<1>1. files \in SUBSET Pieces /\ trees \in SUBSET {"artifacts", "payloads"}
  BY DEF CopyRecord
<1> HIDE DEF files, trees
<1>2. [copy EXCEPT !.files = files, !.trees = trees] \in CopyRecord
  BY <1>1 DEF CopyRecord
<1> QED
  BY <1>2 DEF files, trees

\* What the database gives to it.
LEMMA CopyWithDatabase ==
    ASSUME NEW copy \in CopyRecord, NEW rows \in SUBSET Pieces, NEW lost \in SUBSET Pieces,
           NEW version \in 0 .. Latest
    PROVE  [copy EXCEPT !.database = TRUE, !.rows = rows, !.lost = lost, !.schema = version]
              \in CopyRecord
BY DEF CopyRecord

\* A copy that is begun, finished or altered.
LEMMA CopyMarked ==
    ASSUME NEW copy \in CopyRecord
    PROVE  /\ [copy EXCEPT !.on = "share"] \in CopyRecord
           /\ [copy EXCEPT !.manifest = TRUE] \in CopyRecord
           /\ [copy EXCEPT !.damaged = TRUE] \in CopyRecord
BY DEF CopyRecord

\* The rows are copied before the trees that hold their files, so a copy that has
\* been given its manifest is whole: whatever is written in between is not in it,
\* and whatever it has a row of was there to be read.
LEMMA BackupSteps ==
    ASSUME OpsInv,
           \/ \E s \in Slots : CreateBackup(s)
           \/ BackUpDatabase \/ CopyTree("artifacts", Artifacts) \/ CopyTree("payloads", Payloads)
           \/ WriteManifest \/ KillBackup
    PROVE  OpsInv'
<1> DEFINE slot == backup.slot
           copy == copies[slot]
           had  == copy.rows \ copy.lost
<1>1. /\ live \in [db : Database, files : SUBSET Pieces] /\ live.db \in Database
      /\ copies \in [Slots -> CopyRecord] /\ mounted \in BOOLEAN
      /\ backup \in [at : {"idle", "database", "artifacts", "payloads", "manifest"},
                     slot : Slots \cup {"none"}]
      /\ accidents \in 0 .. MaxAccidents /\ MaxAccidents \in Nat
      /\ CopiesKept /\ CopiedSoFar
  BY BackupConstants DEF OpsInv, OpsTypeOK
<1>2. /\ live.db.rows \in SUBSET Pieces /\ live.db.schema \in 0 .. Latest
      /\ live.files \in SUBSET Pieces
  BY <1>1 DEF Database
<1>3. ASSUME NEW s \in Slots, CreateBackup(s) PROVE OpsInv'
  <2> DEFINE new == [copies[s] EXCEPT !.on = "share"]
  <2>1. /\ copies' = [copies EXCEPT ![s] = new] /\ ~copies[s].manifest
        /\ backup' = [at |-> "database", slot |-> s]
    BY <1>1, <1>3 DEF CreateBackup, RefusesTheSameDisk, Device, Order
  <2>2. copies[s] \in CopyRecord
    BY <1>1
  <2>3. new \in CopyRecord
    BY <2>2, CopyMarked
  <2>4. new.on = "share" /\ ~new.manifest
    BY <2>1, <2>2 DEF CopyRecord
  <2> HIDE DEF new
  <2>5. copies'[s] = new /\ backup'.slot = s /\ backup'.at = "database"
    BY <1>1, <2>1
  <2>6. restore.at = "idle" /\ UNCHANGED <<live, mounted, restore, starter, accidents>>
    BY <1>3 DEF CreateBackup
  <2>7. CopiedSoFar'
    BY <2>4, <2>5, <2>6 DEF CopiedSoFar
  <2> QED
    BY <1>1, <2>1, <2>3, <2>4, <2>6, <2>7, BackupStep
<1>4. ASSUME backup.at # "idle"
      PROVE  /\ restore.at = "idle" /\ slot \in Slots /\ copy \in CopyRecord
             /\ copy.on = "share" /\ ~copy.manifest
  BY <1>1, <1>4 DEF CopiedSoFar
<1>5. CASE BackUpDatabase
  <2> DEFINE lost == live.db.rows \ live.files
             new == [copy EXCEPT !.database = TRUE, !.rows = live.db.rows, !.lost = lost,
                                 !.schema = live.db.schema]
  <2>1. /\ backup.at = "database" /\ backup' = [backup EXCEPT !.at = "artifacts"]
        /\ UNCHANGED <<mounted, restore, starter, accidents>>
    BY <1>5, InOrder DEF BackUpDatabase, Step
  <2>2. copies' = [copies EXCEPT ![slot] = new]
    BY <1>1, <1>4, <1>5, <2>1 DEF BackUpDatabase
  <2>3. live' = [db |-> Opened(live.db), files |-> live.files]
    BY <1>1, <1>5, OpenedDatabase, LiveWith DEF BackUpDatabase
  <2>4. /\ live' \in [db : Database, files : SUBSET Pieces] /\ live'.files = live.files
        /\ live'.db.scripts = live.db.scripts /\ live'.db.schema = live.db.schema
    BY <1>1, <2>3, OpenedDatabase
  <2>5. /\ new.rows = live.db.rows /\ new.lost = lost /\ new.on = "share" /\ ~new.manifest
    BY <1>4, <2>1 DEF CopyRecord
  <2>6. new \in CopyRecord
    <3>1. lost \in SUBSET Pieces
      BY <1>2
    <3> HIDE DEF lost
    <3> QED
      BY <1>2, <1>4, <2>1, <3>1, CopyWithDatabase
  <2> HIDE DEF new
  <2>7. copies'[slot] = new /\ backup'.slot = slot /\ backup'.at = "artifacts"
    BY <1>1, <1>4, <2>1, <2>2
  <2>8. CopiedSoFar'
    BY <1>4, <2>1, <2>4, <2>5, <2>7 DEF CopiedSoFar
  <2> QED
    BY <1>1, <1>4, <2>1, <2>2, <2>4, <2>5, <2>6, <2>8, BackupStep
<1>6. ASSUME NEW name \in {"artifacts", "payloads"}, NEW pieces \in SUBSET Pieces,
             CopyTree(name, pieces), backup.at = name,
             name = "artifacts" => pieces = Artifacts, name = "payloads" => pieces = Payloads
      PROVE  OpsInv'
  <2> DEFINE found == live.files \cap pieces
             new == [copy EXCEPT !.files = @ \cup found, !.trees = @ \cup {name}]
  <2>1. /\ backup' = [backup EXCEPT !.at = Following(name)]
        /\ UNCHANGED <<live, mounted, restore, starter, accidents>>
    BY <1>6 DEF CopyTree, Step
  <2>2. copies' = [copies EXCEPT ![slot] = new]
    BY <1>1, <1>4, <1>6 DEF CopyTree
  <2>3. /\ new.rows = copy.rows /\ new.lost = copy.lost /\ new.on = "share" /\ ~new.manifest
        /\ new.files = copy.files \cup found /\ new.trees = copy.trees \cup {name}
    BY <1>4, <1>6 DEF CopyRecord
  <2>4. new \in CopyRecord
    BY <1>2, <1>4, <1>6, CopyWithTree
  <2> HIDE DEF new
  <2>5. copies'[slot] = new /\ backup'.slot = slot
    BY <1>1, <1>4, <1>6, <2>1, <2>2
  <2>6. backup'.at = IF name = "artifacts" THEN "payloads" ELSE "manifest"
    BY <1>1, <1>6, <2>1, InOrder
  <2>7. CopiedSoFar'
    <3>1. CASE name = "artifacts"
      BY <1>1, <1>4, <1>6, <2>1, <2>3, <2>5, <2>6, <3>1 DEF CopiedSoFar
    <3>2. CASE name = "payloads"
      BY <1>1, <1>4, <1>6, <2>1, <2>3, <2>5, <2>6, <3>2 DEF CopiedSoFar
    <3> QED
      BY <1>6, <3>1, <3>2
  <2>8. backup' \in [at : {"idle", "database", "artifacts", "payloads", "manifest"},
                     slot : Slots \cup {"none"}]
    BY <1>1, <1>6, <2>1, InOrder
  <2> QED
    BY <1>1, <1>4, <1>6, <2>1, <2>2, <2>3, <2>4, <2>7, <2>8, BackupStep
<1>7. CASE WriteManifest
  <2> DEFINE new == [copy EXCEPT !.manifest = TRUE]
  <2>1. /\ backup.at = "manifest" /\ backup' = NotBacking
        /\ UNCHANGED <<live, mounted, restore, starter, accidents>>
    BY <1>7 DEF WriteManifest, Step
  <2>2. copies' = [copies EXCEPT ![slot] = new]
    BY <1>1, <1>4, <1>7, <2>1 DEF WriteManifest
  <2>3. new \in CopyRecord /\ new.on = "share" /\ CopyIsWhole(new)
    <3>1. new \in CopyRecord
      BY <1>4, <2>1, CopyMarked
    <3>2. /\ new.rows = copy.rows /\ new.lost = copy.lost /\ new.on = "share"
          /\ new.files = copy.files /\ new.trees = copy.trees
      BY <1>4, <2>1 DEF CopyRecord
    <3>3. /\ "artifacts" \in copy.trees /\ had \cap Artifacts \subseteq copy.files
          /\ "payloads" \in copy.trees /\ had \cap Payloads \subseteq copy.files
      BY <1>1, <2>1 DEF CopiedSoFar
    <3>4. copy.rows \subseteq Artifacts \cup Payloads
      BY <1>4, <2>1 DEF CopyRecord, Pieces
    <3> QED
      BY <3>1, <3>2, <3>3, <3>4 DEF CopyIsWhole
  <2> HIDE DEF new
  <2>4. CopiedSoFar' /\ backup' \in [at : {"idle", "database", "artifacts", "payloads", "manifest"},
                                     slot : Slots \cup {"none"}]
    BY <2>1 DEF CopiedSoFar, NotBacking
  <2> QED
    BY <1>1, <1>4, <2>1, <2>2, <2>3, <2>4, BackupStep
<1>8. CASE KillBackup
  <2>1. /\ backup.at # "idle" /\ backup' = NotBacking /\ accidents' \in 0 .. MaxAccidents
        /\ UNCHANGED <<live, mounted, restore, starter>>
    BY <1>1, <1>8 DEF KillBackup
  <2>2. copies' = [copies EXCEPT ![slot] = copy]
    BY <1>1, <1>4, <1>8, <2>1 DEF KillBackup
  <2>3. CopiedSoFar' /\ backup' \in [at : {"idle", "database", "artifacts", "payloads", "manifest"},
                                     slot : Slots \cup {"none"}]
    BY <2>1 DEF CopiedSoFar, NotBacking
  <2> QED
    BY <1>1, <1>4, <2>1, <2>2, <2>3, BackupStep
<1>9. CASE CopyTree("artifacts", Artifacts) \/ CopyTree("payloads", Payloads)
  BY <1>6, <1>9 DEF CopyTree, Step, Pieces
<1> QED
  BY <1>3, <1>5, <1>7, <1>8, <1>9

\* A step of a restore leaves the copies as they are, and no process has read a
\* version or backup begun.
LEMMA RestoreStep ==
    ASSUME OpsInv, UNCHANGED <<copies, mounted, backup, starter>>,
           backup.at = "idle", \A p \in Starters : starter[p] = Down,
           live' \in [db : Database, files : SUBSET Pieces], KnownVersion',
           restore' \in [at : {"idle", "database", "sidecars", "artifacts", "payloads", "check",
                               "done"},
                         slot : Slots \cup {"none"}, overwrite : BOOLEAN],
           accidents' \in 0 .. MaxAccidents, PutSoFar'
    PROVE  OpsInv'
<1>1. OpsTypeOK'
  BY DEF OpsInv, OpsTypeOK
<1>2. CopiesKept' /\ ReadBefore' /\ CopiedSoFar'
  BY DEF OpsInv, CopiesKept, ReadBefore, CopiedSoFar
<1> QED
  BY <1>1, <1>2 DEF OpsInv

\* A database that a restore has put in place of another.
LEMMA PutBack ==
    ASSUME NEW rows \in SUBSET Pieces, NEW version \in 0 .. Latest,
           NEW log \in {"none", "own", "foreign"}
    PROVE  [exists |-> TRUE, rows |-> rows, schema |-> version, scripts |-> 1 .. version,
            mixed |-> FALSE, log |-> log] \in Database
<1>1. Latest \in Nat /\ version \in 0 .. Latest
  BY BackupConstants
<1>2. 1 .. version \in SUBSET (1 .. Latest)
  BY <1>1
<1> QED
  BY <1>2 DEF Database

\* What a tree's restoration leaves in it and beside it, of a copy that has every
\* tree it has rows of.
LEMMA RestoredTree ==
    ASSUME NEW name, NEW pieces \in SUBSET Pieces, live.files \in SUBSET Pieces,
           Source \in CopyRecord
    PROVE  /\ Restored(name, pieces) \in SUBSET Pieces
           /\ live.files \ pieces \subseteq Restored(name, pieces)
           /\ name \in Source.trees => Source.files \cap pieces \subseteq Restored(name, pieces)
BY DEF Restored, Kept, CopyRecord

\* A restore puts the rows, the files and nothing of the database that was there
\* before: its log is gone before the new one is opened.
LEMMA RestoreSteps ==
    ASSUME OpsInv,
           \/ \E s \in Slots, overwrite \in BOOLEAN : RestoreBackup(s, overwrite)
           \/ PutDatabase \/ DropSidecars \/ PutArtifacts \/ PutPayloads \/ Check \/ Leave
           \/ KillRestore
    PROVE  OpsInv'
<1>1. /\ live \in [db : Database, files : SUBSET Pieces] /\ live.db \in Database
      /\ copies \in [Slots -> CopyRecord]
      /\ restore \in [at : {"idle", "database", "sidecars", "artifacts", "payloads", "check",
                            "done"},
                      slot : Slots \cup {"none"}, overwrite : BOOLEAN]
      /\ backup.at \in {"idle", "database", "artifacts", "payloads", "manifest"}
      /\ starter \in [Starters -> 0 .. Down]
      /\ accidents \in 0 .. MaxAccidents /\ MaxAccidents \in Nat
      /\ CopiesKept /\ CopiedSoFar /\ ReadBefore /\ PutSoFar /\ KnownVersion
  BY BackupConstants DEF OpsInv, OpsTypeOK
<1>2. ASSUME restore.at # "idle"
      PROVE  /\ backup.at = "idle" /\ \A p \in Starters : starter[p] = Down
             /\ restore.slot \in Slots /\ Source.manifest /\ Source \in CopyRecord
             /\ Source.on = "share" /\ CopyIsWhole(Source)
  BY <1>1, <1>2 DEF CopiedSoFar, ReadBefore, PutSoFar, CopiesKept, Source
<1>3. ASSUME NEW s \in Slots, NEW overwrite \in BOOLEAN, RestoreBackup(s, overwrite) PROVE OpsInv'
  <2>1. /\ restore' = [at |-> "database", slot |-> s, overwrite |-> overwrite]
        /\ copies[s].manifest /\ backup.at = "idle" /\ \A p \in Starters : starter[p] = Down
        /\ UNCHANGED <<live, copies, mounted, backup, starter, accidents>>
    BY <1>3 DEF RestoreBackup, VerifyBackup
  <2>2. PutSoFar' /\ KnownVersion'
    BY <1>1, <2>1 DEF PutSoFar, Source, KnownVersion
  <2> QED
    BY <1>1, <2>1, <2>2, RestoreStep
<1>4. CASE PutDatabase
  <2> DEFINE log == IF live.db.log = "none" THEN "none" ELSE "foreign"
             put == [exists |-> TRUE, rows |-> Source.rows, schema |-> Source.schema,
                     scripts |-> 1 .. Source.schema, mixed |-> FALSE, log |-> log]
  <2>1. /\ restore.at = "database" /\ restore' = [restore EXCEPT !.at = "sidecars"]
        /\ UNCHANGED <<copies, mounted, backup, starter, accidents>>
        /\ live' = [live EXCEPT !.db = put]
    BY <1>4 DEF PutDatabase, Proceed
  <2>2. /\ put.rows = Source.rows /\ put.schema = Source.schema /\ ~put.mixed
        /\ put.scripts = 1 .. put.schema
    OBVIOUS
  <2>3. put \in Database
    <3>1. Source.rows \in SUBSET Pieces /\ Source.schema \in 0 .. Latest
      BY <1>2, <2>1 DEF CopyRecord
    <3> QED
      BY <3>1, PutBack
  <2> HIDE DEF put
  <2>4. /\ live' \in [db : Database, files : SUBSET Pieces] /\ live'.db = put
        /\ restore' \in [at : {"idle", "database", "sidecars", "artifacts", "payloads", "check",
                               "done"},
                         slot : Slots \cup {"none"}, overwrite : BOOLEAN]
        /\ restore'.at = "sidecars" /\ restore'.slot = restore.slot
    BY <1>1, <2>1, <2>3
  <2>5. PutSoFar' /\ KnownVersion'
    BY <1>2, <2>1, <2>2, <2>4 DEF PutSoFar, Source, KnownVersion
  <2> QED
    BY <1>1, <1>2, <2>1, <2>4, <2>5, RestoreStep
<1>5. CASE DropSidecars
  <2>1. /\ restore.at = "sidecars" /\ restore' = [restore EXCEPT !.at = "artifacts"]
        /\ UNCHANGED <<copies, mounted, backup, starter, accidents>>
        /\ live' = [live EXCEPT !.db.log = "none"]
    BY <1>5 DEF DropSidecars, Proceed, LogAfterwards
  <2>2. /\ live' \in [db : Database, files : SUBSET Pieces] /\ live'.db.log = "none"
        /\ live'.db.rows = live.db.rows /\ live'.db.schema = live.db.schema
        /\ live'.db.scripts = live.db.scripts /\ live'.db.mixed = live.db.mixed
    BY <1>1, <2>1 DEF Database
  <2>3. /\ restore' \in [at : {"idle", "database", "sidecars", "artifacts", "payloads", "check",
                               "done"},
                         slot : Slots \cup {"none"}, overwrite : BOOLEAN]
        /\ restore'.at = "artifacts" /\ restore'.slot = restore.slot
    BY <1>1, <2>1
  <2>4. PutSoFar' /\ KnownVersion'
    BY <1>1, <1>2, <2>1, <2>2, <2>3 DEF PutSoFar, Source, KnownVersion
  <2> QED
    BY <1>1, <1>2, <2>1, <2>2, <2>3, <2>4, RestoreStep
<1>6. ASSUME NEW name \in {"artifacts", "payloads"}, NEW pieces \in SUBSET Pieces,
             name = "artifacts" => pieces = Artifacts, name = "payloads" => pieces = Payloads,
             restore.at = name,
             Proceed(name, IF name = "artifacts" THEN "payloads" ELSE "check"),
             live' = [live EXCEPT !.files = Restored(name, pieces)]
      PROVE  OpsInv'
  <2> DEFINE files == Restored(name, pieces)
  <2>1. /\ restore' = [restore EXCEPT !.at = IF name = "artifacts" THEN "payloads" ELSE "check"]
        /\ UNCHANGED <<copies, mounted, backup, starter, accidents>>
    BY <1>6 DEF Proceed
  <2>2. /\ files \in SUBSET Pieces /\ live.files \ pieces \subseteq files
        /\ name \in Source.trees => Source.files \cap pieces \subseteq files
    BY <1>1, <1>2, <1>6, RestoredTree
  <2> HIDE DEF files
  <2>3. live' = [db |-> live.db, files |-> files]
    BY <1>1, <1>6, <2>2, LiveWith DEF files
  <2>4. /\ restore' \in [at : {"idle", "database", "sidecars", "artifacts", "payloads", "check",
                               "done"},
                         slot : Slots \cup {"none"}, overwrite : BOOLEAN]
        /\ restore'.at = (IF name = "artifacts" THEN "payloads" ELSE "check")
        /\ restore'.slot = restore.slot
    BY <1>1, <1>6, <2>1
  <2>5. Source' = Source
    BY <2>1, <2>4 DEF Source
  <2>6. CASE name = "artifacts"
    <3>1. Source.rows \cap Artifacts \subseteq files \cup Source.lost
      BY <1>2, <1>6, <2>2, <2>6 DEF CopyIsWhole
    <3>2. PutSoFar'
      BY <1>1, <1>2, <1>6, <2>3, <2>4, <2>5, <2>6, <3>1 DEF PutSoFar
    <3> QED
      BY <1>1, <1>2, <1>6, <2>1, <2>2, <2>3, <2>4, <3>2, RestoreStep DEF KnownVersion
  <2>7. CASE name = "payloads"
    <3>1. Source.rows \cap Artifacts \subseteq files \cup Source.lost
      <4>1. Source.rows \cap Artifacts \subseteq live.files \cup Source.lost
        BY <1>1, <1>6, <2>7 DEF PutSoFar
      <4> QED
        BY <1>6, <2>2, <2>7, <4>1, BackupConstants
    <3>2. Source.rows \cap Payloads \subseteq files \cup Source.lost
      BY <1>2, <1>6, <2>2, <2>7 DEF CopyIsWhole
    <3>3. PutSoFar'
      BY <1>1, <1>2, <1>6, <2>3, <2>4, <2>5, <2>7, <3>1, <3>2 DEF PutSoFar
    <3> QED
      BY <1>1, <1>2, <1>6, <2>1, <2>2, <2>3, <2>4, <3>3, RestoreStep DEF KnownVersion
  <2> QED
    BY <1>6, <2>6, <2>7
<1>7. CASE PutArtifacts \/ PutPayloads
  <2>1. Artifacts \in SUBSET Pieces /\ Payloads \in SUBSET Pieces
    BY DEF Pieces
  <2>2. CASE PutArtifacts
    BY <1>6, <2>1, <2>2 DEF PutArtifacts, Proceed
  <2>3. CASE PutPayloads
    BY <1>6, <2>1, <2>3 DEF PutPayloads, Proceed
  <2> QED
    BY <1>7, <2>2, <2>3
<1>8. CASE Check
  <2>1. /\ restore.at = "check" /\ restore' = [restore EXCEPT !.at = "done"]
        /\ UNCHANGED <<copies, mounted, backup, starter, accidents>>
        /\ live' = [live EXCEPT !.db = Opened(live.db)]
    BY <1>8 DEF Check, Proceed
  <2>2. /\ live.db.log = "none" /\ live.db.rows = Source.rows
        /\ live.db.schema = Source.schema /\ ~live.db.mixed
    BY <1>1, <2>1 DEF PutSoFar
  <2>3. live' = [db |-> Opened(live.db), files |-> live.files]
    BY <1>1, <2>1, OpenedDatabase, LiveWith
  <2>4. /\ live' \in [db : Database, files : SUBSET Pieces] /\ live'.files = live.files
        /\ live'.db.rows = live.db.rows /\ live'.db.schema = live.db.schema
        /\ live'.db.scripts = live.db.scripts /\ ~live'.db.mixed /\ live'.db.log = "none"
    BY <1>1, <2>2, <2>3, OpenedDatabase
  <2>5. /\ restore' \in [at : {"idle", "database", "sidecars", "artifacts", "payloads", "check",
                               "done"},
                         slot : Slots \cup {"none"}, overwrite : BOOLEAN]
        /\ restore'.at = "done" /\ restore'.slot = restore.slot
    BY <1>1, <2>1
  <2>6. PutSoFar' /\ KnownVersion'
    BY <1>1, <1>2, <2>1, <2>2, <2>4, <2>5 DEF PutSoFar, Source, KnownVersion
  <2> QED
    BY <1>1, <1>2, <2>1, <2>4, <2>5, <2>6, RestoreStep
<1>9. CASE Leave \/ KillRestore
  <2>1. /\ restore.at # "idle" /\ restore' = NotRestoring /\ accidents' \in 0 .. MaxAccidents
        /\ UNCHANGED <<live, copies, mounted, backup, starter>>
    BY <1>1, <1>9 DEF Leave, KillRestore
  <2>2. PutSoFar' /\ KnownVersion'
    BY <1>1, <2>1 DEF PutSoFar, NotRestoring, KnownVersion
  <2> QED
    BY <1>1, <1>2, <2>1, <2>2, RestoreStep DEF NotRestoring
<1> QED
  BY <1>3, <1>4, <1>5, <1>7, <1>8, <1>9

\* What happens to the share, to the copies and to the disk.
LEMMA WorldSteps ==
    ASSUME OpsInv, Mount \/ LoseDisk \/ \E s \in Slots : Damage(s)
    PROVE  OpsInv'
<1>1. /\ live \in [db : Database, files : SUBSET Pieces]
      /\ copies \in [Slots -> CopyRecord] /\ mounted \in BOOLEAN
      /\ accidents \in 0 .. MaxAccidents /\ MaxAccidents \in Nat
      /\ Latest \in Nat /\ Down = Latest + 1
      /\ CopiesKept /\ CopiedSoFar /\ ReadBefore /\ PutSoFar /\ KnownVersion
  BY BackupConstants DEF OpsInv, OpsTypeOK, Down
<1>2. CASE Mount
  <2>1. /\ mounted' \in BOOLEAN /\ accidents' \in 0 .. MaxAccidents
        /\ UNCHANGED <<live, copies, backup, restore, starter>>
    BY <1>1, <1>2 DEF Mount
  <2>2. OpsTypeOK'
    BY <2>1 DEF OpsInv, OpsTypeOK
  <2> QED
    BY <1>1, <2>1, <2>2 DEF OpsInv, CopiesKept, CopiedSoFar, ReadBefore, PutSoFar, KnownVersion,
                            Source
<1>3. ASSUME NEW s \in Slots, Damage(s) PROVE OpsInv'
  <2> DEFINE new == [copies[s] EXCEPT !.damaged = TRUE]
  <2>1. /\ copies' = [copies EXCEPT ![s] = new] /\ accidents' \in 0 .. MaxAccidents
        /\ UNCHANGED <<live, mounted, backup, restore, starter>>
    BY <1>1, <1>3 DEF Damage
  <2>2. copies[s] \in CopyRecord
    BY <1>1
  <2>3. new \in CopyRecord
    BY <2>2, CopyMarked
  <2>4. /\ new.rows = copies[s].rows /\ new.lost = copies[s].lost /\ new.files = copies[s].files
        /\ new.trees = copies[s].trees /\ new.schema = copies[s].schema
        /\ new.on = copies[s].on /\ new.manifest = copies[s].manifest
    BY <2>2 DEF CopyRecord
  <2> HIDE DEF new
  <2>5. \A t \in Slots :
          /\ copies'[t].rows = copies[t].rows /\ copies'[t].lost = copies[t].lost
          /\ copies'[t].files = copies[t].files /\ copies'[t].trees = copies[t].trees
          /\ copies'[t].schema = copies[t].schema /\ copies'[t].on = copies[t].on
          /\ copies'[t].manifest = copies[t].manifest
    BY <1>1, <2>1, <2>4
  <2>6. OpsTypeOK'
    BY <1>1, <2>1, <2>3 DEF OpsInv, OpsTypeOK
  <2>7. CopiesKept'
    BY <1>1, <2>5 DEF CopiesKept, CopyIsWhole
  <2>8. CopiedSoFar'
    BY <1>1, <2>1, <2>5 DEF CopiedSoFar
  <2>9. PutSoFar'
    BY <1>1, <2>1, <2>5 DEF PutSoFar, Source
  <2> QED
    BY <1>1, <2>1, <2>6, <2>7, <2>8, <2>9 DEF OpsInv, ReadBefore, KnownVersion
<1>4. CASE LoseDisk
  <2>1. /\ live' = [db |-> NoDatabase, files |-> {}]
        /\ copies' = [s \in Slots |-> IF copies[s].on = "disk" THEN NoCopy ELSE copies[s]]
        /\ starter' = [p \in Starters |-> Down] /\ accidents' \in 0 .. MaxAccidents
        /\ backup.at = "idle" /\ restore.at = "idle" /\ UNCHANGED <<mounted, backup, restore>>
    BY <1>1, <1>4 DEF LoseDisk
  <2>2. NoCopy \in CopyRecord /\ ~NoCopy.manifest
    BY BackupConstants DEF NoCopy, CopyRecord
  <2>3. NoDatabase \in Database /\ NoDatabase.scripts = 1 .. NoDatabase.schema
    BY BackupConstants DEF NoDatabase, Database
  <2>4. OpsTypeOK'
    BY <1>1, <2>1, <2>2, <2>3 DEF OpsInv, OpsTypeOK
  <2>5. CopiesKept' /\ CopiedSoFar' /\ ReadBefore' /\ PutSoFar' /\ KnownVersion'
    BY <1>1, <2>1, <2>2, <2>3 DEF CopiesKept, CopiedSoFar, ReadBefore, PutSoFar, KnownVersion
  <2> QED
    BY <2>4, <2>5 DEF OpsInv
<1> QED
  BY <1>2, <1>3, <1>4

LEMMA OpsStep == OpsInv /\ [OpsNext]_opsVars => OpsInv'
<1>1. ASSUME OpsInv, UNCHANGED opsVars PROVE OpsInv'
  BY <1>1 DEF opsVars, OpsInv, OpsTypeOK, CopiesKept, CopiedSoFar, ReadBefore, PutSoFar,
              KnownVersion, Source
<1> QED
  BY <1>1, ProcessSteps, BackupSteps, RestoreSteps, WorldSteps DEF OpsNext

LEMMA OpsInvariant == OpsSpec => []OpsInv
BY OpsStart, OpsStep, PTL DEF OpsSpec

\* The state stays of its type, whatever is killed, altered, unmounted or lost.
THEOREM OpsTypes == OpsSpec => []OpsTypeOK
<1>1. OpsInv => OpsTypeOK
  BY DEF OpsInv
<1> QED
  BY <1>1, OpsInvariant, PTL

\* A copy that a restore accepts (verify_backup, backup.py) has the file of every
\* row that had one when its database was read, though the night was writing while
\* the trees were; it is not on the disk it protects; and of two processes that
\* migrate at once, no script is applied twice or left out (migrate.py).
THEOREM CopiesWorthRestoring == OpsSpec => []CopiesAreWorthRestoring
<1>1. OpsInv => CopiesAreWorthRestoring
  BY DEF OpsInv, CopiesAreWorthRestoring, WholeCopies, ElsewhereCopies, CopiesKept, CopyIsWhole,
         VerifyBackup
<1> QED
  BY <1>1, OpsInvariant, PTL

\* A restore that says it is done (restore_backup, restore.py) has put back the rows
\* and the version of its copy, with their files, and no log of the database that
\* was there before is beside it, however many restores were killed before it.
THEOREM RestoresTheCopy == OpsSpec => []RestoredIsTheCopy
<1>1. ASSUME OpsInv PROVE RestoredIsTheCopy
  <2> SUFFICES ASSUME restore.at = "done" PROVE RestoredIsTheCopy
    BY DEF RestoredIsTheCopy
  <2>1. Source.rows \subseteq Artifacts \cup Payloads
    BY <1>1 DEF OpsInv, OpsTypeOK, CopyRecord, PutSoFar, Source, Pieces
  <2> QED
    BY <1>1, <2>1 DEF OpsInv, PutSoFar, RestoredIsTheCopy
<1> QED
  BY <1>1, OpsInvariant, PTL

\* A copy of the first release has no payload tree, and a restore of one without
\* --overwrite leaves the payloads of the machine as they are (restore.py:149-152),
\* at every step and also where it is killed.
THEOREM KeepsThePayloads ==
    OpsSpec => [][restore.at # "idle" /\ ~restore.overwrite /\ "payloads" \notin Source.trees =>
                    live'.files \cap Payloads = live.files \cap Payloads]_opsVars
<1>1. ASSUME OpsInv, [OpsNext]_opsVars, restore.at # "idle", ~restore.overwrite,
             "payloads" \notin Source.trees
      PROVE  live'.files \cap Payloads = live.files \cap Payloads
  <2>1. /\ live \in [db : Database, files : SUBSET Pieces] /\ Latest \in Nat /\ Down = Latest + 1
        /\ \A p \in Starters : starter[p] = Down
        /\ backup.at = "idle"
    BY <1>1, BackupConstants DEF OpsInv, OpsTypeOK, Down, ReadBefore, CopiedSoFar
  <2>2. CASE PutArtifacts
    BY <1>1, <2>1, <2>2, BackupConstants DEF PutArtifacts, Restored, Kept
  <2>3. CASE PutPayloads
    BY <1>1, <2>1, <2>3 DEF PutPayloads, Restored, Kept
  <2>4. CASE PutDatabase \/ DropSidecars \/ Check
    BY <2>1, <2>4 DEF PutDatabase, DropSidecars, Check
  <2>5. CASE \E p \in Starters : Start(p) \/ Migrate(p) \/ KillStarter(p) \/ Stop(p) \/ Die(p)
    BY <1>1, <2>1, <2>5 DEF Start, Migrate, Migrating, KillStarter, Stop, Die
  <2>6. CASE \E w \in Pieces : WriteFile(w) \/ InsertRow(w)
    BY <2>1, <2>6, BackupConstants DEF WriteFile, InsertRow, Serving
  <2>7. CASE BackUpDatabase
    BY <2>1, <2>7 DEF BackUpDatabase, Step
  <2>8. UNCHANGED live => live'.files \cap Payloads = live.files \cap Payloads
    OBVIOUS
  <2> QED
    BY <1>1, <2>2, <2>3, <2>4, <2>5, <2>6, <2>7, <2>8
       DEF OpsNext, opsVars, CreateBackup, CopyTree, WriteManifest, KillBackup, Damage,
           RestoreBackup, Leave, KillRestore, Mount, LoseDisk
<1> QED
  BY <1>1, OpsInvariant, PTL DEF OpsSpec
=============================================================================
