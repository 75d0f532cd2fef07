# Second Shift: a verification development

Second Shift takes an idea a person captures during the day, works it at night
through six stages with model calls, shows in the morning what came of it, and
asks questions whose answers give the idea another night. This directory holds
TLA+ models of the parts of it that are hard to test, the TLC configurations
that check them, and theorems proved with TLAPS. Paths below without a prefix
are under `src/apps/api/secondshift/`.

    tlc -config NightSafety.cfg MCNightLoop     # check one instance
    tlapm NightLoopProofs.tla                   # check its proofs

## 1. The system

Three programs share one SQLite file in WAL mode. Every connection is opened
with `isolation_level=None` (`db/connection.py`), so each statement commits on
its own: the atomic step of the system is one SQL statement, one file write or
one git command.

| Component | State it keeps | Operations | Talks to |
|---|---|---|---|
| Night (`night/__main__.py`, `run.py`, `recovery.py`) | a flock beside the database; per entry, what it has read | lock, recover, bind providers, claim, work, close, consume, release, ask | tables `entries`, `runs`, `run_stages`, `decisions`, `artifacts`; providers; brain |
| Stages (`night/stages.py`, `output.py`, `research.py`) | results in memory, rows in `run_stages` | open, turn or search, land output, close | artifact store, agents |
| Artifacts (`artifacts/`) | files, rows in `artifacts`, ranks | write, fan out, rank | stages |
| Morning (`morning/`, `api/routes/morning.py`) | `decisions` | brief, ask, answer, consume | night, web |
| Capture (`api/routes/capture.py`, `web/lib/queue.ts`) | `entries`; IndexedDB store `pending` | enqueue, drain, insert or replay | web, API |
| Airlock (`airlock/`) | none | resolve a policy, hold an idea back, redact a query | night, capture, research |
| Providers, config (`providers/`, `config.py`) | the resolved profile | probe, bind, call | night |
| Agents (`agents/`) | `agent_invocations` | invoke | recorder, providers |
| Recorder (`telemetry/`) | the invocation tree, a lock | record, close | every writer |
| Brain (`brain/`) | a git repository | journal, distill, commit | night, sync timer |
| Retrieval (`retrieval/`) | an index table | rebuild, search | night |
| Repository (`db/`) | the schema | named inserts and completions, migrate | everything |
| Evals (`evals/`) | prompts, runs, results | record a baseline, score, judge, compare | providers, brain |
| Ops (`ops/`) | backup directories | backup, restore, doctor | database, brain, files |
| Web (`apps/web`) | the queue; the page a person answers on | capture, interview, scrub through a night | API |
| Deployment (`deploy/spark`) | timers | start the night, retry it; sync the brain; back up | night, API, brain, ops |

What is hard about it: the night can be killed at any statement and no
`finally` runs; the API answers while the night is working; both read a status
and act on it a statement later; recovery must not touch a live night; a stage
can fail, be skipped, or land part of its output and the night still has to
describe honestly what it did.

What makes each part correct:

* *Night and recovery*: an idea never has two runs in flight; no idea is lost
  at `running`, where nothing dispatches it and nothing reports it; a queued
  idea is worked; every run ends.
* *Interview*: an answer belongs to its idea, is given once, reaches a run,
  and is consumed by the run that used it and by no failed one; the page goes
  past a question only when its answer is recorded as it was sent.
* *Briefing*: no night is left out before somebody has acted on a later one.
* *Stages and artifacts*: `complete` means something landed; a stage ran only
  with its inputs; the outcome describes the stages; a run goes on from a group
  that is ranked whole or not at all, and what a kill leaves of a ranking is the
  beginning of one.
* *Capture*: an idea leaves the device's queue only when the server holds it
  or refuses it for good, is stored once, and the count a person sees is the
  queue's.
* *Airlock, retrieval, providers*: nothing of a `local-only` idea is searched
  for, remembered by a run that may talk outward, or handed to a model the
  probe did not verify; a query carries no phrase of its source; an idea held
  back is worked once the machine can.
* *Brain*: an entry is journaled once and never lost, what a sync or a night
  says of a commit is so, and the machine commits no edit its author had not staged,
  but with a file a night revised.
* *Recorder, agents*: everything recorded hangs under the work that caused it;
  a row is closed once, with its failure if it failed; a payload's row names
  files that are there.
* *Evals*: two runs that may be compared pair up, prompt by prompt and sample by
  sample, each from the brain it pinned and under one rubric; a score stands.
* *Backup and migrations*: a copy that verifies is worth restoring, a restore
  that says it is done has put the copy back, and a database is at the version
  it says.

## 2. Modules

| Module | Models | Extends or instantiates |
|---|---|---|
| `IdeaLedger` | what `runs` and `decisions` promise a person: the abstract specification | |
| `NightLoop` | capture, the night, recovery, the interview, the answers, as processes that interleave | instance of `IdeaLedger` |
| `MCNightLoop` | symmetry for TLC | `NightLoop` |
| `NightLoopProofs` | the inductive invariant and the theorems | `NightLoop`, `TLAPS` |
| `StageWalk` | one run's walk over the six stages, and its recovery | |
| `StageWalkProofs` | what the walk's memory knows of the rows, and the theorems | `StageWalk`, `TLAPS` |
| `Inbox` | what capture promises a person: the abstract specification | |
| `CaptureQueue` | the capture page, the device's offline queue, its drains, the network, the API's handler | instance of `Inbox` |
| `CaptureQueueProofs` | its inductive invariant and theorems | `CaptureQueue`, `FiniteSetTheorems`, `TLAPS` |
| `BrainSync`, `MCBrainSync` | the brain's git repository under a sync, a night and a person | |
| `Recorder`, `MCRecorder` | telemetry: tasks, contexts, invocations, calls, payloads, reports from elsewhere | |
| `Redaction` | the query made of an idea, as functions on a sequence of tokens | |
| `Airlock`, `MCAirlock` | probe, profile, quarantine, index, memory, search and turns of an idea's run | instance of `Redaction` |
| `BrainSyncProofs`, `RecorderProofs`, `AirlockProofs` | the inductive invariants and theorems of the module each is named for | that module, `TLAPS` |
| `OperatorProofs` | the same for `Evals` and `Backup`, what an operator runs by command | `Evals`, `Backup`, `TLAPS` |
| `MorningProofs` | the same for `Morning`, and the theorems about the scrubber | `Morning`, `NightTimeline`, `TLAPS` |
| `Evals` | prompts, baselines, scorings, comparisons | |
| `EvalVerdict` | what a comparison says, as functions of scores in whole numbers | |
| `MCEvals` | the two together, and the assumptions about the functions | `Evals`, `EvalVerdict` |
| `Backup` | migrations at start, backups, restores, under a writing night | |
| `Morning` | the briefing as it is read and the page that interviews over it | |
| `NightTimeline` | the layout of a night and the movement of its playhead, as functions | |
| `MCMorning` | symmetry, and the assumptions about the functions | `Morning`, `NightTimeline` |

The modules meet at tables and files. `NightLoop` shows capture as one step,
the row's insert; `CaptureQueue` is what comes before that step. `StageWalk` is
what happens inside the interval between a night's `answers` and `walk`, and
`Airlock` what the same interval reads and sends. `BrainSync` is the `distill`
stage's commit with everyone else who writes the repository. `Recorder` lies
under every turn. `Morning` starts where `ask` of the night ends: the
questions are there, and its page sends the answers `NightLoop` receives.

### NightLoop

`entryStatus`, `run` and `decision` are the tables (columns no property tells
apart are dropped; `run[r].used` is a history of which answers the stages were
handed). `lock` is the flock. `night[n]` and `client[c]` are the memory of a
night process and of a request thread: what they have read and not yet acted
on. `mishaps` counts the kills, raising statements and half-done requests that
have happened, and bounds them.

A night's program counter follows the code:

    down -> recoverRuns -> recoverEntries -> bind -> pick
    pick -> open -> answers -> walk -> mark -> release -> ask -> pick ... down

`AcquireLock` is `night_lock`; `RecoverRun`, `SelectStuckEntries`,
`RecoverEntry` are `recover_interrupted`, with the exception its
`transition_entry` may raise (`RecoverEntryRefused`); `BindAll`, `BindOne`,
`BindRefused` the rest of `_night` before its loop; `Dispatch`, `OpenRun`,
`ReadAnswers`, `CloseRun`, `MarkConsumed`, `ReadForRelease`, `Release` are
`run_entry` statement by statement; `AskQuestion` is `raise_questions`;
`Answer`, `Look`, `ReadForRequeue`, `Requeue` are the answer route. Statuses
`complete` and `degraded` are one value, `worked`: nothing outside the stages
tells them apart. The six stages are one interval here, opened up in StageWalk.

Mishaps: `Crash` at any program counter; `StartFails`, `DispatchFails`,
`EscapesWithoutRelease`, `CloseRunFails`, `MarkConsumedFails` for a statement
that raises, each with what the surrounding `try` and `finally` do about it;
`AbandonAnswer` for a request that dies between its two writes.

Steps that share no data with another process are merged: a lookup followed by
an update of a row nobody else moves is one action (`Dispatch`, `RecoverEntry`:
a queued or a stuck entry is moved only by the holder of the lock). The two
SELECTs of `_release_entry` are one action, its UPDATE another: that is where a
request can come between.

### StageWalk

`stage`, `rows`, `files`, `rank` and `run` survive a kill; `result` and `walk`
are the process. A fan-out writes variants `0..n-1`, each file and each row on
its own, any of which may fail. `Variants` is a parameter though no shipped
prompt produces more than one (`output.py`, `variant_bodies`): the machinery
is the code's. After a kill, `RecoverStage` and `RecoverRun` close what was
left, as the next night does.

### CaptureQueue

`pending` is the IndexedDB store on the device and `stored` the entries table;
both outlive everything else. `page`, `shown`, `busy` and `drain[w]` are the
page's memory and end with it (`ClosePage`); `post[p]` is a request, which goes
on when its page is gone. `captured` is a history.

A drain runs through `list -> loop -> await -> remove -> loop ... -> idle`
(`queue.ts`, `drain`): it reads the queue once, posts what it read item by
item, and removes an item on a final answer (`Final`: 2xx, or 4xx but 429); the
first rejected `fetch` ends it (`count`). `OpenPage`, `ComeOnline` and `Capture`
start one, and nothing in `page.tsx` keeps two from running at once. A request
runs through `sent -> insert -> event -> replied`, the statements of
`capture.py` and `record_entry`: the lookup and the insert are two statements,
and each request has a thread of its own (`LookUp`, `Insert`, `InsertCollides`,
`RecordEvent`). A statement that raises answers 500 (`HandlerFails`), whatever
was stored before it stays. `Disconnect` fails the page's `fetch` while the
server works on; `Vanish` loses the request or its response.

Which ideas the server accepts is a constant, `Acceptable`: it does not change
between two deliveries of the same idea. IndexedDB is modelled by its two
transactions and never loses what it has acknowledged; the order of a drain's
items is free, though the code's is the key's.

### BrainSync

`tree`, `index` and `head` are three snapshots of the same files: each day's
journal, the profile, the night notes. A sync runs `select -> read -> write ...
-> add -> diff -> commit` (`brain/sync.py`, `journal.py`, `repo.py`), a night
`write note -> read topics -> write topics -> add -> diff -> commit -> head`
(`night/output.py`, `beliefs.py`), a person edits, stages and commits at any
moment. `Add` stages the paths of `commit_paths` and `CommitIndex` commits the
whole index: they are the git commands the code runs, one action each. `hand[l]`
says what became of a person's line: unwritten, edited, staged by its author,
`taken` by a night's `git add` of the profile it had revised (`TakenWith`), or
committed by its author; it is a history too.
Mishaps: a process killed anywhere (`Kill`), git that refuses (`GitRefuses`),
and a write that ends inside an entry (`CutShort`). `born` and
`vouched` are histories. A cut block keeps its heading and counts as journaled,
as `journaled_ids` counts it.

### Recorder

A task is a thread or an asyncio task; `current[t]` is its context variable,
`task[t].frames` its `with` blocks. `Enter`, `Exit`, `Raise`, `InsertFailure`,
`CloseFailed` are `invocation`; `Spawn` starts a task in a copy of the context,
or bare in an empty one; `Answer`, `BackendFails`, `RecordCall`, `WritePrompt`,
`WriteCompletion`, `InsertPayload`, `Returned` are a turn
(`Reasoner.complete`, `record_model_call`, `retain`); `Dispatch`, `BeginIngest`,
`IngestRow`, `IngestClose`, `IngestCall` are `ingest_external`, and
`RefuseUnknown` and `RefuseReport` its two refusals, before anything is written
and in the middle. Any statement may be refused by the database: of a turn
`StatementRefused` (the payload's INSERT and the record of a failed write among
them: both are outside the `try` around the files), of an invocation's end
`CloseRefused`, be it a success or a failure that is recorded, of a report
`IngestRefused`. Each raises in the block around it.
The lock is the recorder's: a section of several statements holds it from one
to the next, each committed by itself. `Kill` ends the process and the rows
stay as they are.

### Airlock and Redaction

A text's content is its *matter*, the set of ideas something of which is in it.
The machine (`cuda`, what `serves` on the reasoner's port) changes at any time;
`Probe` and `Resolved` are `config.py`, `Permitted` the policy, `Blocked` the
quarantine, `StartNight`, `Open`, `Retrieve`, `Search`, `Receive`, `Turns`,
`TurnsFail`, `ReleaseFailed`, `EndNight` the night as it concerns what may be
sent. `CollectDocuments` and `MayLeave` are the index: an entry's own text, the
brain's topics, the night files under the policy of the run they name, what a
person decided. `RestoreOlder` is the database put back from an older copy
while the night files stay. Relevance is free: any order of the corpus may be
the ranked one. `Redaction` is `redact.py` on a sentence of tokens, a token a
word, its capital and its shape; words are numbers in alphabetical order, since
the query's order is the alphabet's and that is where it can go wrong. The
code's `sorted` is any arrangement of the terms in that order (`Sorted`); that
there is one is a lemma.

### Evals and EvalVerdict

`disk` is what a command reads when it starts (rubric, served model, the role's
prompt, the judge's instruction, the brain's head) and `Edit` changes any of it.
`RecordBaseline`, `StartScore`, `Sample`, `SampleFails`, `FinishScore` and
`Comparable` are `evals/runner.py`; `EmptyAnswer` is a model's answer with no
text, which ends the scoring by an exception nobody catches; `Readable` is the
judge's parser on a completion's objects. Each result keeps what produced it, as a history, and the
properties compare that with what the tables say. `EvalVerdict` is the
arithmetic of the curve: changes per prompt, their mean against their standard
error, the share that agrees, the pooled spread and the dimensions, squared
and multiplied out so that nothing is rounded.

### Backup

Its specification is `OpsSpec`, of `OpsInit` and `OpsNext`, and its counter of
kills and losses `accidents`: `OperatorProofs` extends it together with `Evals`,
which has the plain names. `live` is the database, its write-ahead log and the two trees of files,
`copies` what is at each destination. `Start` and `Migrate` are a process that
reads the version and one that applies the next script, each script with its
version row or not at all. `BackUpDatabase`, `CopyTree`, `WriteManifest` and
`PutDatabase`, `DropSidecars`, `PutArtifacts`, `PutPayloads`, `Check` are the
commands step by step, with a kill between any two. The share can be unmounted
(its mount point is then a directory of the disk it protects), a copy damaged,
the disk lost. One destination holds a copy of the first release, which had no
payload tree.

### Morning and NightTimeline

The briefing is four reads, `ReadBoundary`, `ReadRuns`, `ReadQuestions`,
`ReadError`, each its own statement, while runs start, end and raise questions
and other pages answer. A page types under the question it shows, sends
(`Dispose`), and goes on only on a recorded answer (`Recorded`; `Advanced` is
what that does to it). `Handle` is the API's side: the first answer stays, the
same answer again is repeated to the sender, another is refused. `Lose` loses a
request or its response. A page may be loaded again whenever it is closed or
ready, also with an answer on its way: the answer is then in `adrift`, where the
API may still handle it (`HandleAdrift`) and nobody hears the reply. That counts
as a loss. `page[p].sent`,
the answers it went past, and `page[p].left`, the runs its briefing did not
have, are histories. `NightTimeline` has no state of its own: the layout, the
playhead, which marks are past and which events are current are functions of a
set of events, in thousandths where the code has fractions.

## 3. Runs

| Run | Question | Instance |
|---|---|---|
| `night_safety` | the safety invariants, the action properties and the refinement of `IdeaLedger`, with everything interleaving | 2 ideas, 3 runs, 2 questions, 2 nights, 2 requests; a kill, a raising statement and a half-done request; symmetry |
| `night_liveness` | is every queued idea worked, every running one released, every run closed, every answer given a run? | 2 ideas, 3 runs, 1 question, 1 night, 1 request; a kill and a raising statement; no symmetry |
| `night_race` | a statement of a comment that the behaviour refutes (section 6) | 1 idea, 2 requests, no mishap |
| `walk` | everything `StageWalk` promises, safety and liveness | 3 variants, 1 kill, 1 raising statement |
| `queue` | is anything dropped, is the count right, and is the inbox implemented, liveness included? | 2 ideas, one of them never acceptable; 2 drains, 2 requests; 1 loss, 1 raising statement, 1 closing of the page |
| `brain` | is every entry journaled, once, is what is said of commits so, and is an edit not staged by its author left alone? | 2 entries on 2 days, a sync, a night, a person's line; 2 mishaps |
| `brain_staged` | a statement of the brain's specification that the behaviour refutes (section 6) | 2 entries, a sync, a person's line |
| `recorder` | is everything filed under its caller, closed, and accounted for? | 2 tasks, 2 invocations, 1 job with three kinds of report; 1 mishap |
| `airlock` | does anything private leave, is a query clean, is a blocked idea worked? | a private and an open idea, 4 runs, 10 sentences, a pinned profile; 1 mishap |
| `evals` | do runs that are compared pair up, and does a score stand? | 2 prompts, 2 scorings, 2 runs of which 1 may be synthetic, 2 edits, 1 mishap; the assumptions of `MCEvals` |
| `backup` | is a copy worth restoring, and a restore the copy? | 1 artifact, 1 payload, 2 destinations, 2 starting processes, 2 migrations, 3 mishaps |
| `morning` | are answers their own, is a night dropped? | 2 runs, 2 questions, 2 pages, 2 instants, 1 loss or reload under an answer; symmetry; the assumptions of `MCMorning` |

The pure functions are compared with reference statements as named assumptions,
which TLC evaluates before the run that extends their module: of `EvalVerdict`
that the verdict is even, monotone, and carried by no single prompt
(`VerdictIsEven`, `VerdictIsMonotone`, `NoPromptCarriesAlone`), that moving is
symmetric and no outlier moves an even run (`MovingIsSymmetric`,
`OutlierMovesNothing`, `DimensionsAgreeOnce`); of `NightTimeline` that every
event fits its night, that a mark is past exactly when it has begun wherever the
playhead went before, that what is current is listed, that keys stay inside and
undo each other, and that positions come back (`EveryEventFits`,
`PastMeansBegun`, `TheCurrentAreListed`, `KeysStayInside`, `PositionsRoundTrip`),
and that a night is laid out in the order of its instants (`MarksAreInOrder`),
which is what the theorems about the playhead assume.

Bounds. In `NightLoop`, `Runs` and `Decisions` bound how many runs open and
questions are asked; `RunsSpent` is the guard that stops the model there, and
liveness properties are stated up to it. Two ideas are needed to see an answer
cross over or one idea starve another, two runs to see a retry and three to see
a retry of a retry, two nights to see the lock refuse, two questions to see a
marking interrupted half-way. One kill and one raising statement in the same
behaviour already cover a recovery that is itself cut short. The ids of runs are
taken in order (`NextRun`). Three variants are the least that tell a ranking of
some from a ranking of all but one.

Two drains and two requests are the least that race, on the device and in the
handler; with one loss, one raising statement and one closing an item can be
delivered three times. Two entries on two days make a sync rewrite two files,
and two mishaps let the one that recovers be cut short as well. Two nested
invocations and a second task are the least in which a context restored out of
order, or not copied, files a row under the wrong one; a report that lists a
child before its parent and one whose call names a row it does not list are the
two ways it can be refused half way. Four runs let a private run's output become
the memory of an open one twice over; the sentences contain every order of
three topics and one that goes round, so that rotations fail. Two baselines are
what is compared, and two edits change two of the pins between them; two
prompts, the second activated at any moment, make a count that comes out with
another prompt missing. Three
mishaps are a restore killed, a restore killed again and a damaged copy. Two
instants put a run and an answer in the same millisecond or not.

Each of the properties is stated over the histories named above where the tables
alone could not show that it fails, and `PROJECT.json` names for each one a
mutation of the code under which its run does fail.

Every module states its `TypeOK` (`Backup` its `OpsTypeOK`), and `night_safety`
and `queue` check it. All of them are proved (section 5), so the other
configurations leave it out.

Deadlock is checked in every run. `StageWalk`, `Recorder` and `Evals` have a
step for "all done, or nobody gives a command" (`Finished`, `Ended`, `Rest`);
elsewhere there is always a process that can be started again or a clock that
may stand.

## 4. Fairness

`FairSpec` of `NightLoop` assumes: some night process takes the lock again and
again (`second-shift-night.user.timer`, `OnCalendar` and `Persistent=true`); a
running night goes on (weak fairness of its steps: every provider call has a
timeout); nights that reach the binding again and again bind all eligible rows
in one of them (strong fairness of `BindAll`: the model servers are not down
every night); a request thread runs to its end. Nothing is assumed of people,
of the interviewer, of nights started by hand, or of mishaps. `StageWalk`
assumes the walk goes on and that another night recovers.

That an answer reaches a run does not hold of every behaviour (section 6), so
`AnswerReachesARun` and `QuietAnswersHaveANight` have the antecedent `[]Quiet`,
no request is between its statements while a night runs, and their instance has
no request that dies there. Answers between two nights, kills of a night and
raising statements are all in it.

`FairSpec` of `CaptureQueue` assumes: a drain that runs goes on, a request is
served or fails, and the page is opened, or comes online, again and again. The
queue has no timer of its own, so this last is a person's doing and not the
code's: an idea captured on a phone that never opens the page again is not
delivered, and the code promises no more.

`FairSpec` of `BrainSync` is the sync's timer, every five minutes, and a sync
that goes on; of `Recorder` that some task goes on while one can, nothing of
which, or of what bodies choose; of `Airlock` that a night goes on and that, if
the local stack is up again and again, one of the timer's nights finds it so
(strong fairness of `StartNight("none")`). The other modules have safety only: a
backup, a scoring and a morning are a person's or an operator's to start.

## 5. Proofs

`tlapm` checks eight modules of theorems. Each holds for every value of the
constants its module's assumption allows: any number of ideas, runs, requests,
processes, mishaps, where a run of section 3 has two or three. The theorems and
the properties they state:

| Module | Theorems |
|---|---|
| `NightLoopProofs` | `TypeCorrect`; `OneRunAtATime` (`OneOpenRunPerIdea`), `ConsumedWasUsed` (`ConsumedByARunThatUsedIt`), `AnswersStayHome` (`AnswersStayWithTheirIdea`), `NothingDisappears` (`NoIdeaLeftRunning`), `UsedIsConsumed` (`UsedAnswersAreConsumed`); of steps, `RecordsStayFinal` (`RecordsAreFinal`), `RecoveryLeavesLiveRuns` (`LiveRunIsClosedByItsNight`); the refinement `ImplementsTheLedger` (`KeepsTheLedger`) |
| `StageWalkProofs` | `WalkTypeCorrect`; `CompleteHasLanded` (`CompleteMeansLanded`), `RankingIsWhole` (`RankedAsAWhole`), `ClosedRunIsDescribed` (`ClosedRunDescribesItsStages`); of steps, `FinishedIsKept` (`FinishedWorkIsKept`) |
| `CaptureQueueProofs` | `QueueTypes`; `NothingLost` (`NothingIsDropped`), `CountStaysHonest` (`CountIsHonest`); the refinement `ImplementsTheInbox` (`Promise!SafeSpec`) |
| `MorningProofs` | `MorningTypes`; `NoNightLost` (`NoNightIsDropped`), `AnswersStayTheirOwn` (`AnswersAreTheirOwn`); of the scrubber, `PastMeansItHasBegun`, `PastMeansBegunAfterAnyMoves`, `PositionsComeBack` |
| `BrainSyncProofs` | `BrainTypes`; `UnfinishedIsNotCommitted` (`UnfinishedThoughtsStayOut`); while syncs do not overlap, `EntriesJournaledOnce` (`JournaledOnce`), `CommitRecordsAreTrue` (`RecordsOfCommitsAreTrue`) |
| `RecorderProofs` | `RecorderTypes`; `RecordedUnderItsCaller` (`FiledUnderItsCaller`), `TurnsAreAccountedFor` (`EveryTurnIsAccountedFor`), `PayloadsAreThere` (`PayloadIsThere`), `NoCloseIsRefused`; of steps, `EveryRowIsClosedOnce` |
| `AirlockProofs` | `AirlockTypes`; `PrivateStaysHome` (`NothingPrivateLeaves`), `QueriesAreClean` (`QueryCarriesNoPhrase`), `QueriesAreShort` |
| `OperatorProofs` | of `Evals`: `EvalsTypes`; `ComparedRunsPairUp` (`ComparedPairsUp`); of steps, `ScoresStand` (`AScoreStands`). Of `Backup`: `OpsTypes`; `CopiesWorthRestoring` (`CopiesAreWorthRestoring`), `RestoresTheCopy` (`RestoredIsTheCopy`); of steps, `KeepsThePayloads` |

Hardly any of these properties is inductive as it stands. What follows says for
each module what its invariant adds, and why.

**NightLoop.** That an idea has one run in flight depends on why a night may
open another. `LoopInv` has

1. `OnlyTheHolderRuns`: a night that is not `down` holds the lock, so at most
   one night is up;
2. `NightsAgree`: what the night remembers agrees with the tables
   (`Remembers`: from `answers` to `walk` its run is open and is of its entry;
   at `mark` the answers to mark are among those the run used), and a night
   past the recovery of runs that has none open in hand leaves no run open of
   the ideas it will dispatch, `NothingOpenAhead`;
3. with these, `OneOpenRunPerIdea`, `HandedAreQueued` (what a run was handed
   are queued answers of its idea) and `ConsumedByARunThatUsedIt` are
   preserved by every action.

The module has one lemma for each group of actions that disturb the same
conjuncts (`QuietSteps`, `LeavingSteps`, `OpenRunStep`, `CloseRunStep`, ...),
and `InvStep` puts them together. The refinement is `LedgerStep`: a step that
opens a run maps to `Start`, handing answers to `HandAnswers`, closing or
recovering to `End`, marking to `Consume`, asking and answering to `Ask` and
`Answer`, all others to a stutter.

That no idea is lost at `running` takes `RunningInv` beside it: a night between
entries names none (`NamesItsEntry`), and what is `running` at each of its steps
is what its recovery still has to return, then nothing, then the entry in its
hands (`LeavesRunning`), as long as no statement has raised. A kill leaves the
entry behind and the lock free; the next night's `SelectStuckEntries` reads
every such entry, which is why `LeavesRunning` can start again there.
`UsedAnswersAreConsumed` is inductive together with `LoopInv`.

**StageWalk.** `WalkInv` relates the walk's memory to the rows it has written.
`MemoryIsTrue`: while the process lives, a result is `complete` exactly if the
row is, so a run closed by what the walk remembers says what the rows say. `AtWork` and `Writing`: the stage in hand is open and had its inputs,
and a row follows its file. A ranking is one UPDATE per variant, so
`RankedAsAWhole` has to hold between any two, and after a kill there. Three
conjuncts carry it. `InOrder`: the builds with a rank are landed ones and hold
exactly `1..k`, at every moment. `RankingSoFar`, the loop invariant: what is left
of the ordering names, once each, the builds with no rank; its step
(`RankOneStep`) and `OrderingTypes`, that an ordering of all builds names each of
them once, are where the number of variants matters. `WholeOrNone`: part of a
group has ranks only in the loop, or once the process stopped there (`CutShort`),
and never with a `distill` row, which is not inserted before the walk has left
the loop (`DistillAhead`). `WhenRanked` says that no rank exists before a
critique has completed, and `ClosedAsItWas` what the close wrote.

**CaptureQueue.** A drain in `remove` deletes on the strength of an answer it
got steps ago. `QueueInv` adds what each process knows: `PostKnows` (a request
past its lookup is of an acceptable idea, one with a reply `ok` of a stored one,
one refused of one that never can be), `DrainKnows` (what is about to be removed
is settled), and `OnePostEach` (a drain waits for one request, so an answer
reaches the drain that asked). What is stored stays stored and what is
unacceptable stays so, hence what a process knows no other process can make
untrue. `ImplementsTheInbox` is the safety part of the refinement. The count a
page shows is one conjunct more (`CountInv`): a closed page runs no drain, so
the page that opens starts from a queue nobody is removing from.

**Morning.** A briefing is four statements with the night writing between them.
`LeavesOut` says what a page knows after each: once the boundary is read, that
somebody answered at that instant or later (or that nobody has); once the runs
are read, that each run it leaves out started no later than such an answer.
`ActedSince` only ever grows, so
whatever another page or the night does later keeps it. `Interviewed` and
`AsksFor` tie a draft to the question shown and a request on its way to the
question it was sent for, and an answer adrift keeps the text it was typed with.
`StoredByItself` is the lemma for both ways an answer is stored: one once
recorded is not replaced, so what a page went past stays what is recorded.

**BrainSync.** Four invariants. The types. `HandsOff`: a line its author has not
staged, and no night took, is neither in the index nor in `HEAD`, and one not yet
written is in no night's memory of the profile either. `AddTakes` is the step
that matters: a process that stages the profile has revised it, and then every
line in it that was only edited is taken. `NotesInv`: a note is staged before it is
committed, committed before a night records it, and once in `HEAD` stays there,
whoever commits in between. These hold for syncs that overlap as well.
`JournalInv` needs that they do not (`~Overlap`, an assumption of the two
theorems and not of the module; section 6 has what happens otherwise): `Knows`
says what the sync at work has read and still has to write (what it has to do is
not in the journal, what it knows is there or to do, and the file it read is the
file as it is), `FilesOnce` that a day's file in tree, index and `HEAD` has an
entry once. A cut write keeps the blocks it has (`LeftoverOnce`), a rewritten
file the old blocks and the new (`RewrittenOnce`). The constants' assumption has
that the names of nights are those of no sync and no line.

**Recorder.** What is recorded is filed under the context variable, so the
proof is that the variable is what it should be. `Stack`: the blocks a task is
in are rows of its own, open, each later than the one around it, each
remembering the row of the one below (`saved`), and the context is the
innermost. `Turn` and `Taking` say what a turn and a report in progress have
recorded so far; `Ledger` what the tables say of one another. `OthersKeep` is
the lemma that makes the rest local: a step of one task disturbs no other's
memory when the lock is free or its own.

The attempt at this proof showed that the module's own statement was too strong.
A bare thread that is in no invocation and starts a task hands it the empty
context, so that task's rows are roots although it was started from a task that
has one. With two tasks no run reaches that; with three it is reachable and the
step does not preserve the invariant. It is what the code does
(`telemetry/context.py`: a thread that was not given its context has none to
give), so `Spawn` now marks such a task bare as well (`Adrift`).

Two theorems are not about a property of the run. `close_invocation` raises for
a row already closed, and `Closed` has no such refusal. `NoCloseIsRefused` is
why it needs none: what a block or a report is about to close is open, after
kills and refused statements too. `EveryRowIsClosedOnce` says the same of steps,
and that nothing recorded is removed or filed anew.

**Airlock.** Matter is followed from where it is written to where it is read.
`RunIsClean`: a run is held to its idea's policy, and one that may talk outward
has seen nothing private. Hence a document of the index that may leave has
nothing private in it (`DocumentsAreClean`, one case per kind of document),
hence neither has a memory assembled for such a run (`MemoryIsClean`), and what
that run writes is clean in turn. `NightKnows` has what the probe found.

`QueriesAreClean` is about `Redaction`, for sentences of any length. The words
of a query are the terms (`TermsEarned`: none is a name, a dull or a sensitive
word); a rotation is taken only if it is clean, and when there is none one term
is left, which is no phrase because a phrase has more than one word
(`MaxRun > 1` in the assumption; the code's is 3) (`BrokenIsClean`). `Sorted` is
a choice, so it has to be shown that an ordering of any finite set of words
exists: `SortedExists` takes a set without one of the least size, orders it
without its least word, and puts that word in front. That is how an induction is
done here, from `WFMin` and an explicit minimal counterexample, since the
library's induction theorems take an operator the provers cannot instantiate.

`QueriesAreShort` follows from the same loops: terms are taken in increasing
order and no more than `MaxTerms` (`TermsEarned`), a rotation has the same words
in another order (`RotationIsDistinct`), and breaking an order only drops some
(`BrokenIsClean`).

**Evals.** Provenance: a scoring, and so each row it stores, was made under what
its run had pinned (`Pinned`), and no step changes a pin (`KeepsPins`); a rubric edited since the
baseline is refused when the scoring starts, and one edited later is not read
again. `OneRowEach` is the table's uniqueness over all scorings that overlap.
That compared runs pair up is counting: `summarize` compares a number of rows
with a number of prompts times samples. A row is of a prompt that was active, and
a prompt once active stays so (`AskedInv`), so with one value of `--samples` the
rows of a run are among the samples asked (`ActivePrompts`); no two rows are of
the same sample; and as many of them as there are asked are all of them
(`CountedIsAnswered`). With two values of `--samples` it is false (section 6), so the
theorem is stated for a deployment that uses one.

**Backup.** `OpsInv` is about order. A backup copies the rows before the trees
and files are only ever added while nobody restores, so what it has yet to copy
of the rows it took is still there to be copied (`CopiedSoFar`), and what has a
manifest is whole (`CopiesKept`, `CopyIsWhole`; a damaged copy keeps its manifest
and is refused by `VerifyBackup`). A restore puts back the database, drops the old
log, and then the trees, and nobody writes meanwhile: `PutSoFar` is its loop
invariant, one line for each step it is past, and a restore that was killed
leaves nothing the next one relies on. Of migrations, a process applies the
script after the version it has read, which the database may have reached
without it; then the script's version row refuses it. `ReadBefore` keeps that
reading at or below the version there is, so a script that is not refused is the
next one (`KnownVersion`); and nobody holds a reading while a restore runs, which
would set the version back.
`KeepsThePayloads` is the other half of `OldCopyLeavesPayloads` (section 6):
without `--overwrite` no step of a restore of a copy without a payload tree
changes a payload.

**NightTimeline.** No state, but two loops: the playhead goes forwards over what
the new instant has reached and back over what it has left. `PastMeansItHasBegun`
takes any night whose marks are in order (`InTheirOrder`), any playhead that is
drawn as far as it has crossed (`Drawn`) and any position, inside the night or
not: what the move leaves is `Drawn` again, and past is what has begun. The
playhead at rest is `Drawn`, so that a first move after which it is not cannot
be: `PastMeansBegunAfterAnyMoves`, for any number of moves. The loops are recursive
functions, and that each stops where it should (`GoesForwards`, `GoesBackwards`)
is shown by naming the function they define and a minimal counterexample. That
`LayoutNight` yields such a night is a sort and a fold, and stays with TLC
(`MarksAreInOrder`). `PositionsComeBack` is arithmetic.

The assumptions are about the constants alone, and each is what the code or the
choice of names gives: `MaxTime > 0` of `Morning` (there is a clock), finitely
many `Prompts` of `Evals`, `None` no task and no job a task in `Recorder`,
sentences of tokens in `Airlock`. The model-checking runs extend every module
that has one, so TLC evaluates them all.

Model-checked only:

Every safety property of a passing run is stated by a theorem. What is left:

* liveness: `QueuedIdeaIsWorked`, `RunningIdeaIsReleased`, `OpenRunIsClosed`,
  `QuietAnswersHaveANight`, `AnswerReachesARun`, `EveryRunEnds`,
  `EveryEntryIsJournaled`, `EveryInvocationCloses`, `BlockedIsReleased` and the
  liveness half of `Inbox`: fairness and ENABLED are out of the prover's reach;
* `EvalVerdict` and `NightTimeline`: functions compared with reference
  statements on bounded inputs, but for the theorems on the playhead. Sums
  and sorts are folds, and what a fold computes for every input is an induction
  over data.


## 6. What the code does that its comments do not say

Two have a run that finds them; `PROJECT.json` quotes the lines.

* An answer given between the two statements of a release is left with an idea
  at rest (`night_race`).
* A sync commits what a person had staged and not committed (`brain_staged`).
  `openspec/specs/brain/spec.md:48-59` says that an edit by hand "not yet
  committed MUST be left untouched and uncommitted" and that a sync's commit
  "contains only journal changes", and `repo.py:116-118` that staging by path is
  what keeps such an edit out. `git commit -m` without paths (`repo.py:125`)
  commits the whole index, and the check for something to commit (`:122`) sees
  what others staged, so a sync with nothing of its own commits too. What the
  code does keep is `UnfinishedThoughtsStayOut`: an edit its author has not
  staged reaches a commit only with a file that a night had revised and staged.

The modules state more, each as a property no configuration checks, because TLC
refutes it. To see the trace, add it to the configuration named.

* `AnswerHasANight` (`NightRace.cfg` with `MaxAbandons = 1` and one client): an
  API that dies between storing an answer (`interview.py:186`) and re-queuing
  its idea (`:197`) leaves the same, and a retry does not repair it.
* `ARunIsClosedOnEveryPath` (`NightSafety.cfg` with `MaxCrashes = 0`): "`run_entry`
  closes its own run on every path" (`night/__main__.py:219`) does not hold of a
  statement raising before its inner `try` (`run.py:444`), or in the close.
* `SaysNoneOnlyWhenNone` (`Morning.cfg`; one run, one question and one page are
  enough): an interview that raised a question and then failed leaves both an
  open question and an `interviewer_error`. With one, the page renders "The
  interviewer could not run, so there are no questions this morning."
  (`page.tsx:159-170`) in place of the questions there are. The briefing lists
  every open question whatever failed (`briefing.py:169-173`), and the failure of
  any run since the boundary sets the error (`:184-194`), so one entry's failed
  interview hides the questions of all others. Only an answer moves the boundary past the failed run,
  and a page that shows no question answers none: they stay hidden on every later
  morning.
* `RetentionFailsNoTurn` (`Recorder.cfg`, under `PROPERTIES`): "A retention
  failure does not fail the completion" (`recorder.py:257-260`) holds of the two
  files, whose `OSError` is caught (`:273-283`). The INSERT of their row comes after
  the `try` (`:285-294`): refused, it raises through `Reasoner.complete`, and a
  turn that was paid for and answered ends as a failed invocation. The record of
  a failed write is another such statement.
* `NoStageOutlivesItsRun` (`Walk.cfg`): a raising close (`run.py:318`) leaves a
  stage `running` under a closed run, where recovery does not look.
* `NeverPartlyRanked` (`Walk.cfg`): "all or nothing" (`variants.py:118`) is one
  UPDATE per variant, so a kill or a raise between two leaves the first ranks of
  an ordering and no others. `RankedAsAWhole` is what holds: they are 1, 2, ... of
  one ordering of landed builds, and no run goes on from such a group.
* `DuplicateSucceeds` (`Queue.cfg`): two deliveries of one idea at the same time:
  the second is answered 500, not with the stored entry. Nothing is lost, the
  item is posted again.
* `OneGenerator` (`Evals.cfg` with `Scorers = {s1}` and `MaxEdits = 3`): the evals
  specification refuses a comparison of runs "produced by different models", and
  the code compares the two runs' models as sets. A first baseline is scored on
  the one active prompt under one model, a second under another; a second prompt
  is activated, the first run is scored on it under the second model and the
  second run under the first. Both have the set of the two models and are
  compared, and every prompt's two answers are of different models.
* `ComparedPairsUp` with `Samples = {1, 2}` (`Evals.cfg`): a scoring's completeness
  is a count against the `--samples` given now. A run of two samples of which one
  failed has as many rows as one sample each would have, and is compared under
  `--samples 1` though it did not finish.
* `OneInstrument` (`Evals.cfg`): the curve compares judges by name. A run whose
  failed sample is topped up under another instruction, or a run judged with an
  edited one, is compared with one judged before.
* `OldCopyLeavesPayloads` (`Backup.cfg`, under `PROPERTIES`): a restore with
  `--overwrite` removes the payload tree before it looks whether the copy has
  one (`restore.py:149-154`), so a copy of the first release deletes every
  payload of the machine.
* `JournaledOnce` with `Overlap = TRUE` (`Brain.cfg`, two syncs): a sync started
  by hand over the timer's journals entries twice, or loses some.

Seen while reading, and stated in no module:

* With a pinned profile the night takes the local stack to be available without
  asking (`night/__main__.py`, `_work`), and `Airlock` excepts pinned nights
  from `ProbeSaidSo`. The API's capability report is resolved once at its start.
  Under the cloud profile the quarantine lists cloud-assisted ideas as
  dispatchable and the night refuses to bind.
* `_retrieve` reads the brain's working tree though the run pins its head.
* An answer without text (`providers/vllm.py:173` passes one on) is taken for a
  generator that broke its contract: `_completion_of` (`evals/runner.py:249`)
  raises a `TypeError` that `score` does not catch, and the scoring ends there
  with no failure recorded, where a bad output would be one failed sample.
* A run may be whole, then partial after an activation.
* A restore asks neither the night's lock nor the API; killed between the copy
  and the unlinking of the sidecars it leaves another database's log, which
  `RestoredIsTheCopy` allows until it says it is done. A backup of a machine
  restored half-way verifies though rows lack files (`lost` in the model).
* The doctor takes the night's lock for a moment when it asks whether it is
  held (`doctor.py:202`).
* A run in progress when an older question is answered, or one that starts in
  that millisecond, is before the boundary and is in no later briefing: the
  boundary is drawn at a run's start, as the specification says.
* Text typed while an answer is on its way is cleared when it arrives; a page
  refused with 409 stays on its question until it is reloaded.
* In the scrubber the detail of a previous event stays when the next one fails
  to load (`Scrubber.tsx:207`), "all stages complete" is shown when some were
  skipped, and a duration may read "1m 60s" (`timeline.ts:323`).

## 7. Not modelled

* HTTP clients, wording, layout and rendering; the API's read routes and its
  wiring, which change no state.
* The doctor, which only reads; seeds, scripts and unit files beyond their
  fairness.
* The service worker, which serves reads; the wording of prompts and of skip
  reasons; the parsing of beliefs, orderings and questions out of a model's
  text (their outcomes are free choices of the models).
* Prices, tokens and durations of calls; chunks, embeddings and ranks of the
  index.
* Content of artifacts beyond their being there: hashes, paths and `verify`.

## 8. Plan

Modelled and checked: everything of section 2. Proved: every safety property of
the runs, and what section 5 adds. What would come next:

1. The refinement of `IdeaLedger` is of the two tables of `NightLoop`; the pages
   of `Morning` and the device of `CaptureQueue` could be shown to feed it.
2. Of `Evals`, that what `OneInstrument` asks does hold of runs that were judged
   once and never topped up.
3. Of `Redaction`, that no shorter query is sent where a longer one was clean.
4. The hazards without a property (`PROJECT.json`): two syncs that overlap, and
   a journal entry cut in its middle, wait for the code to decide what it means
   by them.
