----------------------------- MODULE NightLoop -----------------------------
(***************************************************************************)
(* The loop Second Shift exists for: an idea is captured, a night works    *)
(* it, the night asks a question, the morning answers it, and the answer   *)
(* gives the idea another night.                                           *)
(*                                                                         *)
(* Two programs share one SQLite file.  The night (night/__main__.py,      *)
(* night/run.py, night/recovery.py) is a process started by a timer or by  *)
(* hand.  The API (api/routes/capture.py, api/routes/morning.py) serves    *)
(* one thread per request.  Both connect with isolation_level=None, so     *)
(* every SQL statement commits on its own (db/connection.py): an action    *)
(* here is one statement, or a run of statements between which no other    *)
(* process can change what they read.                                      *)
(*                                                                         *)
(* A night and a request carry what they have read in a record of their    *)
(* own; killing the process throws that record away and keeps the tables.  *)
(* The six stages of a run are one interval here (pc "walk", left with an  *)
(* outcome); module StageWalk opens that interval up.                      *)
(***************************************************************************)
EXTENDS Naturals, FiniteSets

CONSTANTS
    Entries,      \* ids of entries that are real and have text
    Runs,         \* ids a run row may take: the bound on how many runs open
    Decisions,    \* ids a question may take: the bound on how many are asked
    Nights,       \* night processes that may be started
    Clients,      \* request threads of the API that answer questions
    NoEntry, NoRun, NoDecision, NoNight,
    MaxCrashes,   \* how many times a night is killed
    MaxFaults,    \* how many statements of a night raise
    MaxAbandons   \* how many answer requests die between their two writes

ASSUME ConstantsAssumption ==
    /\ NoEntry \notin Entries
    /\ NoRun \notin Runs
    /\ NoDecision \notin Decisions
    /\ NoNight \notin Nights
    /\ MaxCrashes \in Nat
    /\ MaxFaults \in Nat
    /\ MaxAbandons \in Nat

VARIABLES
    entryStatus,  \* entries.status, "absent" before the insert
    run,          \* the runs table; `used` is what the stages were handed
    decision,     \* the decisions table
    lock,         \* holder of the flock beside the database
    night,        \* what each night process has in memory
    client,       \* what each answer request has in memory
    mishaps       \* how many mishaps of each kind have happened

vars == <<entryStatus, run, decision, lock, night, client, mishaps>>

-----------------------------------------------------------------------------
(* The tables and the operations on them.                                  *)

EntryStatuses == {"absent", "queued", "running", "answered"}

\* Mutant: an answered idea cannot be queued again.
OneNightPerIdea == { <<"queued", "running">>, <<"running", "answered">>,
                     <<"running", "queued">> }

\* Repository._ENTRY_TRANSITIONS, without the moves into "archived" and out of
\* "captured": nothing in the program makes either.
EntryTransitions ==
    { <<"queued", "running">>, <<"running", "answered">>,
      <<"running", "queued">>, <<"answered", "queued">> }

Permitted(from, to) == <<from, to>> \in EntryTransitions

\* The UPDATE of transition_entry.  It names the status that was read, and its
\* row count is not looked at: a status that has moved on makes it a no-op.
SetStatus(e, read, to) ==
    entryStatus' = [entryStatus EXCEPT ![e] = IF @ = read THEN to ELSE @]

\* "worked" stands for the outcomes `complete` and `degraded`.
Outcomes == {"failed", "worked"}

NoRow == [entry |-> NoEntry, outcome |-> "none", used |-> {}]

OpenRuns == {r \in Runs : run[r].outcome = "open"}

RunsSpent == \A r \in Runs : run[r].outcome # "none"

\* "settled" stands for the answers that ask for nothing tonight: decided,
\* deferred and obsolete.
AnswerStatuses == {"queued-for-tonight", "settled"}

Unasked == [entry |-> NoEntry, status |-> "unasked", consumedBy |-> NoRun]

\* Mutant: an idea that has had a run is passed over.
NeverRunBefore == {e \in Entries : /\ entryStatus[e] = "queued"
                                   /\ \A r \in Runs : run[r].entry # e}

Eligible == {e \in Entries : entryStatus[e] = "queued"}

RunningEntries == {e \in Entries : entryStatus[e] = "running"}

QueuedForTonight(e) ==
    {d \in Decisions : /\ decision[d].entry = e
                       /\ decision[d].status = "queued-for-tonight"
                       /\ decision[d].consumedBy = NoRun}

-----------------------------------------------------------------------------
(* What a process has in memory.                                           *)

NightSteps ==
    {"down", "recoverRuns", "recoverEntries", "bind", "pick", "open",
     "answers", "walk", "mark", "release", "ask"}

\* rows    what is left of the rows selected once, at the start
\* entry, run, toMark   the entry being worked, its run, answers to mark
\* verdict, raised      the outcome computed, an exception on its way out
\* target  the status the entry is about to be released to
Down == [pc |-> "down", rows |-> {}, entry |-> NoEntry, run |-> NoRun,
         toMark |-> {}, verdict |-> "failed", raised |-> FALSE,
         target |-> "queued"]

BetweenEntries(rows) == [Down EXCEPT !.pc = "pick", !.rows = rows]

Idle == [pc |-> "idle", decision |-> NoDecision, seen |-> "absent"]

Init ==
    /\ entryStatus = [e \in Entries |-> "absent"]
    /\ run = [r \in Runs |-> NoRow]
    /\ decision = [d \in Decisions |-> Unasked]
    /\ lock = NoNight
    /\ night = [n \in Nights |-> Down]
    /\ client = [c \in Clients |-> Idle]
    /\ mishaps = [crash |-> 0, fault |-> 0, abandon |-> 0]

-----------------------------------------------------------------------------
(* Capture: a posted idea is inserted already queued.                      *)

\* Mutant: the row keeps the status it is born with.
CaptureOnly(e) ==
    /\ entryStatus[e] = "absent"
    /\ entryStatus' = [entryStatus EXCEPT ![e] = "captured"]
    /\ UNCHANGED <<run, decision, lock, night, client, mishaps>>

Capture(e) ==
    /\ entryStatus[e] = "absent"
    /\ entryStatus' = [entryStatus EXCEPT ![e] = "queued"]
    /\ UNCHANGED <<run, decision, lock, night, client, mishaps>>

-----------------------------------------------------------------------------
(* The night: lock, recovery, binding.                                     *)

\* Mutant: the lock is opened and never taken.
LockIsNotTaken == TRUE

LockIsFree == lock = NoNight

\* A second night is refused (exit 3) and changes nothing: no action.
AcquireLock(n) ==
    /\ night[n].pc = "down"
    /\ LockIsFree
    /\ lock' = n
    /\ night' = [night EXCEPT ![n].pc = "recoverRuns"]
    /\ UNCHANGED <<entryStatus, run, decision, client, mishaps>>

\* Leaving the program, on purpose or not: the kernel releases the flock.
Exit(n) ==
    /\ lock' = IF lock = n THEN NoNight ELSE lock
    /\ night' = [night EXCEPT ![n] = Down]

\* Mutants: recovery returns entries and forgets runs; it looks for the runs
\* through the entries that are still `running`.
NoRunsRecovered == {}
RunsOfRunningEntries == {r \in OpenRuns : run[r].entry \in RunningEntries}

\* The runs recovery closes.
Interrupted == OpenRuns

RecoverRun(n, r) ==
    /\ night[n].pc = "recoverRuns"
    /\ r \in Interrupted
    /\ run' = [run EXCEPT ![r].outcome = "failed"]
    /\ UNCHANGED <<entryStatus, decision, lock, night, client, mishaps>>

\* Mutant: recovery looks for the entries through their runs.
StuckWithARun == {e \in RunningEntries : \E r \in Runs : run[r].entry = e}

\* The entries recovery returns to the queue, selected in one statement.
Stuck == RunningEntries

SelectStuckEntries(n) ==
    /\ night[n].pc = "recoverRuns"
    /\ Interrupted = {}
    /\ night' = [night EXCEPT ![n] =
                  [@ EXCEPT !.pc = "recoverEntries", !.rows = Stuck]]
    /\ UNCHANGED <<entryStatus, run, decision, lock, client, mishaps>>

RecoverEntry(n, e) ==
    /\ night[n].pc = "recoverEntries"
    /\ e \in night[n].rows
    /\ Permitted(entryStatus[e], "queued")
    /\ SetStatus(e, entryStatus[e], "queued")
    /\ night' = [night EXCEPT ![n].rows = @ \ {e}]
    /\ UNCHANGED <<run, decision, lock, client, mishaps>>

\* An entry that is no longer `running` makes transition_entry raise, and
\* nothing in _night catches it.
RecoverEntryRefused(n, e) ==
    /\ night[n].pc = "recoverEntries"
    /\ e \in night[n].rows
    /\ ~Permitted(entryStatus[e], "queued")
    /\ Exit(n)
    /\ UNCHANGED <<entryStatus, run, decision, client, mishaps>>

RecoveryDone(n) ==
    /\ night[n].pc = "recoverEntries"
    /\ night[n].rows = {}
    /\ night' = [night EXCEPT ![n].pc = "bind"]
    /\ UNCHANGED <<entryStatus, run, decision, lock, client, mishaps>>

\* The profile resolved to `cloud`, or a backend could not be bound (exit 2);
\* or --entry named an entry that is not eligible (exit 1).
BindRefused(n) ==
    /\ night[n].pc = "bind"
    /\ Exit(n)
    /\ UNCHANGED <<entryStatus, run, decision, client, mishaps>>

\* The eligible rows are selected once.  The timer's night takes them all.
BindAll(n) ==
    /\ night[n].pc = "bind"
    /\ night' = [night EXCEPT ![n] = BetweenEntries(Eligible)]
    /\ UNCHANGED <<entryStatus, run, decision, lock, client, mishaps>>

\* A night started by hand with --entry takes the one it names.
BindOne(n, e) ==
    /\ night[n].pc = "bind"
    /\ e \in Eligible
    /\ night' = [night EXCEPT ![n] = BetweenEntries({e})]
    /\ UNCHANGED <<entryStatus, run, decision, lock, client, mishaps>>

-----------------------------------------------------------------------------
(* The night: one entry.                                                   *)

\* transition_entry to `running`.  Nothing else moves a queued entry, so its
\* SELECT and its UPDATE are one step.  RunsSpent bounds the model.
Dispatch(n, e) ==
    /\ night[n].pc = "pick"
    /\ e \in night[n].rows
    /\ ~RunsSpent
    /\ Permitted(entryStatus[e], "running")
    /\ SetStatus(e, entryStatus[e], "running")
    /\ night' = [night EXCEPT ![n] =
                  [@ EXCEPT !.pc = "open", !.rows = night[n].rows \ {e},
                            !.entry = e]]
    /\ UNCHANGED <<run, decision, lock, client, mishaps>>

\* The ids of runs are taken in the order of their time: which one it is decides
\* nothing, so the model takes one and not any.
NextRun == CHOOSE r \in Runs : run[r].outcome = "none"

OpenRun(n, r) ==
    /\ night[n].pc = "open"
    /\ run[r].outcome = "none" /\ r = NextRun
    /\ run' = [run EXCEPT ![r] = [entry |-> night[n].entry,
                                  outcome |-> "open", used |-> {}]]
    /\ night' = [night EXCEPT ![n] = [@ EXCEPT !.pc = "answers", !.run = r]]
    /\ UNCHANGED <<entryStatus, decision, lock, client, mishaps>>

\* Mutants: every idea's answers; answers an earlier run has consumed too.
EveryonesAnswers(e) == UNION {QueuedForTonight(f) : f \in Entries}
ConsumedAnswersToo(e) ==
    {d \in Decisions : /\ decision[d].entry = e
                       /\ decision[d].status = "queued-for-tonight"}

\* The answers the stages of this run are handed.
Handed(e) == QueuedForTonight(e)

ReadAnswers(n) ==
    /\ night[n].pc = "answers"
    /\ run' = [run EXCEPT ![night[n].run].used = Handed(night[n].entry)]
    /\ night' = [night EXCEPT ![n].pc = "walk"]
    /\ UNCHANGED <<entryStatus, decision, lock, client, mishaps>>

\* Mutants: a failed run marks too; only one answer is marked.
MarkEvenIfFailed(r, verdict) == run[r].used
MarkOne(r, verdict) ==
    IF verdict = "failed" \/ run[r].used = {} THEN {}
    ELSE {CHOOSE d \in run[r].used : TRUE}

\* Which answers a run that closed with this outcome marks consumed.
ToMark(r, verdict) == IF verdict = "failed" THEN {} ELSE run[r].used

\* The stages are over, one way or another, and the run is closed.
CloseRun(n, verdict) ==
    /\ night[n].pc = "walk"
    /\ run[night[n].run].outcome = "open"
    /\ run' = [run EXCEPT ![night[n].run].outcome = verdict]
    /\ night' = [night EXCEPT ![n] =
                  [@ EXCEPT !.pc = "mark",
                            !.verdict = verdict,
                            !.toMark = ToMark(night[n].run, verdict)]]
    /\ UNCHANGED <<entryStatus, decision, lock, client, mishaps>>

MarkConsumed(n, d) ==
    /\ night[n].pc = "mark"
    /\ d \in night[n].toMark
    /\ decision[d].consumedBy = NoRun
    /\ decision' = [decision EXCEPT ![d].consumedBy = night[n].run]
    /\ night' = [night EXCEPT ![n].toMark = @ \ {d}]
    /\ UNCHANGED <<entryStatus, run, lock, client, mishaps>>

\* Mutant: an answer that is waiting is not looked for.
ReleaseByOutcome(e, verdict) == IF verdict = "failed" THEN "queued" ELSE "answered"

\* Where _release_entry sends the entry.
ReleaseTo(e, verdict) ==
    IF verdict = "failed" \/ QueuedForTonight(e) # {} THEN "queued"
                                                      ELSE "answered"

\* The two SELECTs of _release_entry: answers waiting, then the status.
ReadForRelease(n) ==
    LET e == night[n].entry
        target == ReleaseTo(e, night[n].verdict)
    IN  /\ night[n].pc = "mark"
        /\ night[n].toMark = {}
        /\ Permitted(entryStatus[e], target)
        /\ night' = [night EXCEPT ![n] =
                  [@ EXCEPT !.pc = "release", !.target = target]]
        /\ UNCHANGED <<entryStatus, run, decision, lock, client, mishaps>>

\* The entry was moved while its run was open: transition_entry raises, the
\* night records it and goes on to the next entry, and asks nothing.
ReleaseRefused(n) ==
    LET e == night[n].entry
    IN  /\ night[n].pc = "mark"
        /\ night[n].toMark = {}
        /\ ~Permitted(entryStatus[e], ReleaseTo(e, night[n].verdict))
        /\ night' = [night EXCEPT ![n] = BetweenEntries(@.rows)]
        /\ UNCHANGED <<entryStatus, run, decision, lock, client, mishaps>>

\* The UPDATE of the release.  An exception in flight skips the interviewer.
Release(n) ==
    /\ night[n].pc = "release"
    /\ SetStatus(night[n].entry, "running", night[n].target)
    /\ night' = [night EXCEPT ![n] = IF @.raised THEN BetweenEntries(@.rows)
                                     ELSE [@ EXCEPT !.pc = "ask"]]
    /\ UNCHANGED <<run, decision, lock, client, mishaps>>

\* raise_questions inserts its questions one statement at a time.
AskQuestion(n, d) ==
    /\ night[n].pc = "ask"
    /\ decision[d].status = "unasked"
    /\ decision' = [decision EXCEPT ![d] = [entry |-> night[n].entry,
                                            status |-> "open",
                                            consumedBy |-> NoRun]]
    /\ UNCHANGED <<entryStatus, run, lock, night, client, mishaps>>

\* The turn asked no more, or the interviewer raised: recorded either way.
AskingDone(n) ==
    /\ night[n].pc = "ask"
    /\ night' = [night EXCEPT ![n] = BetweenEntries(@.rows)]
    /\ UNCHANGED <<entryStatus, run, decision, lock, client, mishaps>>

NightDone(n) ==
    /\ night[n].pc = "pick"
    /\ night[n].rows = {} \/ RunsSpent
    /\ Exit(n)
    /\ UNCHANGED <<entryStatus, run, decision, client, mishaps>>

-----------------------------------------------------------------------------
(* The night: what goes wrong.                                             *)

\* SIGKILL, an OOM, a power cut: no `finally` runs.
Crash(n) ==
    /\ night[n].pc # "down"
    /\ mishaps.crash < MaxCrashes
    /\ mishaps' = [mishaps EXCEPT !.crash = @ + 1]
    /\ Exit(n)
    /\ UNCHANGED <<entryStatus, run, decision, client>>

Fault ==
    /\ mishaps.fault < MaxFaults
    /\ mishaps' = [mishaps EXCEPT !.fault = @ + 1]

\* A statement of recovery or of the binding raises: nothing catches it.
StartFails(n) ==
    /\ night[n].pc \in {"recoverRuns", "recoverEntries", "bind"}
    /\ Fault
    /\ Exit(n)
    /\ UNCHANGED <<entryStatus, run, decision, client>>

\* The transition to `running` raises: the entry keeps its status.
DispatchFails(n, e) ==
    /\ night[n].pc = "pick"
    /\ e \in night[n].rows
    /\ Fault
    /\ night' = [night EXCEPT ![n].rows = @ \ {e}]
    /\ UNCHANGED <<entryStatus, run, decision, lock, client>>

\* insert_run raises outside run_entry's `try`, and queued_for_tonight raises
\* inside the outer one only: neither closes a run or releases the entry.  The
\* UPDATE of the release raising leaves the entry `running` too.
EscapesWithoutRelease(n) ==
    /\ night[n].pc \in {"open", "answers", "release"}
    /\ Fault
    /\ night' = [night EXCEPT ![n] = BetweenEntries(@.rows)]
    /\ UNCHANGED <<entryStatus, run, decision, lock, client>>

\* close_run raises: nothing is marked, the entry is still released.
CloseRunFails(n, verdict) ==
    /\ night[n].pc = "walk"
    /\ Fault
    /\ night' = [night EXCEPT ![n] =
                  [@ EXCEPT !.pc = "mark",
                            !.verdict = verdict,
                            !.raised = TRUE]]
    /\ UNCHANGED <<entryStatus, run, decision, lock, client>>

\* mark_consumed raises: the rest are not marked, the entry is still released.
MarkConsumedFails(n) ==
    /\ night[n].pc = "mark"
    /\ night[n].toMark # {}
    /\ Fault
    /\ night' = [night EXCEPT ![n] = [@ EXCEPT !.toMark = {}, !.raised = TRUE]]
    /\ UNCHANGED <<entryStatus, run, decision, lock, client>>

-----------------------------------------------------------------------------
(* The morning: one request thread answering one question.                 *)

\* Mutant: a question that has an answer may be given another.
AnswerableAgain(d) == decision[d].status # "unasked"

\* answer_decision fills in an answer only while there is none.
Answerable(d) == decision[d].status = "open"

\* A refused answer, and the same answer sent again, change nothing: the
\* route reports 404, 409 or what is stored.  No action.
Answer(c, d, status) ==
    /\ client[c].pc = "idle"
    /\ Answerable(d)
    /\ decision' = [decision EXCEPT ![d].status = status]
    /\ client' = [client EXCEPT ![c] =
                    IF status = "queued-for-tonight"
                    THEN [Idle EXCEPT !.pc = "look", !.decision = d]
                    ELSE Idle]
    /\ UNCHANGED <<entryStatus, run, lock, night, mishaps>>

AnsweredEntry(c) == decision[client[c].decision].entry

\* answer() selects the entry's status, and goes on only from `answered`.
Look(c) ==
    /\ client[c].pc = "look"
    /\ client' = [client EXCEPT ![c] =
                    IF entryStatus[AnsweredEntry(c)] = "answered"
                    THEN [@ EXCEPT !.pc = "read"]
                    ELSE Idle]
    /\ UNCHANGED <<entryStatus, run, decision, lock, night, mishaps>>

\* transition_entry selects it again.  A status the move is not permitted from
\* raises ValueError, which the route answers as a retry.
ReadForRequeue(c) ==
    /\ client[c].pc = "read"
    /\ LET seen == entryStatus[AnsweredEntry(c)]
       IN  client' = [client EXCEPT ![c] =
                        IF Permitted(seen, "queued")
                        THEN [@ EXCEPT !.pc = "write", !.seen = seen]
                        ELSE Idle]
    /\ UNCHANGED <<entryStatus, run, decision, lock, night, mishaps>>

Requeue(c) ==
    /\ client[c].pc = "write"
    /\ SetStatus(AnsweredEntry(c), client[c].seen, "queued")
    /\ client' = [client EXCEPT ![c] = Idle]
    /\ UNCHANGED <<run, decision, lock, night, mishaps>>

\* The API dies, or its second statement raises, after the answer is stored.
AbandonAnswer(c) ==
    /\ client[c].pc # "idle"
    /\ mishaps.abandon < MaxAbandons
    /\ mishaps' = [mishaps EXCEPT !.abandon = @ + 1]
    /\ client' = [client EXCEPT ![c] = Idle]
    /\ UNCHANGED <<entryStatus, run, decision, lock, night>>

-----------------------------------------------------------------------------

\* What a night that is running does next, mishaps apart.
NightStep(n) ==
    \/ \E r \in Runs : RecoverRun(n, r) \/ OpenRun(n, r)
    \/ \E e \in Entries : \/ RecoverEntry(n, e) \/ RecoverEntryRefused(n, e)
                          \/ Dispatch(n, e)
    \/ SelectStuckEntries(n) \/ RecoveryDone(n)
    \/ ReadAnswers(n)
    \/ \E v \in Outcomes : CloseRun(n, v)
    \/ \E d \in Decisions : MarkConsumed(n, d)
    \/ ReadForRelease(n) \/ ReleaseRefused(n) \/ Release(n)
    \/ AskingDone(n) \/ NightDone(n)

Bind(n) == BindRefused(n) \/ BindAll(n) \/ \E e \in Entries : BindOne(n, e)

Mishap(n) ==
    \/ Crash(n) \/ StartFails(n) \/ EscapesWithoutRelease(n)
    \/ MarkConsumedFails(n)
    \/ \E e \in Entries : DispatchFails(n, e)
    \/ \E v \in Outcomes : CloseRunFails(n, v)

ClientStep(c) == Look(c) \/ ReadForRequeue(c) \/ Requeue(c)

Next ==
    \/ \E e \in Entries : Capture(e)
    \/ \E n \in Nights : \/ AcquireLock(n) \/ NightStep(n) \/ Bind(n)
                         \/ \E d \in Decisions : AskQuestion(n, d)
                         \/ Mishap(n)
    \/ \E c \in Clients :
          \/ \E d \in Decisions, s \in AnswerStatuses : Answer(c, d, s)
          \/ ClientStep(c) \/ AbandonAnswer(c)

Spec == Init /\ [][Next]_vars

\* The timer fires every day and at the next boot when one was missed
\* (deploy/spark/second-shift-night.timer), so a night is started again and
\* again; a night that is running goes on; the model servers are up on some
\* night; a request thread runs to its end.  Nothing obliges a person to
\* answer, an interviewer to ask, or a night started by hand to happen.
Fairness ==
    /\ WF_vars(\E n \in Nights : AcquireLock(n))
    /\ \A n \in Nights : WF_vars(NightStep(n))
    /\ \A n \in Nights : WF_vars(Bind(n))
    /\ SF_vars(\E n \in Nights : BindAll(n))
    /\ \A c \in Clients : WF_vars(ClientStep(c))

FairSpec == Spec /\ Fairness

-----------------------------------------------------------------------------
(* What the loop promises.                                                 *)

RunRow == [entry : Entries \cup {NoEntry},
           outcome : {"none", "open"} \cup Outcomes,
           used : SUBSET Decisions]

DecisionRow == [entry : Entries \cup {NoEntry},
                status : {"unasked", "open"} \cup AnswerStatuses,
                consumedBy : Runs \cup {NoRun}]

NightMemory == [pc : NightSteps, rows : SUBSET Entries,
                entry : Entries \cup {NoEntry}, run : Runs \cup {NoRun},
                toMark : SUBSET Decisions, verdict : Outcomes,
                raised : BOOLEAN, target : EntryStatuses]

ClientMemory == [pc : {"idle", "look", "read", "write"},
                 decision : Decisions \cup {NoDecision},
                 seen : EntryStatuses]

\* Every table and every process holds values of the schema's CHECK lists
\* that the program writes (an entry is never left `captured`).
TypeOK ==
    /\ entryStatus \in [Entries -> EntryStatuses]
    /\ run \in [Runs -> RunRow]
    /\ decision \in [Decisions -> DecisionRow]
    /\ lock \in Nights \cup {NoNight}
    /\ night \in [Nights -> NightMemory]
    /\ client \in [Clients -> ClientMemory]
    /\ mishaps \in [crash : Nat, fault : Nat, abandon : Nat]

PastRecovery(n) ==
    night[n].pc \notin {"down", "recoverRuns", "recoverEntries"}

\* An idea never has two runs in flight, whatever was killed and whatever
\* raised: the lock, recovery before dispatch, and one selection of rows a
\* night, between them (night-pipeline spec, "Dispatching twice does not run
\* an entry twice").
OneOpenRunPerIdea ==
    \A r, s \in OpenRuns : run[r].entry = run[s].entry => r = s

\* Once a night is past recovery, the only idea `running` is the one it is
\* working, unless a statement of the night raised; and with no mishap at all
\* nothing is left `running` when no night is up.  A `running` entry is
\* neither dispatched nor reported, so one left behind has disappeared
\* (recovery.py).
NoIdeaLeftRunning ==
    mishaps.fault = 0 =>
        \A e \in RunningEntries :
            /\ \A n \in Nights : PastRecovery(n) => night[n].entry = e
            /\ mishaps.crash = 0 => \E n \in Nights : night[n].entry = e

\* An answer marked consumed names a run of its own idea that was handed it
\* and closed having done some work (run.py, run_entry's comment on marking).
ConsumedByARunThatUsedIt ==
    \A d \in Decisions : decision[d].consumedBy # NoRun =>
        LET r == decision[d].consumedBy
        IN  /\ run[r].outcome = "worked"
            /\ d \in run[r].used
            /\ run[r].entry = decision[d].entry
            /\ decision[d].status = "queued-for-tonight"

\* No answer reaches the stages of another idea's run, where it would travel
\* under that idea's policy (interview.py, queued_for_tonight).
AnswersStayWithTheirIdea ==
    \A r \in Runs : \A d \in run[r].used : decision[d].entry = run[r].entry

\* While nothing has gone wrong, every answer handed to a run that worked is
\* consumed by it or about to be, so no later run is handed it again.
UsedAnswersAreConsumed ==
    mishaps.crash = 0 /\ mishaps.fault = 0 =>
        \A r \in Runs : run[r].outcome = "worked" =>
            \A d \in run[r].used :
                \/ decision[d].consumedBy = r
                \/ \E n \in Nights : night[n].run = r /\ d \in night[n].toMark

\* A run in flight is closed by the night that is working it and by no other:
\* recovery never closes a live night's work out from under it (recovery.py).
LiveRunIsClosedByItsNight ==
    [][\A n \in Nights : \A r \in OpenRuns :
         night[n].run = r /\ run'[r].outcome # "open" => night'[n].pc = "mark"]_vars

\* What is recorded is final: an answer once given, the run that consumed it,
\* the outcome of a closed run (repository.py, "none overwrites a recorded
\* value").
RecordsAreFinal ==
    [][/\ \A d \in Decisions :
            /\ decision[d].status \in AnswerStatuses =>
                 decision'[d].status = decision[d].status
            /\ decision[d].consumedBy # NoRun =>
                 decision'[d].consumedBy = decision[d].consumedBy
       /\ \A r \in Runs : run[r].outcome \in Outcomes => run'[r] = run[r]]_vars

\* An answer queued for tonight has a night to reach: its idea is not resting
\* at `answered`, unless its own request is still about to re-queue it
\* (interview.py, answer; run.py, _release_entry).
AnswerHasANight ==
    \A d \in Decisions :
        (d \in QueuedForTonight(decision[d].entry)
            /\ entryStatus[decision[d].entry] = "answered")
        => \E c \in Clients : client[c].decision = d

\* A queued idea is worked again, every time it is queued, until the bound on
\* runs is reached: a failed or interrupted night does not lose it.
QueuedIdeaIsWorked ==
    \A e \in Entries :
        entryStatus[e] = "queued" ~> (entryStatus[e] = "running" \/ RunsSpent)

\* An idea does not stay `running`: the night that has it releases it, or a
\* later one recovers it.
RunningIdeaIsReleased ==
    \A e \in Entries : entryStatus[e] = "running" ~> entryStatus[e] # "running"

\* No run stays in flight for ever.
OpenRunIsClosed ==
    \A r \in Runs : run[r].outcome = "open" ~> run[r].outcome # "open"

\* No request is answered while a night runs.
Quiet == lock # NoNight => \A c \in Clients : client[c].pc = "idle"

\* While mornings and nights do not overlap, an answer queued for tonight
\* always has a night to reach, whatever becomes of its idea's runs (run.py,
\* _release_entry): the overlap is what takes it away.
QuietAnswersHaveANight == []Quiet => []AnswerHasANight

\* And it is handed to a run of its idea (interview.py, queued_for_tonight).
AnswerReachesARun ==
    []Quiet =>
        \A d \in Decisions :
            decision[d].status = "queued-for-tonight"
                ~> (RunsSpent \/ \E r \in Runs : d \in run[r].used)

\* When no night was killed, every run is closed by the time its night has
\* left it: `run_entry` closes its own run on every path (night/__main__.py).
ARunIsClosedOnEveryPath ==
    mishaps.crash = 0 =>
        \A r \in OpenRuns : \E n \in Nights : night[n].run = r

\* The night, the mornings and everything that goes wrong between them are an
\* implementation of the ledger a person reads (module IdeaLedger).
Ledger == INSTANCE IdeaLedger

KeepsTheLedger == Ledger!Spec
=============================================================================
