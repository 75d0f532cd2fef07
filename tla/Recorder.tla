------------------------------ MODULE Recorder ------------------------------
(***************************************************************************)
(* The telemetry recorder (telemetry/recorder.py, context.py) under the    *)
(* code that uses it: an agent's turn (agents/invoke.py), the provider     *)
(* base classes (providers/base.py), what a call said kept on disk         *)
(* (telemetry/payloads.py), and telemetry of work done elsewhere           *)
(* (`ingest_external`).                                                    *)
(*                                                                         *)
(* A task is a flow of control: a thread or an asyncio task.  Its context  *)
(* (`current`) is the row a new row is filed under, and its frames are     *)
(* the `with` blocks it is in.  A critical section of one statement is one *)
(* action taken while the writer's lock is free; one of several holds the  *)
(* lock from statement to statement, each committed by itself.  Tokens,    *)
(* times, models and costs are left out, except that a rate may be missing.*)
(***************************************************************************)
EXTENDS Naturals, Sequences, FiniteSets, SequencesExt

CONSTANTS
    Main,           \* the task the process starts with
    Others,         \* tasks it may start
    Jobs,           \* work dispatched elsewhere
    Batches,        \* what such work may report: see IsBatch
    MaxInvocations, \* bound: how many invocations are opened
    MaxFaults       \* bound: kills, refused statements, full disks

Tasks == {Main} \cup Others

None == 0

\* A report: invocations in the order they are listed, each with its parent's
\* place in the list (None for the dispatcher), and the place of the one its
\* model call was made in, which need not be in the list.
IsBatch(b) == b.parents \in Seq(Nat) /\ b.call \in Nat

ASSUME RecorderConstants ==
    /\ Main \notin Others
    /\ None \notin Tasks /\ Jobs \cap Tasks = {}
    /\ \A b \in Batches : IsBatch(b)
    /\ MaxInvocations \in Nat /\ MaxFaults \in Nat

VARIABLES
    rows,      \* agent_invocations, in order of insertion
    calls,     \* model_calls, in order of insertion
    failures,  \* failures: the invocations they name
    events,    \* events: the invocations they name
    files,     \* the payload files on disk
    payloads,  \* model_call_payloads: the calls they name
    task,      \* each task's flow of control
    current,   \* each task's context: a row, or None
    lock,      \* the task that holds the writer's lock, or None
    job,       \* each job's dispatcher and what became of its report
    turns,     \* history: the turns handed to whoever asked for them
    faults

vars == <<rows, calls, failures, events, files, payloads, task, current, lock, job, turns,
          faults>>

store == <<rows, calls, failures, events, files, payloads>>

\* home: the invocation whose code started the task.  bare: a thread started
\* without `propagate`, or by such a thread before it is in an invocation.
Unborn == [pc |-> "unborn", frames |-> <<>>, call |-> None, cut |-> FALSE,
           home |-> None, bare |-> FALSE, batch |-> <<>>, resolved |-> <<>>]

Init ==
    /\ rows = <<>> /\ calls = <<>>
    /\ failures = {} /\ events = {} /\ files = {} /\ payloads = {}
    /\ task = [t \in Tasks |-> IF t = Main THEN [Unborn EXCEPT !.pc = "run"] ELSE Unborn]
    /\ current = [t \in Tasks |-> None]
    /\ lock = None
    /\ job = [j \in Jobs |-> [dispatcher |-> None, state |-> "unsent"]]
    /\ turns = {}
    /\ faults = 0

At(t, pc) == task[t].pc = pc
Goes(t, pc) == task' = [task EXCEPT ![t].pc = pc]

\* `with self._lock` around a single statement.
Locked == lock = None

Fault == faults < MaxFaults /\ faults' = faults + 1

Frame(t) == Last(task[t].frames)

\* The invocation whose code a task is executing, whatever its context says.
Enclosing(t) == IF task[t].frames = <<>> THEN task[t].home ELSE Frame(t).row

-----------------------------------------------------------------------------
(* Invocations.                                                            *)

Depth(parent) == IF parent = None THEN 0 ELSE rows[parent].depth + 1

Row(parent, origin) == [parent |-> parent, depth |-> Depth(parent), outcome |-> "open",
                        origin |-> origin]

\* A row of model_calls; `made` is the invocation around the call, kept as a history.
Call(row, made, cut) == [row |-> row, made |-> made, cut |-> cut]

\* Mutant: nothing is remembered of what was current.
BindAfresh(t, row) == [row |-> row, saved |-> None]

Bind(t, row) == [row |-> row, saved |-> current[t]]

\* `with recorder.invocation(...)`: a row under the current one, then the context.
Enter(t) ==
    /\ At(t, "run") /\ Locked
    /\ Len(rows) < MaxInvocations
    /\ rows' = Append(rows, Row(current[t], t))
    /\ task' = [task EXCEPT ![t].frames = Append(@, Bind(t, Len(rows) + 1))]
    /\ current' = [current EXCEPT ![t] = Len(rows) + 1]
    /\ UNCHANGED <<calls, failures, events, files, payloads, lock, job, turns, faults>>

\* `finally: ctx.release(token)`, and where the task goes on.
Leave(t, pc) ==
    /\ current' = [current EXCEPT ![t] = Frame(t).saved]
    /\ task' = [task EXCEPT ![t].frames = Front(@), ![t].pc = pc, ![t].call = None,
                            ![t].cut = FALSE]

\* Mutant: a row is closed on success only.
ClosedOnSuccess(row, outcome) ==
    IF outcome = "success" THEN [rows EXCEPT ![row].outcome = outcome] ELSE rows

Closed(row, outcome) == [rows EXCEPT ![row].outcome = outcome]

\* The body ends: the row is closed, and a turn's text is its caller's.
Exit(t) ==
    /\ At(t, "run") \/ At(t, "done")
    /\ task[t].frames # <<>> /\ Locked
    /\ rows' = Closed(Frame(t).row, "success")
    /\ turns' = IF task[t].pc = "done"
                THEN turns \cup {[row |-> Frame(t).row, call |-> task[t].call]}
                ELSE turns
    /\ Leave(t, "run")
    /\ UNCHANGED <<calls, failures, events, files, payloads, lock, job, faults>>

\* Anything the body may raise, a cancellation included.
Raise(t) ==
    /\ At(t, "run") /\ task[t].frames # <<>>
    /\ Goes(t, "failing")
    /\ UNCHANGED <<store, current, lock, job, turns, faults>>

\* The typed failure is written first.
WritesFailure(t) == failures' = failures \cup {Frame(t).row}

InsertFailure(t) ==
    /\ At(t, "failing") /\ task[t].frames # <<>> /\ Locked
    /\ lock' = t
    /\ WritesFailure(t)
    /\ Goes(t, "closing")
    /\ UNCHANGED <<rows, calls, events, files, payloads, current, job, turns, faults>>

\* Then the row is closed, under the same lock.  The exception goes on: to a
\* caller that catches it, or out of the next block.
CloseFailed(t) ==
    /\ At(t, "closing")
    /\ rows' = Closed(Frame(t).row, "failed")
    /\ lock' = None
    /\ \E pc \in {"run", "failing"} : Leave(t, pc)
    /\ UNCHANGED <<calls, failures, events, files, payloads, job, turns, faults>>

\* The statement that closes a row, as a success or after a failure, or the one
\* that writes the failure, may be refused by the database: it raises out of the
\* block, with the row still open.
CloseRefused(t) ==
    /\ task[t].frames # <<>>
    /\ \/ task[t].pc \in {"run", "done", "failing"} /\ Locked
       \/ At(t, "closing")
    /\ Fault
    /\ lock' = None
    /\ Leave(t, "failing")
    /\ UNCHANGED <<store, job, turns>>

\* The task's own code ends, or an exception nobody caught ends it.
End(t) ==
    /\ At(t, "run") \/ At(t, "failing")
    /\ task[t].frames = <<>>
    /\ Goes(t, "over")
    /\ UNCHANGED <<store, current, lock, job, turns, faults>>

\* An asyncio task, or a thread given a wrapped callable, starts in a copy of
\* the context; a bare thread in an empty one.
CopiedContext(t, bare) == IF bare THEN None ELSE current[t]

\* A thread that lost its context has none to pass on.
Adrift(t) == task[t].bare /\ task[t].frames = <<>>

Spawn(t, u, bare) ==
    /\ At(t, "run") /\ task[u].pc = "unborn"
    /\ task' = [task EXCEPT ![u] = [Unborn EXCEPT !.pc = "run", !.home = Enclosing(t),
                                                  !.bare = bare \/ Adrift(t)]]
    /\ current' = [current EXCEPT ![u] = CopiedContext(t, bare)]
    /\ UNCHANGED <<store, lock, job, turns, faults>>

-----------------------------------------------------------------------------
(* A turn: Reasoner.complete inside invoke.                                *)

\* The backend answers, cleanly or cut short at its token limit.
Answer(t) ==
    /\ At(t, "run") /\ task[t].frames # <<>>
    /\ \E cut \in BOOLEAN :
         task' = [task EXCEPT ![t].pc = IF cut THEN "warn" ELSE "record", ![t].cut = cut]
    /\ UNCHANGED <<store, current, lock, job, turns, faults>>

\* An absent server, a timeout, an unreadable answer: recorded, and raised again.
BackendFails(t) ==
    /\ At(t, "run") /\ task[t].frames # <<>> /\ Locked
    /\ failures' = failures \cup {current[t]}
    /\ Goes(t, "failing")
    /\ UNCHANGED <<rows, calls, events, files, payloads, current, lock, job, turns, faults>>

\* An event is of whatever invocation the context names.
RecordEvent(t) == events' = events \cup {current[t]}

WarnCutShort(t) ==
    /\ At(t, "warn") /\ Locked
    /\ RecordEvent(t)
    /\ Goes(t, "record")
    /\ UNCHANGED <<rows, calls, failures, files, payloads, current, lock, job, turns, faults>>

\* Priced, then inserted: a call no rate covers is not recorded as free.
RecordCall(t) ==
    /\ At(t, "record")
    /\ \/ /\ Locked
          /\ calls' = Append(calls, Call(current[t], Enclosing(t), task[t].cut))
          /\ task' = [task EXCEPT ![t].pc = "prompt", ![t].call = Len(calls) + 1]
       \/ Goes(t, "failing") /\ UNCHANGED calls          \* MissingRate
    /\ UNCHANGED <<rows, failures, events, files, payloads, current, lock, job, turns, faults>>

\* The two files are written outside the lock.
WritePrompt(t) ==
    /\ At(t, "prompt")
    /\ files' = files \cup {<<task[t].call, "prompt">>}
    /\ Goes(t, "completion")
    /\ UNCHANGED <<rows, calls, failures, events, payloads, current, lock, job, turns, faults>>

WriteCompletion(t) ==
    /\ At(t, "completion")
    /\ files' = files \cup {<<task[t].call, "completion">>}
    /\ Goes(t, "retain")
    /\ UNCHANGED <<rows, calls, failures, events, payloads, current, lock, job, turns, faults>>

\* Mutant: a failed retention goes on to its row.
RetainAnyway == "retain"

\* A full disk costs the evidence and leaves no row for it.
AfterFailedWrite == "returned"

\* It goes on when its failure is recorded.
WriteFails(t) ==
    /\ At(t, "prompt") \/ At(t, "completion")
    /\ Locked /\ Fault
    /\ failures' = failures \cup {current[t]}
    /\ Goes(t, AfterFailedWrite)
    /\ UNCHANGED <<rows, calls, events, files, payloads, current, lock, job, turns>>

\* The row that says where the two files are.
InsertPayloadRow(call) == payloads' = payloads \cup {call}

InsertPayload(t) ==
    /\ At(t, "retain") /\ Locked
    /\ InsertPayloadRow(task[t].call)
    /\ Goes(t, "returned")
    /\ UNCHANGED <<rows, calls, failures, events, files, current, lock, job, turns, faults>>

\* Any other statement of a turn that is refused raises in the block around it,
\* as Raise does for those of "run".  The payload's row is among them, outside the
\* `try` around the files, and so is the record of a failed write.
StatementRefused(t) ==
    /\ task[t].pc \in {"warn", "record", "prompt", "completion", "retain"}
    /\ Locked /\ Fault
    /\ Goes(t, "failing")
    /\ UNCHANGED <<store, current, lock, job, turns>>

\* Mutant: a turn that was cut short is a turn.
TakesAnything(t) == "done"

\* Inside the invocation, so that a turn that did not finish fails it.
Verdict(t) == IF task[t].cut THEN "failing" ELSE "done"

Returned(t) ==
    /\ At(t, "returned")
    /\ Goes(t, Verdict(t))
    /\ UNCHANGED <<store, current, lock, job, turns, faults>>

-----------------------------------------------------------------------------
(* Work done elsewhere.                                                    *)

\* descriptor_for refuses outside an invocation.
Dispatch(t, j) ==
    /\ At(t, "run") /\ current[t] # None
    /\ job[j].state = "unsent"
    /\ job' = [job EXCEPT ![j] = [dispatcher |-> current[t], state |-> "sent"]]
    /\ UNCHANGED <<store, task, current, lock, turns, faults>>

\* An id that no invocation has: refused before anything is written.
RefuseUnknown(t, j) ==
    /\ At(t, "run") /\ Locked
    /\ job[j].dispatcher \notin DOMAIN rows
    /\ Goes(t, "failing")
    /\ UNCHANGED <<store, current, lock, job, turns, faults>>

\* Whoever awaited the result hands over what the job reported.
BeginIngest(t, j) ==
    /\ At(t, "run") /\ Locked
    /\ job[j].state = "sent"
    /\ \E b \in Batches :
         task' = [task EXCEPT ![t].pc = "ingest", ![t].batch = [job |-> j, report |-> b],
                              ![t].resolved = <<>>]
    /\ job' = [job EXCEPT ![j].state = "ingesting"]
    /\ lock' = t
    /\ UNCHANGED <<store, current, turns, faults>>

Report(t) == task[t].batch.report
NextListed(t) == Len(task[t].resolved) + 1
ParentListed(t) == Report(t).parents[NextListed(t)]

\* With no parent in the list the dispatcher is the parent.
TopParent(t) == job[task[t].batch.job].dispatcher

ParentRow(t) ==
    IF ParentListed(t) = None THEN TopParent(t) ELSE task[t].resolved[ParentListed(t)]

\* Parents first: one not yet recorded refuses the rest.
Resolvable(t) == ParentListed(t) < NextListed(t)

IngestRow(t) ==
    /\ At(t, "ingest")
    /\ NextListed(t) <= Len(Report(t).parents) /\ Resolvable(t)
    /\ rows' = Append(rows, Row(ParentRow(t), task[t].batch.job))
    /\ task' = [task EXCEPT ![t].resolved = Append(@, Len(rows) + 1), ![t].pc = "ingestClose"]
    /\ UNCHANGED <<calls, failures, events, files, payloads, current, lock, job, turns, faults>>

IngestClose(t) ==
    /\ At(t, "ingestClose")
    /\ rows' = Closed(Last(task[t].resolved), "success")
    /\ Goes(t, "ingest")
    /\ UNCHANGED <<calls, failures, events, files, payloads, current, lock, job, turns, faults>>

EndIngest(t, state, pc) ==
    /\ job' = [job EXCEPT ![task[t].batch.job].state = state]
    /\ task' = [task EXCEPT ![t].batch = <<>>, ![t].resolved = <<>>, ![t].pc = pc]
    /\ lock' = None

IngestCall(t) ==
    /\ At(t, "ingest")
    /\ NextListed(t) > Len(Report(t).parents)
    /\ Report(t).call \in DOMAIN task[t].resolved
    /\ LET row == task[t].resolved[Report(t).call]
       IN  calls' = Append(calls, Call(row, row, FALSE))
    /\ EndIngest(t, "taken", "run")
    /\ UNCHANGED <<rows, failures, events, files, payloads, current, turns, faults>>

\* A parent not yet recorded, a call in an invocation that is not listed or that no
\* rate covers: what was inserted before it stays, since each statement was
\* committed by itself.
RefuseReport(t) ==
    /\ At(t, "ingest")
    /\ NextListed(t) <= Len(Report(t).parents) => ~Resolvable(t)
    /\ EndIngest(t, "refused", "failing")
    /\ UNCHANGED <<store, current, turns, faults>>

\* The same when the database refuses a statement, be it the closing of a row
\* just inserted.
IngestRefused(t) ==
    /\ At(t, "ingest") \/ At(t, "ingestClose")
    /\ Fault
    /\ EndIngest(t, "refused", "failing")
    /\ UNCHANGED <<store, current, turns>>

-----------------------------------------------------------------------------

\* The process is killed: its memory goes, what it wrote stays.
Kill ==
    /\ Fault
    /\ task' = [t \in Tasks |-> [Unborn EXCEPT !.pc = "over"]]
    /\ current' = [t \in Tasks |-> None]
    /\ lock' = None
    /\ UNCHANGED <<store, job, turns>>

\* The process has ended, or was killed: nothing else stops.
Ended ==
    /\ \A t \in Tasks : task[t].pc \in {"unborn", "over"}
    /\ UNCHANGED vars

\* What a task does by itself.
Step(t) ==
    \/ Exit(t) \/ InsertFailure(t) \/ CloseFailed(t) \/ End(t)
    \/ WarnCutShort(t) \/ RecordCall(t) \/ WritePrompt(t) \/ WriteCompletion(t)
    \/ InsertPayload(t) \/ Returned(t)
    \/ IngestRow(t) \/ IngestClose(t) \/ IngestCall(t) \/ RefuseReport(t)

Next ==
    \/ \E t \in Tasks :
         \/ Step(t) \/ Enter(t) \/ Raise(t) \/ Answer(t) \/ BackendFails(t)
         \/ CloseRefused(t) \/ WriteFails(t) \/ StatementRefused(t) \/ IngestRefused(t)
         \/ \E u \in Others, bare \in BOOLEAN : Spawn(t, u, bare)
         \/ \E j \in Jobs : Dispatch(t, j) \/ BeginIngest(t, j) \/ RefuseUnknown(t, j)
    \/ Kill
    \/ Ended

Spec == Init /\ [][Next]_vars

\* While a task that was not killed can go on, one does.  Nothing is assumed of
\* which, of what bodies choose to do, or of faults.
FairSpec == Spec /\ WF_vars(\E t \in Tasks : Step(t))

-----------------------------------------------------------------------------
(* What the recorder promises.                                             *)

RowRecord == [parent : Nat, depth : Nat, outcome : {"open", "success", "failed"},
              origin : Tasks \cup Jobs]
CallRecord == [row : Nat, made : Nat, cut : BOOLEAN]
TaskMemory == [pc : {"unborn", "run", "failing", "closing", "warn", "record", "prompt",
                     "completion", "retain", "returned", "done", "ingest", "ingestClose",
                     "over"},
               frames : Seq([row : Nat, saved : Nat]), call : Nat, cut : BOOLEAN,
               home : Nat, bare : BOOLEAN,
               batch : {<<>>} \cup [job : Jobs, report : Batches], resolved : Seq(Nat)]
JobRecord == [dispatcher : Nat, state : {"unsent", "sent", "ingesting", "taken", "refused"}]

\* The tables' columns, and the memory of every task, hold values of their types;
\* what a row names is a row that was there before it.
TypeOK ==
    /\ rows \in Seq(RowRecord) /\ calls \in Seq(CallRecord)
    /\ \A r \in DOMAIN rows : rows[r].parent \in 0..(r - 1)
    /\ \A c \in DOMAIN calls : calls[c].row \in DOMAIN rows
    /\ failures \subseteq DOMAIN rows /\ events \subseteq DOMAIN rows
    /\ payloads \subseteq DOMAIN calls
    /\ task \in [Tasks -> TaskMemory]
    /\ current \in [Tasks -> {None} \cup DOMAIN rows]
    /\ lock \in {None} \cup Tasks
    /\ job \in [Jobs -> JobRecord]
    /\ faults \in 0..MaxFaults

\* First: what a task records is filed under the invocation whose code made it, however
\* blocks nest, fail and are left, and in whichever task: "none inherits
\* another sibling's context" (telemetry spec).  Not of bare threads and what they
\* start, the sharp edge context.py names.
FiledHere ==
    /\ \A t \in Tasks : ~task[t].bare /\ task[t].pc # "unborn" => current[t] = Enclosing(t)
    /\ \A c \in DOMAIN calls :
         rows[calls[c].row].origin \in Jobs \/ calls[c].row = calls[c].made

\* A row is open only while a task is in its block, unless the process was
\* killed or the database refused the statement that closes it: "an invocation
\* cannot be left open by an early return or an exception" (recorder.py).
Held(r) ==
    \/ \E t \in Tasks : \E i \in DOMAIN task[t].frames : task[t].frames[i].row = r
    \/ \E t \in Tasks : task[t].pc = "ingestClose" /\ Last(task[t].resolved) = r

NoneLeftOpen == faults = 0 => \A r \in DOMAIN rows : rows[r].outcome = "open" <=> Held(r)

\* A row closed as failed has its typed failure, a kill in between included.
FailedHasItsFailure ==
    \A r \in DOMAIN rows : rows[r].outcome = "failed" => r \in failures

\* A payload's row names a call that is recorded and two files that are there:
\* "a row pointing at a missing file records a provenance nobody can check".
PayloadIsThere ==
    \A c \in payloads : c \in DOMAIN calls /\ {<<c, "prompt">>, <<c, "completion">>} \subseteq files

\* A turn somebody was handed is one that finished, in a row closed as a success,
\* on a recorded call of that row, whose payload is kept or whose loss is recorded.
TurnIsAccountedFor ==
    \A n \in turns :
        /\ rows[n.row].outcome = "success"
        /\ n.call \in DOMAIN calls /\ calls[n.call].row = n.row /\ ~calls[n.call].cut
        /\ n.call \in payloads \/ n.row \in failures

\* "A retention failure does not fail the completion" (recorder.py).  Of the files
\* only: it does not hold, since the payload's row may be refused (README, section 6).
RetentionFailsNoTurn ==
    [][\A t \in Tasks :
          task[t].pc \in {"prompt", "completion", "retain"} => task'[t].pc # "failing"]_vars

\* Second: what a job reported hangs under the invocation that dispatched it, refused
\* half way or not: no orphan, and nothing under another's work.
Hangs(r, j) == rows[r].parent = job[j].dispatcher \/ rows[rows[r].parent].origin = j

ReportsHangUnderTheirDispatcher ==
    \A r \in DOMAIN rows : \A j \in Jobs :
        rows[r].origin = j => rows[r].parent # None /\ Hangs(r, j)

\* Everything recorded is filed under the work that caused it, done here or
\* elsewhere (recorder.py, invocation and ingest_external).
FiledUnderItsCaller == FiledHere /\ ReportsHangUnderTheirDispatcher

\* No row is left open by its task, fails without a failure, or is a success that
\* somebody was handed without its call (recorder.py, invocation; invoke.py).
EveryTurnIsAccountedFor == NoneLeftOpen /\ FailedHasItsFailure /\ TurnIsAccountedFor

\* Every invocation is closed in the end: there is none that hangs for a lock, or
\* that its own failure keeps open.  Of a process that is not killed.
EveryInvocationCloses ==
    <>[](faults > 0 \/ \A r \in DOMAIN rows : rows[r].outcome # "open")
=============================================================================
