---------------------------- MODULE RecorderProofs ----------------------------
(***************************************************************************)
(* Theorems about Recorder, for any tasks, jobs, reports and faults: what  *)
(* is recorded is filed under its caller, no row is left open or fails     *)
(* without its failure, no turn is handed over without its call, and a     *)
(* payload's row names files that are there.                               *)
(*                                                                         *)
(* One inductive invariant: the types; for each task the blocks it is in   *)
(* (Stack), the turn it is at (Turn) and the report it is taking (Taking); *)
(* and what the tables say of one another (Ledger).  The last needs the    *)
(* first: a row is never closed twice because the blocks of a task are     *)
(* rows of its own, each open and each later than the one around it.       *)
(***************************************************************************)
EXTENDS Recorder, SequenceTheorems, TLAPS

Types ==
    /\ rows \in Seq(RowRecord) /\ calls \in Seq(CallRecord)
    /\ task \in [Tasks -> TaskMemory]
    /\ current \in [Tasks -> Nat]
    /\ lock \in {None} \cup Tasks
    /\ job \in [Jobs -> JobRecord]
    /\ faults \in 0 .. MaxFaults

\* Base: the context a task starts with.  Top: its context now, by its frames.
Base(m) == IF m.bare THEN None ELSE m.home
Top(m) == IF m.frames = <<>> THEN Base(m) ELSE m.frames[Len(m.frames)].row

\* The blocks a task is in: rows of its own, open, each opened after the one
\* around it and remembering it; and its context is the innermost.
Stack(t) ==
    /\ task[t].home \in {None} \cup DOMAIN rows
    /\ \A i \in DOMAIN task[t].frames :
          /\ task[t].frames[i].row \in DOMAIN rows
          /\ rows[task[t].frames[i].row].origin = t
          /\ rows[task[t].frames[i].row].outcome = "open"
          /\ task[t].frames[i].saved =
                IF i = 1 THEN Base(task[t]) ELSE task[t].frames[i - 1].row
    /\ \A i, j \in DOMAIN task[t].frames :
          i < j => task[t].frames[i].row < task[t].frames[j].row
    /\ current[t] = Top(task[t])

InTurn == {"prompt", "completion", "retain", "returned", "done"}

\* A turn in progress: its call is recorded under the invocation it is in, and
\* what has been kept of it, or recorded as lost, is there.
Turn(t) ==
    LET m == task[t]
        row == Top(task[t])
    IN  /\ m.pc = "unborn" => m.frames = <<>>
        /\ m.pc \in InTurn \cup {"closing", "warn", "record"} => m.frames # <<>>
        /\ m.pc = "closing" => lock = t /\ row \in failures
        /\ m.pc \in InTurn =>
              m.call \in DOMAIN calls /\ calls[m.call].row = row /\ calls[m.call].cut = m.cut
        /\ m.pc \in {"completion", "retain"} => <<m.call, "prompt">> \in files
        /\ m.pc = "retain" => <<m.call, "completion">> \in files
        /\ m.pc \in {"returned", "done"} => m.call \in payloads \/ row \in failures
        /\ m.pc = "done" => ~ m.cut

\* A report being taken: under the lock, from a job that was dispatched, and what
\* has been taken of it is that job's.
Taking(t) ==
    task[t].pc \in {"ingest", "ingestClose"} =>
        LET m == task[t]
        IN  /\ lock = t
            /\ m.batch \in [job : Jobs, report : Batches]
            /\ job[m.batch.job].state = "ingesting"
            /\ \A k \in DOMAIN m.resolved :
                  m.resolved[k] \in DOMAIN rows /\ rows[m.resolved[k]].origin = m.batch.job
            /\ m.pc = "ingestClose" => m.resolved # <<>>

Mine(t) == Stack(t) /\ Turn(t) /\ Taking(t)

\* What the tables say of one another.
RowsNameRows ==
    \A r \in DOMAIN rows :
        rows[r].parent \in 0 .. (r - 1) /\ (rows[r].outcome = "failed" => r \in failures)
JobsHaveDispatchers ==
    \A j \in Jobs : job[j].state # "unsent" => job[j].dispatcher \in DOMAIN rows
RowsOfJobs ==
    \A r \in DOMAIN rows : \A j \in Jobs : rows[r].origin = j =>
        job[j].state # "unsent" /\ rows[r].parent # None /\ Hangs(r, j)
CallsNameRows ==
    \A c \in DOMAIN calls : calls[c].row \in DOMAIN rows /\ calls[c].made = calls[c].row
NamesAreThere ==
    failures \subseteq DOMAIN rows /\ events \subseteq DOMAIN rows
TurnsKept == TurnIsAccountedFor /\ \A n \in turns : n.row \in DOMAIN rows

\* What is open is in somebody's block, while nothing was killed or refused.
OpenIsHeld ==
    faults = 0 => \A r \in DOMAIN rows : rows[r].outcome = "open" => Held(r)
LastIsOpen ==
    \A t \in Tasks : task[t].pc = "ingestClose" =>
        rows[Last(task[t].resolved)].outcome = "open"

Ledger ==
    /\ RowsNameRows /\ JobsHaveDispatchers /\ RowsOfJobs /\ CallsNameRows
    /\ NamesAreThere /\ PayloadIsThere /\ TurnsKept /\ OpenIsHeld /\ LastIsOpen

Inv == Types /\ (\A t \in Tasks : Mine(t)) /\ Ledger

-----------------------------------------------------------------------------
(* Rows and frames.                                                        *)

\* One more at the end of a sequence, and one fewer.
LEMMA OneMore ==
    ASSUME NEW S, NEW a \in Seq(S), NEW x \in S
    PROVE  /\ Append(a, x) \in Seq(S) /\ Append(a, x) # <<>>
           /\ Len(Append(a, x)) = Len(a) + 1 /\ DOMAIN Append(a, x) = 1 .. (Len(a) + 1)
           /\ Append(a, x)[Len(a) + 1] = x
           /\ \A i \in DOMAIN a : i \in DOMAIN Append(a, x) /\ Append(a, x)[i] = a[i]
OBVIOUS

LEMMA OneFewer ==
    ASSUME NEW S, NEW a \in Seq(S), a # <<>>
    PROVE  /\ Front(a) \in Seq(S) /\ Len(Front(a)) = Len(a) - 1
           /\ Len(a) \in Nat \ {0}
           /\ DOMAIN Front(a) = 1 .. (Len(a) - 1) /\ (Front(a) = <<>> <=> Len(a) = 1)
           /\ \A i \in DOMAIN Front(a) :
                 i \in DOMAIN a /\ i # Len(a) /\ Front(a)[i] = a[i]
           /\ \A i \in DOMAIN a : i # Len(a) => i \in DOMAIN Front(a)
<1>1. Front(a) = SubSeq(a, 1, Len(a) - 1) /\ Len(a) \in Nat /\ Len(a) # 0
      /\ DOMAIN a = 1 .. Len(a)
  BY DEF Front
<1>2. /\ SubSeq(a, 1, Len(a) - 1) \in Seq(S) /\ Len(SubSeq(a, 1, Len(a) - 1)) = Len(a) - 1
      /\ \A i \in 1 .. (Len(a) - 1) : SubSeq(a, 1, Len(a) - 1)[i] = a[i]
  BY <1>1
<1>3. DOMAIN Front(a) = 1 .. (Len(a) - 1)
  BY <1>1, <1>2
<1>4. Front(a) = <<>> <=> Len(a) = 1
  <2>1. Front(a) \in Seq(S) /\ Len(Front(a)) = Len(a) - 1
    BY <1>1, <1>2
  <2>2. Front(a) = <<>> <=> Len(Front(a)) = 0
    BY <2>1, EmptySeq
  <2> QED
    BY <1>1, <2>1, <2>2
<1> QED
  BY <1>1, <1>2, <1>3, <1>4

\* A row is added after those there are.
LEMMA RowAdded ==
    ASSUME Types, NEW x \in RowRecord, rows' = Append(rows, x)
    PROVE  /\ rows' \in Seq(RowRecord) /\ Len(rows) \in Nat
           /\ DOMAIN rows = 1 .. Len(rows) /\ DOMAIN rows' = 1 .. (Len(rows) + 1)
           /\ rows'[Len(rows) + 1] = x
           /\ \A r \in DOMAIN rows : r \in DOMAIN rows' /\ rows'[r] = rows[r]
BY DEF Types

\* A row is closed, and is otherwise what it was.
LEMMA RowClosed ==
    ASSUME Types, NEW q \in DOMAIN rows, NEW o \in {"success", "failed"}, rows' = Closed(q, o)
    PROVE  /\ rows' \in Seq(RowRecord) /\ DOMAIN rows' = DOMAIN rows
           /\ rows'[q].outcome = o
           /\ \A r \in DOMAIN rows : r # q => rows'[r] = rows[r]
           /\ \A r \in DOMAIN rows : rows'[r].origin = rows[r].origin /\ rows'[r].parent = rows[r].parent
<1> DEFINE x == [rows[q] EXCEPT !.outcome = o]
<1>1. rows \in Seq(RowRecord) /\ rows[q] \in RowRecord /\ rows' = [rows EXCEPT ![q] = x]
  BY DEF Types, Closed
<1>2. x \in RowRecord /\ x.outcome = o /\ x.origin = rows[q].origin /\ x.parent = rows[q].parent
  BY <1>1 DEF RowRecord
<1> HIDE DEF x
<1> QED
  BY <1>1, <1>2

\* The block a task is in, and its context.
LEMMA Innermost ==
    ASSUME Types, NEW t \in Tasks, Mine(t)
    PROVE  /\ task[t] \in TaskMemory /\ Len(task[t].frames) \in Nat
           /\ DOMAIN task[t].frames = 1 .. Len(task[t].frames)
           /\ current[t] \in {None} \cup DOMAIN rows /\ current[t] = Top(task[t])
           /\ Base(task[t]) \in {None} \cup DOMAIN rows
           /\ task[t].frames # <<>> =>
                 /\ Len(task[t].frames) \in DOMAIN task[t].frames
                 /\ Frame(t) = task[t].frames[Len(task[t].frames)]
                 /\ Frame(t).row = Top(task[t]) /\ Frame(t).row \in DOMAIN rows
                 /\ rows[Frame(t).row].origin = t /\ rows[Frame(t).row].outcome = "open"
<1>1. task[t] \in TaskMemory
  BY DEF Types
<1>2. task[t].frames \in Seq([row : Nat, saved : Nat])
  BY <1>1 DEF TaskMemory
<1>3. /\ Len(task[t].frames) \in Nat /\ DOMAIN task[t].frames = 1 .. Len(task[t].frames)
      /\ task[t].frames # <<>> => Len(task[t].frames) \in DOMAIN task[t].frames
  BY <1>2
<1>4. task[t].frames # <<>> => Frame(t) = task[t].frames[Len(task[t].frames)]
  BY DEF Frame, Last
<1>5. Stack(t)
  BY DEF Mine
<1>6. Base(task[t]) \in {None} \cup DOMAIN rows
  BY <1>5 DEF Base, Stack
<1>7. task[t].frames # <<>> =>
        /\ Frame(t).row = Top(task[t]) /\ Frame(t).row \in DOMAIN rows
        /\ rows[Frame(t).row].origin = t /\ rows[Frame(t).row].outcome = "open"
  BY <1>3, <1>4, <1>5 DEF Top, Stack
<1>8. current[t] = Top(task[t])
  BY <1>5 DEF Stack
<1>9. current[t] \in {None} \cup DOMAIN rows
  BY <1>6, <1>7, <1>8 DEF Top
<1> QED
  BY <1>1, <1>3, <1>4, <1>6, <1>7, <1>8, <1>9

\* What is recorded stays: rows but for their outcomes, calls, failures, files.
Grows ==
    /\ \A r \in DOMAIN rows :
          r \in DOMAIN rows' /\ rows'[r].origin = rows[r].origin /\ rows'[r].parent = rows[r].parent
    /\ \A c \in DOMAIN calls : c \in DOMAIN calls' /\ calls'[c] = calls[c]
    /\ failures \subseteq failures' /\ files \subseteq files' /\ payloads \subseteq payloads'

\* The blocks of a task that enters and leaves none stay as they are.
LEMMA StackKept ==
    ASSUME Types, NEW t \in Tasks, Stack(t), Grows,
           task'[t].frames = task[t].frames, task'[t].home = task[t].home,
           task'[t].bare = task[t].bare, current'[t] = current[t],
           \A r \in DOMAIN rows : rows[r].origin = t => rows'[r].outcome = rows[r].outcome
    PROVE  Stack(t)' /\ Top(task[t])' = Top(task[t])
<1>1. Base(task'[t]) = Base(task[t]) /\ Top(task'[t]) = Top(task[t])
  BY DEF Base, Top
<1>2. \A i \in DOMAIN task[t].frames :
        /\ task[t].frames[i].row \in DOMAIN rows'
        /\ rows'[task[t].frames[i].row].origin = t
        /\ rows'[task[t].frames[i].row].outcome = "open"
  BY DEF Stack, Grows
<1>3. task'[t].home \in {None} \cup DOMAIN rows'
  BY DEF Stack, Grows
<1> QED
  BY <1>1, <1>2, <1>3 DEF Stack

\* What a step of one task leaves of another's.
Apart(t) == \A u \in Tasks \ {t} : task'[u] = task[u] /\ current'[u] = current[u]

\* Neither the rows nor a report being taken change.
Steady ==
    /\ \A r \in DOMAIN rows : rows'[r].outcome = rows[r].outcome
    /\ \A j \in Jobs : job[j].state = "ingesting" => job'[j] = job[j]

\* A step of one task disturbs no other, when the lock is free or its own, or
\* when the step changes nothing the lock is for.
LEMMA OthersKeep ==
    ASSUME Types, NEW t \in Tasks, \A u \in Tasks : Mine(u), Apart(t), Grows,
           lock \in {None, t} \/ (lock' = lock /\ Steady),
           \A r \in DOMAIN rows :
              rows'[r].outcome = rows[r].outcome \/ rows[r].origin \in {t} \cup Jobs
    PROVE  \A u \in Tasks \ {t} : Mine(u)'
<1> SUFFICES ASSUME NEW u \in Tasks, u # t PROVE Mine(u)'
  OBVIOUS
<1>1. /\ task'[u] = task[u] /\ current'[u] = current[u]
      /\ Stack(u) /\ Turn(u) /\ Taking(u)
      /\ u \notin {t} \cup Jobs /\ u # None
  BY RecorderConstants DEF Apart, Mine
<1>2. Stack(u)' /\ Top(task[u])' = Top(task[u])
  BY <1>1, StackKept
<1>3. Turn(u)'
  <2>1. task[u].pc = "closing" => lock' = u
    BY <1>1 DEF Turn
  <2> QED
    BY <1>1, <1>2, <2>1 DEF Turn, Grows
<1>4. Taking(u)'
  <2> SUFFICES ASSUME task[u].pc \in {"ingest", "ingestClose"} PROVE Taking(u)'
    BY <1>1 DEF Taking
  <2>1. /\ lock = u /\ task[u].batch \in [job : Jobs, report : Batches]
        /\ job[task[u].batch.job].state = "ingesting"
    BY <1>1 DEF Taking
  <2>2. lock' = u /\ Steady /\ task[u].batch.job \in Jobs
    BY <1>1, <2>1
  <2>3. job'[task[u].batch.job].state = "ingesting"
    BY <2>1, <2>2 DEF Steady
  <2> QED
    BY <1>1, <2>1, <2>2, <2>3 DEF Taking, Grows
<1> QED
  BY <1>2, <1>3, <1>4 DEF Mine

\* A task that goes on keeps the rest of what it has in memory.
Pcs == {"unborn", "run", "failing", "closing", "warn", "record", "prompt", "completion",
        "retain", "returned", "done", "ingest", "ingestClose", "over"}

LEMMA GoesOn ==
    ASSUME Types, NEW t \in Tasks, NEW pc \in Pcs, Goes(t, pc)
    PROVE  /\ task' \in [Tasks -> TaskMemory] /\ task'[t].pc = pc
           /\ task'[t].frames = task[t].frames /\ task'[t].home = task[t].home
           /\ task'[t].bare = task[t].bare /\ task'[t].call = task[t].call
           /\ task'[t].cut = task[t].cut /\ task'[t].batch = task[t].batch
           /\ task'[t].resolved = task[t].resolved
           /\ \A u \in Tasks \ {t} : task'[u] = task[u]
<1> DEFINE m == [task[t] EXCEPT !.pc = pc]
<1>1. task \in [Tasks -> TaskMemory] /\ task[t] \in TaskMemory /\ task' = [task EXCEPT ![t] = m]
  BY DEF Types, Goes
<1>2. /\ m \in TaskMemory /\ m.pc = pc /\ m.frames = task[t].frames /\ m.home = task[t].home
      /\ m.bare = task[t].bare /\ m.call = task[t].call /\ m.cut = task[t].cut
      /\ m.batch = task[t].batch /\ m.resolved = task[t].resolved
  BY <1>1 DEF TaskMemory, Pcs
<1> HIDE DEF m
<1> QED
  BY <1>1, <1>2

\* A step that neither adds nor closes a row, and hands nobody a turn, leaves
\* the tables in order when what it adds names what is there.
LEMMA QuietLedger ==
    ASSUME Types, Ledger, Grows, rows' = rows, turns' = turns,
           failures' \subseteq DOMAIN rows, events' \subseteq DOMAIN rows,
           CallsNameRows', PayloadIsThere',
           \A j \in Jobs :
              \/ job'[j] = job[j]
              \/ job[j].state = "unsent" /\ job'[j].dispatcher \in DOMAIN rows
              \/ /\ job[j].state # "unsent" /\ job'[j].state # "unsent"
                 /\ job'[j].dispatcher = job[j].dispatcher,
           faults' = faults \/ faults' # 0,
           \A u \in Tasks : task'[u].pc = "ingestClose" =>
              task[u].pc = "ingestClose" /\ task'[u].resolved = task[u].resolved,
           faults' # 0 \/ \A u \in Tasks :
              /\ task'[u].frames = task[u].frames
              /\ task[u].pc = "ingestClose" =>
                    task'[u].pc = "ingestClose" /\ task'[u].resolved = task[u].resolved
    PROVE  Ledger'
<1>1. RowsNameRows'
  BY DEF Ledger, RowsNameRows, Grows
<1>2. JobsHaveDispatchers'
  BY DEF Ledger, JobsHaveDispatchers
<1>3. RowsOfJobs'
  <2> SUFFICES ASSUME NEW r \in DOMAIN rows, NEW j \in Jobs, rows[r].origin = j
               PROVE  job'[j].state # "unsent" /\ rows[r].parent # None /\ Hangs(r, j)'
    BY DEF RowsOfJobs
  <2>1. job[j].state # "unsent" /\ rows[r].parent # None /\ Hangs(r, j)
    BY DEF Ledger, RowsOfJobs
  <2>2. job'[j].state # "unsent" /\ job'[j].dispatcher = job[j].dispatcher
    BY <2>1
  <2> QED
    BY <2>1, <2>2 DEF Hangs
<1>4. NamesAreThere'
  BY DEF NamesAreThere
<1>5. TurnsKept'
  <2> SUFFICES ASSUME NEW n \in turns
               PROVE  /\ rows[n.row].outcome = "success" /\ n.row \in DOMAIN rows
                      /\ n.call \in DOMAIN calls' /\ calls'[n.call].row = n.row
                      /\ ~ calls'[n.call].cut
                      /\ n.call \in payloads' \/ n.row \in failures'
    BY DEF TurnsKept, TurnIsAccountedFor
  <2> QED
    BY DEF Ledger, TurnsKept, TurnIsAccountedFor, Grows
<1>6. OpenIsHeld'
  <2> SUFFICES ASSUME faults' = 0, NEW r \in DOMAIN rows, rows[r].outcome = "open"
               PROVE  Held(r)'
    BY DEF OpenIsHeld
  <2>1. Held(r)
    BY DEF Ledger, OpenIsHeld
  <2> QED
    BY <2>1 DEF Held
<1>7. LastIsOpen'
  BY DEF Ledger, LastIsOpen
<1> QED
  BY <1>1, <1>2, <1>3, <1>4, <1>5, <1>6, <1>7 DEF Ledger

\* A step that records and files nothing keeps what calls and payloads there are.
LEMMA CallsStay ==
    ASSUME Ledger, rows' = rows, calls' = calls, payloads' = payloads, files \subseteq files'
    PROVE  CallsNameRows' /\ PayloadIsThere'
BY DEF Ledger, CallsNameRows, PayloadIsThere

-----------------------------------------------------------------------------
(* Steps that keep a task's blocks.                                        *)

SameBlocks(t) ==
    /\ task'[t].frames = task[t].frames /\ task'[t].home = task[t].home
    /\ task'[t].bare = task[t].bare /\ current'[t] = current[t]
    /\ task[t].pc # "ingestClose" /\ task'[t].pc # "ingestClose"

\* A job is dispatched, or goes on under its dispatcher.
JobsGo ==
    \A j \in Jobs :
        \/ job'[j] = job[j]
        \/ job[j].state = "unsent" /\ job'[j].dispatcher \in DOMAIN rows
        \/ /\ job[j].state # "unsent" /\ job'[j].state # "unsent"
           /\ job'[j].dispatcher = job[j].dispatcher

LEMMA KeepsBlocks ==
    ASSUME Inv, NEW t \in Tasks, Types', Apart(t), SameBlocks(t), Grows,
           rows' = rows, turns' = turns,
           lock \in {None, t} \/ (lock' = lock /\ Steady), JobsGo,
           faults' = faults \/ faults' # 0,
           failures' \subseteq DOMAIN rows, events' \subseteq DOMAIN rows,
           CallsNameRows', PayloadIsThere', Turn(t)', Taking(t)'
    PROVE  Inv'
<1>1. Types /\ Ledger /\ Mine(t)
  BY DEF Inv
<1>2. \A u \in Tasks \ {t} : Mine(u)'
  BY <1>1, OthersKeep DEF Inv
<1>3. Stack(t)'
  BY <1>1, StackKept DEF Mine, SameBlocks
<1>4. \A u \in Tasks :
        /\ task'[u].frames = task[u].frames
        /\ task'[u].pc = "ingestClose" <=> task[u].pc = "ingestClose"
        /\ task[u].pc = "ingestClose" => task'[u].resolved = task[u].resolved
  BY DEF Apart, SameBlocks
<1>5. Ledger'
  BY <1>1, <1>4, QuietLedger DEF JobsGo
<1> QED
  BY <1>1, <1>2, <1>3, <1>5 DEF Inv, Mine

\* What holds of a task's step that only moves it.
LEMMA OnlyMoves ==
    ASSUME Types, NEW t \in Tasks, NEW pc \in Pcs, Goes(t, pc), UNCHANGED current,
           task[t].pc # "ingestClose", pc # "ingestClose"
    PROVE  /\ Apart(t) /\ SameBlocks(t) /\ task'[t].pc = pc
           /\ task' \in [Tasks -> TaskMemory] /\ Top(task[t])' = Top(task[t])
           /\ task'[t].call = task[t].call /\ task'[t].cut = task[t].cut
<1>1. /\ task' \in [Tasks -> TaskMemory] /\ task'[t].pc = pc
      /\ task'[t].frames = task[t].frames /\ task'[t].home = task[t].home
      /\ task'[t].bare = task[t].bare /\ task'[t].call = task[t].call
      /\ task'[t].cut = task[t].cut
      /\ \A u \in Tasks \ {t} : task'[u] = task[u]
  BY GoesOn
<1> QED
  BY <1>1 DEF Apart, SameBlocks, Top, Base

\* A task that goes on in its own time: nothing is recorded.
LEMMA MovesStep ==
    ASSUME Inv, NEW t \in Tasks,
           \/ Raise(t) \/ End(t) \/ Returned(t) \/ StatementRefused(t)
           \/ \E j \in Jobs : RefuseUnknown(t, j)
    PROVE  Inv'
<1>1. /\ Types /\ Ledger /\ Stack(t) /\ Turn(t)
      /\ task[t].pc # "ingestClose" /\ task[t].pc # "ingest" /\ task[t].pc # "unborn"
  BY DEF Inv, Raise, End, Returned, StatementRefused, RefuseUnknown, At, Mine
<1>2. PICK pc \in {"failing", "over", "done"} :
         /\ Goes(t, pc)
         /\ pc = "done" => task[t].pc = "returned" /\ ~ task[t].cut
  BY DEF Raise, End, Returned, StatementRefused, RefuseUnknown, Verdict, At
<1>3. /\ UNCHANGED <<store, current, lock, job, turns>>
      /\ faults' = faults \/ (faults < MaxFaults /\ faults' = faults + 1)
  BY DEF Raise, End, Returned, StatementRefused, RefuseUnknown, Fault
<1>0. faults' \in 0 .. MaxFaults /\ (faults' = faults \/ faults' # 0)
  BY <1>1, <1>3, RecorderConstants DEF Types
<1>4. /\ Apart(t) /\ SameBlocks(t) /\ task'[t].pc = pc
      /\ task' \in [Tasks -> TaskMemory] /\ Top(task[t])' = Top(task[t])
      /\ task'[t].call = task[t].call /\ task'[t].cut = task[t].cut
  BY <1>1, <1>2, <1>3, OnlyMoves DEF Pcs
<1>5. Types' /\ Grows /\ Steady /\ JobsGo
  BY <1>0, <1>1, <1>3, <1>4 DEF Types, Grows, Steady, JobsGo, store
<1>6. CallsNameRows' /\ PayloadIsThere'
  BY <1>1, <1>3, CallsStay DEF store
<1>7. failures' \subseteq DOMAIN rows /\ events' \subseteq DOMAIN rows
  BY <1>1, <1>3 DEF Ledger, NamesAreThere, store
<1>8. Turn(t)' /\ Taking(t)'
  BY <1>1, <1>2, <1>3, <1>4 DEF Turn, Taking, InTurn, SameBlocks, store
<1> QED
  BY <1>0, <1>3, <1>4, <1>5, <1>6, <1>7, <1>8, KeepsBlocks DEF store

\* The backend answers.
LEMMA AnswerStep ==
    ASSUME Inv, NEW t \in Tasks, Answer(t)
    PROVE  Inv'
<1>1. /\ Types /\ Ledger /\ Stack(t) /\ Turn(t) /\ task[t].pc = "run" /\ task[t].frames # <<>>
      /\ task \in [Tasks -> TaskMemory]
  BY DEF Inv, Answer, At, Mine, Types
<1>2. PICK cut \in BOOLEAN :
         task' = [task EXCEPT ![t].pc = IF cut THEN "warn" ELSE "record", ![t].cut = cut]
  BY DEF Answer
<1> DEFINE pc == IF cut THEN "warn" ELSE "record"
           m == [task[t] EXCEPT !.pc = pc, !.cut = cut]
<1>3. task' = [task EXCEPT ![t] = m] /\ pc \in {"warn", "record"}
  BY <1>1, <1>2
<1> HIDE DEF pc
<1>4. /\ m \in TaskMemory /\ m.pc = pc /\ m.frames = task[t].frames /\ m.home = task[t].home
      /\ m.bare = task[t].bare
  BY <1>1, <1>3 DEF TaskMemory
<1> HIDE DEF m
<1>5. UNCHANGED <<store, current, lock, job, turns, faults>>
  BY DEF Answer
<1>6. /\ task' \in [Tasks -> TaskMemory] /\ task'[t] = m
      /\ Apart(t) /\ SameBlocks(t)
  BY <1>1, <1>3, <1>4, <1>5 DEF Apart, SameBlocks
<1>7. Types' /\ Grows /\ Steady /\ JobsGo
  BY <1>1, <1>5, <1>6 DEF Types, Grows, Steady, JobsGo, store
<1>8. CallsNameRows' /\ PayloadIsThere'
  BY <1>1, <1>5, CallsStay DEF store
<1>9. failures' \subseteq DOMAIN rows /\ events' \subseteq DOMAIN rows
  BY <1>1, <1>5 DEF Ledger, NamesAreThere, store
<1>10. Turn(t)' /\ Taking(t)'
  BY <1>1, <1>3, <1>4, <1>6 DEF Turn, Taking, InTurn
<1> QED
  BY <1>5, <1>6, <1>7, <1>8, <1>9, <1>10, KeepsBlocks DEF store

\* A failure, or a warning, is recorded under the invocation the task is in.
LEMMA RecordsTroubleStep ==
    ASSUME Inv, NEW t \in Tasks, BackendFails(t) \/ WarnCutShort(t) \/ InsertFailure(t) \/ WriteFails(t)
    PROVE  Inv'
<1>1. /\ Types /\ Ledger /\ Stack(t) /\ Turn(t) /\ Mine(t)
      /\ task[t].pc \in {"run", "warn", "failing", "prompt", "completion"}
      /\ task[t].frames # <<>>
  BY DEF Inv, BackendFails, WarnCutShort, RecordEvent, InsertFailure, WriteFails, At, Mine, Turn, InTurn
<1>2. /\ Frame(t).row = Top(task[t]) /\ current[t] = Top(task[t]) /\ Top(task[t]) \in DOMAIN rows
  BY <1>1, Innermost
<1>3. PICK pc \in {"failing", "record", "closing", "returned"} :
         /\ Goes(t, pc)
         /\ pc = "closing" => lock' = t
         /\ pc \in {"closing", "returned"} => Top(task[t]) \in failures'
         /\ pc = "returned" => task[t].pc \in {"prompt", "completion"}
  BY <1>2 DEF BackendFails, WarnCutShort, RecordEvent, InsertFailure, WriteFails, WritesFailure,
     AfterFailedWrite, At
<1>4. /\ rows' = rows /\ calls' = calls /\ files' = files /\ payloads' = payloads
      /\ turns' = turns /\ job' = job /\ current' = current
      /\ failures \subseteq failures' /\ failures' \subseteq failures \cup {Top(task[t])}
      /\ events' \subseteq events \cup {Top(task[t])}
      /\ lock = None /\ lock' \in {None, t}
      /\ faults' = faults \/ (faults < MaxFaults /\ faults' = faults + 1)
  BY <1>2 DEF BackendFails, WarnCutShort, RecordEvent, InsertFailure, WriteFails, WritesFailure, Locked, Fault
<1>5. /\ Apart(t) /\ SameBlocks(t) /\ task'[t].pc = pc
      /\ task' \in [Tasks -> TaskMemory] /\ Top(task[t])' = Top(task[t])
      /\ task'[t].call = task[t].call /\ task'[t].cut = task[t].cut
  BY <1>1, <1>3, <1>4, OnlyMoves DEF Pcs
<1>6. faults' \in 0 .. MaxFaults /\ (faults' = faults \/ faults' # 0)
  BY <1>1, <1>4, RecorderConstants DEF Types
<1>7. Types' /\ Grows /\ JobsGo
  BY <1>1, <1>4, <1>5, <1>6 DEF Types, Grows, JobsGo
<1>8. CallsNameRows' /\ PayloadIsThere'
  BY <1>1, <1>4, CallsStay
<1>9. failures' \subseteq DOMAIN rows /\ events' \subseteq DOMAIN rows
  BY <1>1, <1>2, <1>4 DEF Ledger, NamesAreThere
<1>10. Turn(t)' /\ Taking(t)'
  BY <1>1, <1>3, <1>4, <1>5 DEF Turn, Taking, InTurn, SameBlocks
<1> QED
  BY <1>4, <1>5, <1>6, <1>7, <1>8, <1>9, <1>10, KeepsBlocks

\* A call is recorded under the invocation the task is in, or has no rate.
LEMMA RecordCallStep ==
    ASSUME Inv, NEW t \in Tasks, RecordCall(t)
    PROVE  Inv'
<1>1. /\ Types /\ Ledger /\ Stack(t) /\ Turn(t) /\ Mine(t) /\ task[t].pc = "record"
      /\ task[t].frames # <<>> /\ task \in [Tasks -> TaskMemory] /\ calls \in Seq(CallRecord)
  BY DEF Inv, RecordCall, At, Mine, Turn, Types
<1>2. /\ Frame(t).row = Top(task[t]) /\ current[t] = Top(task[t]) /\ Top(task[t]) \in DOMAIN rows
  BY <1>1, Innermost
<1>3. /\ rows' = rows /\ failures' = failures /\ events' = events /\ files' = files
      /\ payloads' = payloads /\ current' = current /\ lock' = lock /\ job' = job
      /\ turns' = turns /\ faults' = faults
  BY DEF RecordCall
<1>4. failures' \subseteq DOMAIN rows /\ events' \subseteq DOMAIN rows
  BY <1>1, <1>3 DEF Ledger, NamesAreThere
<1>5. Steady /\ JobsGo
  BY <1>3 DEF Steady, JobsGo
<1>6. CASE Goes(t, "failing") /\ calls' = calls
  <2>1. /\ Apart(t) /\ SameBlocks(t) /\ task'[t].pc = "failing"
        /\ task' \in [Tasks -> TaskMemory] /\ Top(task[t])' = Top(task[t])
    BY <1>1, <1>3, <1>6, OnlyMoves DEF Pcs
  <2>2. Types' /\ Grows
    BY <1>1, <1>3, <1>6, <2>1 DEF Types, Grows
  <2>3. CallsNameRows' /\ PayloadIsThere'
    BY <1>1, <1>3, <1>6, CallsStay
  <2>4. Turn(t)' /\ Taking(t)'
    BY <2>1 DEF Turn, Taking, InTurn
  <2> QED
    BY <1>3, <1>4, <1>5, <2>1, <2>2, <2>3, <2>4, KeepsBlocks
<1>7. CASE /\ lock = None
           /\ calls' = Append(calls, Call(current[t], Enclosing(t), task[t].cut))
           /\ task' = [task EXCEPT ![t].pc = "prompt", ![t].call = Len(calls) + 1]
  <2> DEFINE m == [task[t] EXCEPT !.pc = "prompt", !.call = Len(calls) + 1]
             c == Call(current[t], Enclosing(t), task[t].cut)
  <2>1. task' = [task EXCEPT ![t] = m]
    BY <1>1, <1>7
  <2>2. Enclosing(t) = Top(task[t])
    BY <1>1, <1>2 DEF Enclosing
  <2>3. c \in CallRecord /\ c.row = Top(task[t]) /\ c.made = c.row /\ c.cut = task[t].cut
    BY <1>1, <1>2, <2>2 DEF Call, CallRecord, Types, TaskMemory
  <2> HIDE DEF c
  <2>4. /\ calls' \in Seq(CallRecord) /\ Len(calls) + 1 \in DOMAIN calls'
        /\ Len(calls) + 1 \in Nat
        /\ calls'[Len(calls) + 1] = c
        /\ \A k \in DOMAIN calls : k \in DOMAIN calls' /\ calls'[k] = calls[k]
        /\ \A k \in DOMAIN calls' : k \in DOMAIN calls \/ k = Len(calls) + 1
    BY <1>1, <1>7, <2>3 DEF c
  <2>5. /\ m \in TaskMemory /\ m.pc = "prompt" /\ m.call = Len(calls) + 1
        /\ m.frames = task[t].frames /\ m.home = task[t].home /\ m.bare = task[t].bare
        /\ m.cut = task[t].cut
    BY <1>1, <2>4 DEF TaskMemory
  <2> HIDE DEF m
  <2>6. /\ task' \in [Tasks -> TaskMemory] /\ task'[t] = m /\ Apart(t) /\ SameBlocks(t)
    BY <1>1, <1>3, <2>1, <2>5 DEF Apart, SameBlocks
  <2>7. Top(task'[t]) = Top(task[t])
    BY <2>5, <2>6 DEF Top, Base
  <2>8. Types' /\ Grows
    BY <1>1, <1>3, <2>4, <2>6 DEF Types, Grows
  <2>9. CallsNameRows' /\ PayloadIsThere'
    BY <1>1, <1>2, <1>3, <2>3, <2>4 DEF Ledger, CallsNameRows, PayloadIsThere
  <2>10. Turn(t)' /\ Taking(t)'
    BY <1>1, <2>3, <2>4, <2>5, <2>6, <2>7 DEF Turn, Taking, InTurn
  <2> QED
    BY <1>3, <1>4, <1>5, <2>6, <2>8, <2>9, <2>10, KeepsBlocks
<1> QED
  BY <1>6, <1>7 DEF RecordCall, Locked

\* What a call said is kept: two files, then the row that names them.
LEMMA KeepsPayloadStep ==
    ASSUME Inv, NEW t \in Tasks, WritePrompt(t) \/ WriteCompletion(t) \/ InsertPayload(t)
    PROVE  Inv'
<1>1. /\ Types /\ Ledger /\ Stack(t) /\ Turn(t) /\ task[t].pc \in {"prompt", "completion", "retain"}
  BY DEF Inv, WritePrompt, WriteCompletion, InsertPayload, InsertPayloadRow, At, Mine
<1>2. /\ rows' = rows /\ calls' = calls /\ failures' = failures /\ events' = events
      /\ current' = current /\ lock' = lock /\ job' = job
      /\ turns' = turns /\ faults' = faults
      /\ files \subseteq files' /\ payloads \subseteq payloads'
      /\ payloads' \subseteq payloads \cup {task[t].call}
      /\ payloads' = payloads \/ task[t].pc = "retain"
  BY DEF WritePrompt, WriteCompletion, InsertPayload, InsertPayloadRow, At
<1>3. PICK pc \in {"completion", "retain", "returned"} :
         /\ Goes(t, pc)
         /\ pc = "completion" => <<task[t].call, "prompt">> \in files'
         /\ pc = "retain" => task[t].pc = "completion" /\ <<task[t].call, "completion">> \in files'
         /\ pc = "returned" => task[t].call \in payloads'
  BY DEF WritePrompt, WriteCompletion, InsertPayload, InsertPayloadRow, At
<1>4. /\ Apart(t) /\ SameBlocks(t) /\ task'[t].pc = pc
      /\ task' \in [Tasks -> TaskMemory] /\ Top(task[t])' = Top(task[t])
      /\ task'[t].call = task[t].call /\ task'[t].cut = task[t].cut
  BY <1>1, <1>2, <1>3, OnlyMoves DEF Pcs
<1>5. Types' /\ Grows /\ Steady /\ JobsGo
  BY <1>1, <1>2, <1>4 DEF Types, Grows, Steady, JobsGo
<1>6. CallsNameRows'
  BY <1>1, <1>2 DEF Ledger, CallsNameRows
<1>7. PayloadIsThere'
  BY <1>1, <1>2 DEF Ledger, PayloadIsThere, Turn, InTurn
<1>8. failures' \subseteq DOMAIN rows /\ events' \subseteq DOMAIN rows
  BY <1>1, <1>2 DEF Ledger, NamesAreThere
<1>9. Turn(t)' /\ Taking(t)'
  <2>1. /\ task[t].frames # <<>> /\ task[t].call \in DOMAIN calls
        /\ calls[task[t].call].row = Top(task[t]) /\ calls[task[t].call].cut = task[t].cut
        /\ task[t].pc \in {"completion", "retain"} => <<task[t].call, "prompt">> \in files
    BY <1>1 DEF Turn, InTurn
  <2>2. task'[t].frames # <<>>
    BY <1>4, <2>1 DEF SameBlocks
  <2>3. /\ pc \in {"completion", "retain"} => <<task[t].call, "prompt">> \in files'
        /\ pc = "retain" => <<task[t].call, "completion">> \in files'
        /\ pc = "returned" => task[t].call \in payloads'
    BY <1>2, <1>3, <2>1
  <2>4. Turn(t)'
    BY <1>2, <1>4, <2>1, <2>2, <2>3 DEF Turn, InTurn
  <2>5. Taking(t)'
    BY <1>4 DEF Taking
  <2> QED
    BY <2>4, <2>5
<1> QED
  BY <1>2, <1>4, <1>5, <1>6, <1>7, <1>8, <1>9, KeepsBlocks

\* Work is dispatched from an invocation, which its row will name.
LEMMA DispatchStep ==
    ASSUME Inv, NEW t \in Tasks, NEW j \in Jobs, Dispatch(t, j)
    PROVE  Inv'
<1>1. /\ Types /\ Ledger /\ Stack(t) /\ Turn(t) /\ Taking(t) /\ Mine(t) /\ task[t].pc = "run"
  BY DEF Inv, Dispatch, At, Mine
<1>2. current[t] \in DOMAIN rows /\ current[t] \in Nat
  BY <1>1, Innermost DEF Dispatch, Types
<1>3. /\ job' = [job EXCEPT ![j] = [dispatcher |-> current[t], state |-> "sent"]]
      /\ job[j].state = "unsent"
      /\ UNCHANGED <<store, task, current, lock, turns, faults>>
  BY DEF Dispatch
<1>4. job' \in [Jobs -> JobRecord]
  BY <1>1, <1>2, <1>3 DEF Types, JobRecord
<1>5. JobsGo /\ Steady
  BY <1>1, <1>2, <1>3 DEF JobsGo, Steady, Types, store
<1>6. Types' /\ Grows /\ Apart(t) /\ SameBlocks(t)
  BY <1>1, <1>3, <1>4 DEF Types, Grows, Apart, SameBlocks, store
<1>7. CallsNameRows' /\ PayloadIsThere'
  BY <1>1, <1>3, CallsStay DEF store
<1>8. failures' \subseteq DOMAIN rows /\ events' \subseteq DOMAIN rows
  BY <1>1, <1>3 DEF Ledger, NamesAreThere, store
<1>9. Turn(t)' /\ Taking(t)'
  BY <1>1, <1>3 DEF Turn, Taking, InTurn
<1> QED
  BY <1>3, <1>5, <1>6, <1>7, <1>8, <1>9, KeepsBlocks DEF store

\* Its report is taken under the lock.
LEMMA BeginIngestStep ==
    ASSUME Inv, NEW t \in Tasks, NEW j \in Jobs, BeginIngest(t, j)
    PROVE  Inv'
<1>1. /\ Types /\ Ledger /\ Stack(t) /\ Turn(t) /\ task[t].pc = "run"
      /\ task \in [Tasks -> TaskMemory] /\ job[j] \in JobRecord /\ job \in [Jobs -> JobRecord]
  BY DEF Inv, BeginIngest, At, Mine, Types
<1>2. PICK b \in Batches :
         task' = [task EXCEPT ![t].pc = "ingest", ![t].batch = [job |-> j, report |-> b],
                              ![t].resolved = <<>>]
  BY DEF BeginIngest
<1> DEFINE batch == [job |-> j, report |-> b]
           m == [task[t] EXCEPT !.pc = "ingest", !.batch = batch, !.resolved = <<>>]
           g == [job[j] EXCEPT !.state = "ingesting"]
<1>3. task' = [task EXCEPT ![t] = m]
  BY <1>1, <1>2
<1>4. batch \in [job : Jobs, report : Batches] /\ batch.job = j /\ <<>> \in Seq(Nat)
  OBVIOUS
<1> HIDE DEF batch
<1>5. /\ m \in TaskMemory /\ m.pc = "ingest" /\ m.frames = task[t].frames
      /\ m.home = task[t].home /\ m.bare = task[t].bare /\ m.batch = batch
      /\ m.resolved = <<>>
  BY <1>1, <1>4 DEF TaskMemory
<1> HIDE DEF m
<1>6. /\ UNCHANGED <<store, current, turns, faults>> /\ lock = None /\ lock' = t
      /\ job' = [job EXCEPT ![j] = g] /\ job[j].state = "sent"
  BY DEF BeginIngest, Locked
<1>7. g \in JobRecord /\ g.state = "ingesting" /\ g.dispatcher = job[j].dispatcher
  BY <1>1 DEF JobRecord
<1> HIDE DEF g
<1>8. job' \in [Jobs -> JobRecord] /\ job'[j] = g /\ \A k \in Jobs \ {j} : job'[k] = job[k]
  BY <1>1, <1>6, <1>7
<1>9. JobsGo
  BY <1>6, <1>7, <1>8 DEF JobsGo
<1>10. task' \in [Tasks -> TaskMemory] /\ task'[t] = m /\ Apart(t) /\ SameBlocks(t)
  BY <1>1, <1>3, <1>5, <1>6 DEF Apart, SameBlocks
<1>11. Types' /\ Grows
  BY <1>1, <1>6, <1>8, <1>10 DEF Types, Grows, store
<1>12. CallsNameRows' /\ PayloadIsThere'
  BY <1>1, <1>6, CallsStay DEF store
<1>13. failures' \subseteq DOMAIN rows /\ events' \subseteq DOMAIN rows
  BY <1>1, <1>6 DEF Ledger, NamesAreThere, store
<1>14. Turn(t)'
  BY <1>5, <1>10 DEF Turn, InTurn
<1>15. Taking(t)'
  BY <1>4, <1>5, <1>6, <1>7, <1>8, <1>10 DEF Taking
<1> QED
  BY <1>6, <1>9, <1>10, <1>11, <1>12, <1>13, <1>14, <1>15, KeepsBlocks DEF store

\* What is known while a report is taken.
LEMMA Taken ==
    ASSUME Inv, NEW t \in Tasks, task[t].pc \in {"ingest", "ingestClose"}
    PROVE  /\ lock = t /\ task[t] \in TaskMemory /\ task[t].batch.job \in Jobs
           /\ Report(t).parents \in Seq(Nat) /\ Report(t).call \in Nat
           /\ job[task[t].batch.job].state = "ingesting"
           /\ TopParent(t) \in DOMAIN rows
           /\ task[t].resolved \in Seq(Nat)
           /\ \A k \in DOMAIN task[t].resolved :
                 /\ task[t].resolved[k] \in DOMAIN rows
                 /\ rows[task[t].resolved[k]].origin = task[t].batch.job
           /\ \A u \in Tasks \ {t} : task[u].pc # "ingestClose" /\ task[u].pc # "ingest"
<1>1. Types /\ Taking(t) /\ JobsHaveDispatchers /\ \A u \in Tasks : Taking(u)
  BY DEF Inv, Mine, Ledger
<1>2. task[t] \in TaskMemory
  BY <1>1 DEF Types
<1>3. task[t].resolved \in Seq(Nat)
  BY <1>2 DEF TaskMemory
<1>4. /\ lock = t /\ task[t].batch \in [job : Jobs, report : Batches]
      /\ job[task[t].batch.job].state = "ingesting"
      /\ \A k \in DOMAIN task[t].resolved :
            /\ task[t].resolved[k] \in DOMAIN rows
            /\ rows[task[t].resolved[k]].origin = task[t].batch.job
  BY <1>1 DEF Taking
<1>5. task[t].batch.job \in Jobs /\ IsBatch(task[t].batch.report)
  BY <1>4, RecorderConstants
<1>6. TopParent(t) \in DOMAIN rows
  BY <1>1, <1>4, <1>5 DEF TopParent, JobsHaveDispatchers
<1>7. \A u \in Tasks \ {t} : task[u].pc # "ingestClose" /\ task[u].pc # "ingest"
  BY <1>1, <1>4 DEF Taking
<1> QED
  BY <1>2, <1>3, <1>4, <1>5, <1>6, <1>7 DEF Report, IsBatch

\* A report is taken whole, or refused half way: the lock is free again.
LEMMA EndIngestStep ==
    ASSUME Inv, NEW t \in Tasks, IngestCall(t) \/ RefuseReport(t)
    PROVE  Inv'
<1>1. /\ Types /\ Ledger /\ Stack(t) /\ Turn(t) /\ task[t].pc = "ingest"
      /\ task \in [Tasks -> TaskMemory] /\ job \in [Jobs -> JobRecord]
      /\ calls \in Seq(CallRecord) /\ rows \in Seq(RowRecord)
  BY DEF Inv, IngestCall, RefuseReport, At, Mine, Types
<1> DEFINE j == task[t].batch.job
<1>2. /\ lock = t /\ task[t] \in TaskMemory /\ j \in Jobs /\ job[j].state = "ingesting"
      /\ \A k \in DOMAIN task[t].resolved : task[t].resolved[k] \in DOMAIN rows
  BY <1>1, Taken
<1>3. PICK state \in {"taken", "refused"}, pc \in {"run", "failing"} : EndIngest(t, state, pc)
  BY DEF IngestCall, RefuseReport
<1>4. /\ rows' = rows /\ failures' = failures /\ events' = events /\ files' = files
      /\ payloads' = payloads /\ current' = current /\ turns' = turns /\ faults' = faults
      /\ lock' = None
  BY <1>3 DEF IngestCall, RefuseReport, EndIngest, store
<1> DEFINE m == [task[t] EXCEPT !.batch = <<>>, !.resolved = <<>>, !.pc = pc]
           g == [job[j] EXCEPT !.state = state]
<1>5. task' = [task EXCEPT ![t] = m] /\ job' = [job EXCEPT ![j] = g]
  BY <1>1, <1>3 DEF EndIngest
<1>6. <<>> \in Seq(Nat) /\ <<>> \in {<<>>} \cup [job : Jobs, report : Batches]
  OBVIOUS
<1>7. /\ m \in TaskMemory /\ m.pc = pc /\ m.frames = task[t].frames
      /\ m.home = task[t].home /\ m.bare = task[t].bare
  BY <1>2, <1>6 DEF TaskMemory
<1> HIDE DEF m
<1>8. g \in JobRecord /\ g.state = state /\ g.dispatcher = job[j].dispatcher
  BY <1>1, <1>2 DEF JobRecord
<1> HIDE DEF g, j
<1>9. job' \in [Jobs -> JobRecord] /\ job'[j] = g /\ \A k \in Jobs \ {j} : job'[k] = job[k]
  BY <1>1, <1>2, <1>5, <1>8
<1>10. JobsGo
  BY <1>2, <1>8, <1>9 DEF JobsGo
<1>11. task' \in [Tasks -> TaskMemory] /\ task'[t] = m /\ Apart(t) /\ SameBlocks(t)
  BY <1>1, <1>4, <1>5, <1>7 DEF Apart, SameBlocks
<1>12. /\ calls' \in Seq(CallRecord) /\ CallsNameRows'
       /\ \A k \in DOMAIN calls : k \in DOMAIN calls' /\ calls'[k] = calls[k]
  <2>1. CASE IngestCall(t)
    <3> DEFINE row == task[t].resolved[Report(t).call]
               c == Call(row, row, FALSE)
    <3>1. row \in DOMAIN rows /\ calls' = Append(calls, c)
      BY <1>2, <2>1 DEF IngestCall
    <3>2. c \in CallRecord /\ c.row \in DOMAIN rows /\ c.made = c.row
      BY <1>1, <3>1 DEF Call, CallRecord
    <3> HIDE DEF c
    <3>3. /\ calls' \in Seq(CallRecord)
          /\ \A k \in DOMAIN calls : k \in DOMAIN calls' /\ calls'[k] = calls[k]
          /\ \A k \in DOMAIN calls' : k \in DOMAIN calls \/ calls'[k] = c
      BY <1>1, <3>1, <3>2
    <3> QED
      BY <1>1, <1>4, <3>2, <3>3 DEF Ledger, CallsNameRows
  <2>2. CASE RefuseReport(t)
    BY <1>1, <1>4, <2>2 DEF RefuseReport, store, Ledger, CallsNameRows
  <2> QED
    BY <2>1, <2>2
<1>13. Types' /\ Grows
  BY <1>1, <1>4, <1>9, <1>11, <1>12 DEF Types, Grows
<1>14. PayloadIsThere'
  BY <1>1, <1>4, <1>12 DEF Ledger, PayloadIsThere
<1>15. failures' \subseteq DOMAIN rows /\ events' \subseteq DOMAIN rows
  BY <1>1, <1>4 DEF Ledger, NamesAreThere
<1>16. Turn(t)' /\ Taking(t)'
  BY <1>7, <1>11 DEF Turn, Taking, InTurn
<1> QED
  BY <1>2, <1>4, <1>10, <1>11, <1>12, <1>13, <1>14, <1>15, <1>16, KeepsBlocks

\* It is refused by the database: a row that was just inserted stays open.
LEMMA IngestRefusedStep ==
    ASSUME Inv, NEW t \in Tasks, IngestRefused(t)
    PROVE  Inv'
<1>1. /\ Types /\ Ledger /\ Mine(t) /\ Stack(t) /\ task[t].pc \in {"ingest", "ingestClose"}
      /\ task \in [Tasks -> TaskMemory] /\ job \in [Jobs -> JobRecord]
  BY DEF Inv, IngestRefused, At, Mine, Types
<1> DEFINE j == task[t].batch.job
<1>2. /\ lock = t /\ task[t] \in TaskMemory /\ j \in Jobs /\ job[j].state = "ingesting"
      /\ \A u \in Tasks \ {t} : task[u].pc # "ingestClose"
  BY <1>1, Taken
<1>3. /\ UNCHANGED <<store, current, turns>> /\ lock' = None
      /\ faults' \in 0 .. MaxFaults /\ faults' # 0
  BY <1>1, RecorderConstants DEF IngestRefused, EndIngest, Fault, Types
<1> DEFINE m == [task[t] EXCEPT !.batch = <<>>, !.resolved = <<>>, !.pc = "failing"]
           g == [job[j] EXCEPT !.state = "refused"]
<1>4. task' = [task EXCEPT ![t] = m] /\ job' = [job EXCEPT ![j] = g]
  BY <1>1 DEF IngestRefused, EndIngest
<1>5. <<>> \in Seq(Nat) /\ <<>> \in {<<>>} \cup [job : Jobs, report : Batches]
  OBVIOUS
<1>6. /\ m \in TaskMemory /\ m.pc = "failing" /\ m.frames = task[t].frames
      /\ m.home = task[t].home /\ m.bare = task[t].bare
  BY <1>2, <1>5 DEF TaskMemory
<1> HIDE DEF m
<1>7. g \in JobRecord /\ g.state = "refused" /\ g.dispatcher = job[j].dispatcher
  BY <1>1, <1>2 DEF JobRecord
<1> HIDE DEF g, j
<1>8. job' \in [Jobs -> JobRecord] /\ job'[j] = g /\ \A k \in Jobs \ {j} : job'[k] = job[k]
  BY <1>1, <1>2, <1>4, <1>7
<1>9. JobsGo
  BY <1>2, <1>7, <1>8 DEF JobsGo
<1>10. task' \in [Tasks -> TaskMemory] /\ task'[t] = m /\ Apart(t)
  BY <1>1, <1>3, <1>4, <1>6 DEF Apart
<1>11. Types' /\ Grows
  BY <1>1, <1>3, <1>8, <1>10 DEF Types, Grows, store
<1>12. \A u \in Tasks \ {t} : Mine(u)'
  BY <1>1, <1>2, <1>3, <1>10, <1>11, OthersKeep DEF Inv, store
<1>13. Stack(t)'
  BY <1>1, <1>3, <1>6, <1>10, <1>11, StackKept DEF store
<1>14. Turn(t)' /\ Taking(t)'
  BY <1>6, <1>10 DEF Turn, Taking, InTurn
<1>15. CallsNameRows' /\ PayloadIsThere'
  BY <1>1, <1>3, CallsStay DEF store
<1>16. failures' \subseteq DOMAIN rows /\ events' \subseteq DOMAIN rows
  BY <1>1, <1>3 DEF Ledger, NamesAreThere, store
<1>17. \A u \in Tasks : task'[u].pc # "ingestClose"
  BY <1>2, <1>6, <1>10 DEF Apart
<1>18. Ledger'
  BY <1>1, <1>3, <1>9, <1>11, <1>15, <1>16, <1>17, QuietLedger DEF JobsGo, store
<1> QED
  BY <1>11, <1>12, <1>13, <1>14, <1>18 DEF Inv, Mine

\* A task is started, in a copy of the context or in an empty one.
LEMMA SpawnStep ==
    ASSUME Inv, NEW t \in Tasks, NEW u \in Others, NEW bare \in BOOLEAN, Spawn(t, u, bare)
    PROVE  Inv'
<1>1. /\ Types /\ Ledger /\ Mine(t) /\ Mine(u) /\ u \in Tasks /\ t # u
      /\ task[t].pc = "run" /\ task[u].pc = "unborn" /\ task \in [Tasks -> TaskMemory]
  BY DEF Inv, Spawn, At, Types, Tasks
<1>2. task[u].frames = <<>>
  BY <1>1 DEF Mine, Turn
<1> DEFINE home == Enclosing(t)
           lost == bare \/ Adrift(t)
           m == [Unborn EXCEPT !.pc = "run", !.home = home, !.bare = lost]
           context == CopiedContext(t, bare)
<1>3. /\ task' = [task EXCEPT ![u] = m] /\ current' = [current EXCEPT ![u] = context]
      /\ UNCHANGED <<store, lock, job, turns, faults>>
  BY DEF Spawn
<1>4. /\ task[t] \in TaskMemory /\ current[t] \in {None} \cup DOMAIN rows
      /\ current[t] = Top(task[t])
      /\ task[t].frames # <<>> => Frame(t).row = Top(task[t]) /\ Frame(t).row \in DOMAIN rows
  BY <1>1, Innermost
<1>5. task[t].home \in {None} \cup DOMAIN rows
  BY <1>1 DEF Mine, Stack
<1>6. home \in {None} \cup DOMAIN rows
  BY <1>4, <1>5 DEF Enclosing
<1>7. context = IF lost THEN None ELSE home
  <2>1. CASE bare
    BY <2>1 DEF CopiedContext
  <2>2. CASE ~ bare /\ Adrift(t)
    BY <1>4, <2>2 DEF CopiedContext, Adrift, Top, Base
  <2>3. CASE ~ bare /\ ~ Adrift(t)
    BY <1>4, <2>3 DEF CopiedContext, Adrift, Top, Base, Enclosing
  <2> QED
    BY <2>1, <2>2, <2>3
<1>8. lost \in BOOLEAN
  BY <1>4 DEF Adrift, TaskMemory
<1>9. rows \in Seq(RowRecord) /\ current \in [Tasks -> Nat]
  BY <1>1 DEF Types
<1>10. home \in Nat /\ context \in Nat
  BY <1>6, <1>7, <1>9 DEF None
<1> HIDE DEF home, lost, context
<1>11. Unborn \in TaskMemory /\ Unborn.frames = <<>>
  <2>1. <<>> \in Seq([row : Nat, saved : Nat]) /\ <<>> \in Seq(Nat)
        /\ <<>> \in {<<>>} \cup [job : Jobs, report : Batches]
    OBVIOUS
  <2> QED
    BY <2>1 DEF Unborn, TaskMemory, None
<1>12. m \in TaskMemory /\ m.pc = "run" /\ m.frames = <<>> /\ m.home = home /\ m.bare = lost
  BY <1>8, <1>10, <1>11 DEF TaskMemory
<1> HIDE DEF m
<1>13. /\ task' \in [Tasks -> TaskMemory] /\ task'[u] = m /\ current' \in [Tasks -> Nat]
       /\ current'[u] = context /\ Apart(u)
  BY <1>1, <1>3, <1>9, <1>10, <1>12 DEF Apart
<1>14. Types' /\ Grows /\ Steady
  BY <1>1, <1>3, <1>13 DEF Types, Grows, Steady, store
<1>15. \A v \in Tasks \ {u} : Mine(v)'
  BY <1>1, <1>3, <1>13, <1>14, OthersKeep DEF Inv, store
<1>16. Stack(u)'
  BY <1>3, <1>6, <1>7, <1>12, <1>13 DEF Stack, Top, Base, store
<1>17. Turn(u)' /\ Taking(u)'
  BY <1>12, <1>13 DEF Turn, Taking, InTurn
<1>18. CallsNameRows' /\ PayloadIsThere'
  BY <1>1, <1>3, CallsStay DEF store
<1>19. failures' \subseteq DOMAIN rows /\ events' \subseteq DOMAIN rows
  BY <1>1, <1>3 DEF Ledger, NamesAreThere, store
<1>20. \A v \in Tasks :
          /\ task'[v].frames = task[v].frames
          /\ task'[v].pc = "ingestClose" <=> task[v].pc = "ingestClose"
          /\ task[v].pc = "ingestClose" => task'[v].resolved = task[v].resolved
  BY <1>1, <1>2, <1>12, <1>13 DEF Apart
<1>21. Ledger'
  BY <1>1, <1>3, <1>14, <1>18, <1>19, <1>20, QuietLedger DEF store
<1> QED
  BY <1>14, <1>15, <1>16, <1>17, <1>21 DEF Inv, Mine

-----------------------------------------------------------------------------
(* A row is opened, and closed.                                            *)

\* A row is added that somebody holds, and that has a parent where it must.
LEMMA AddedLedger ==
    ASSUME Types, Ledger, NEW x \in RowRecord, rows' = Append(rows, x),
           NEW new \in Nat, new = Len(rows) + 1,
           x.parent \in {None} \cup DOMAIN rows, x.outcome = "open",
           \A j \in Jobs : x.origin = j =>
              /\ job[j].state # "unsent" /\ x.parent # None
              /\ x.parent = job[j].dispatcher \/ rows[x.parent].origin = j,
           UNCHANGED <<calls, failures, events, files, payloads, turns, job, faults>>,
           \A r \in DOMAIN rows : Held(r) => Held(r)',
           Held(new)', LastIsOpen'
    PROVE  Ledger'
<1>1. /\ rows' \in Seq(RowRecord) /\ Len(rows) \in Nat
      /\ DOMAIN rows = 1 .. Len(rows) /\ DOMAIN rows' = 1 .. new
      /\ rows'[new] = x
      /\ \A r \in DOMAIN rows : r \in DOMAIN rows' /\ rows'[r] = rows[r]
  BY RowAdded
<1>2. \A r \in DOMAIN rows' : r \in DOMAIN rows \/ r = new
  BY <1>1
<1>3. RowsNameRows'
  <2> SUFFICES ASSUME NEW r \in DOMAIN rows'
               PROVE  rows'[r].parent \in 0 .. (r - 1) /\ (rows'[r].outcome = "failed" => r \in failures)
    BY DEF RowsNameRows
  <2>1. CASE r \in DOMAIN rows
    BY <1>1, <2>1 DEF Ledger, RowsNameRows
  <2>2. CASE r = new
    BY <1>1, <2>2 DEF None
  <2> QED
    BY <1>2, <2>1, <2>2
<1>4. JobsHaveDispatchers'
  BY <1>1 DEF Ledger, JobsHaveDispatchers
<1>5. RowsOfJobs'
  <2> SUFFICES ASSUME NEW r \in DOMAIN rows', NEW j \in Jobs, rows'[r].origin = j
               PROVE  job[j].state # "unsent" /\ rows'[r].parent # None /\ Hangs(r, j)'
    BY DEF RowsOfJobs
  <2>1. CASE r \in DOMAIN rows
    <3>1. /\ job[j].state # "unsent" /\ rows[r].parent # None /\ Hangs(r, j)
          /\ rows[r].parent \in 0 .. (r - 1)
      BY <1>1, <2>1 DEF Ledger, RowsOfJobs, RowsNameRows
    <3>2. rows[r].parent \in DOMAIN rows
      BY <1>1, <2>1, <3>1 DEF None
    <3> QED
      BY <1>1, <2>1, <3>1, <3>2 DEF Hangs
  <2>2. CASE r = new
    BY <1>1, <2>2 DEF Hangs
  <2> QED
    BY <1>2, <2>1, <2>2
<1>6. CallsNameRows'
  BY <1>1 DEF Ledger, CallsNameRows
<1>7. NamesAreThere' /\ PayloadIsThere'
  BY <1>1 DEF Ledger, NamesAreThere, PayloadIsThere
<1>8. TurnsKept'
  BY <1>1 DEF Ledger, TurnsKept, TurnIsAccountedFor
<1>9. OpenIsHeld'
  <2> SUFFICES ASSUME faults = 0, NEW r \in DOMAIN rows', rows'[r].outcome = "open"
               PROVE  Held(r)'
    BY DEF OpenIsHeld
  <2>1. CASE r \in DOMAIN rows
    BY <1>1, <2>1 DEF Ledger, OpenIsHeld
  <2>2. CASE r = new
    BY <2>2
  <2> QED
    BY <1>2, <2>1, <2>2
<1> QED
  BY <1>3, <1>4, <1>5, <1>6, <1>7, <1>8, <1>9 DEF Ledger

\* An open row is closed, and nothing else is.
LEMMA ClosedLedger ==
    ASSUME Types, Ledger, NEW q \in DOMAIN rows, rows[q].outcome = "open",
           NEW o \in {"success", "failed"}, rows' = Closed(q, o), o = "failed" => q \in failures,
           UNCHANGED <<calls, failures, events, files, payloads, job>>,
           \A n \in turns' : n \in turns \/
              /\ n.row = q /\ o = "success" /\ n.call \in DOMAIN calls
              /\ calls[n.call].row = q /\ ~ calls[n.call].cut
              /\ n.call \in payloads \/ q \in failures,
           faults' = faults \/ faults' # 0,
           faults' # 0 \/ \A r \in DOMAIN rows : r # q /\ Held(r) => Held(r)',
           LastIsOpen'
    PROVE  Ledger'
<1>1. /\ rows' \in Seq(RowRecord) /\ DOMAIN rows' = DOMAIN rows
      /\ rows'[q].outcome = o
      /\ \A r \in DOMAIN rows : r # q => rows'[r] = rows[r]
      /\ \A r \in DOMAIN rows : rows'[r].origin = rows[r].origin /\ rows'[r].parent = rows[r].parent
  BY RowClosed
<1>2. RowsNameRows'
  BY <1>1 DEF Ledger, RowsNameRows
<1>3. JobsHaveDispatchers'
  BY <1>1 DEF Ledger, JobsHaveDispatchers
<1>4. RowsOfJobs'
  <2> SUFFICES ASSUME NEW r \in DOMAIN rows, NEW j \in Jobs, rows[r].origin = j
               PROVE  job[j].state # "unsent" /\ rows'[r].parent # None /\ Hangs(r, j)'
    BY <1>1 DEF RowsOfJobs
  <2>1. /\ job[j].state # "unsent" /\ rows[r].parent # None /\ Hangs(r, j)
        /\ rows[r].parent \in 0 .. (r - 1)
    BY DEF Ledger, RowsOfJobs, RowsNameRows
  <2>2. rows[r].parent \in DOMAIN rows
    BY <2>1 DEF Types, None
  <2> QED
    BY <1>1, <2>1, <2>2 DEF Hangs
<1>5. CallsNameRows'
  BY <1>1 DEF Ledger, CallsNameRows
<1>6. NamesAreThere' /\ PayloadIsThere'
  BY <1>1 DEF Ledger, NamesAreThere, PayloadIsThere
<1>7. TurnsKept'
  <2> SUFFICES ASSUME NEW n \in turns'
               PROVE  /\ rows'[n.row].outcome = "success" /\ n.row \in DOMAIN rows'
                      /\ n.call \in DOMAIN calls /\ calls[n.call].row = n.row
                      /\ ~ calls[n.call].cut
                      /\ n.call \in payloads \/ n.row \in failures
    BY DEF TurnsKept, TurnIsAccountedFor
  <2>1. CASE n \in turns
    BY <1>1, <2>1 DEF Ledger, TurnsKept, TurnIsAccountedFor
  <2>2. CASE n \notin turns
    BY <1>1, <2>2
  <2> QED
    BY <2>1, <2>2
<1>8. OpenIsHeld'
  BY <1>1 DEF Ledger, OpenIsHeld
<1> QED
  BY <1>2, <1>3, <1>4, <1>5, <1>6, <1>7, <1>8 DEF Ledger

\* An invocation is opened under the context, and becomes it.
LEMMA EnterStep ==
    ASSUME Inv, NEW t \in Tasks, Enter(t)
    PROVE  Inv'
<1>1. /\ Types /\ Ledger /\ Mine(t) /\ Stack(t) /\ task[t].pc = "run" /\ lock = None
      /\ task \in [Tasks -> TaskMemory] /\ rows \in Seq(RowRecord) /\ current \in [Tasks -> Nat]
  BY DEF Inv, Enter, At, Locked, Mine, Types
<1>0. PICK new \in Nat : new = Len(rows) + 1
  BY <1>1
<1> DEFINE x == Row(current[t], t)
           f == Bind(t, new)
           s == Append(task[t].frames, f)
           m == [task[t] EXCEPT !.frames = s]
<1>2. /\ rows' = Append(rows, x) /\ current' = [current EXCEPT ![t] = new]
      /\ task' = [task EXCEPT ![t] = m]
      /\ UNCHANGED <<calls, failures, events, files, payloads, lock, job, turns, faults>>
  BY <1>0 DEF Enter
<1>3. /\ task[t] \in TaskMemory /\ Len(task[t].frames) \in Nat
      /\ DOMAIN task[t].frames = 1 .. Len(task[t].frames)
      /\ current[t] \in {None} \cup DOMAIN rows /\ current[t] = Top(task[t])
      /\ task[t].frames \in Seq([row : Nat, saved : Nat])
  BY <1>1, Innermost DEF TaskMemory
<1>4. x \in RowRecord /\ x.parent = current[t] /\ x.outcome = "open" /\ x.origin = t
  <2>1. Depth(current[t]) \in Nat
    <3>1. CASE current[t] = None
      BY <3>1 DEF Depth
    <3>2. CASE current[t] # None
      <4>1. rows[current[t]] \in RowRecord
        BY <1>1, <1>3, <3>2
      <4> QED
        BY <3>2, <4>1 DEF Depth, RowRecord
    <3> QED
      BY <3>1, <3>2
  <2> QED
    BY <1>1, <2>1 DEF Row, RowRecord
<1> HIDE DEF x
<1>5. /\ rows' \in Seq(RowRecord) /\ Len(rows) \in Nat
      /\ DOMAIN rows = 1 .. Len(rows) /\ DOMAIN rows' = 1 .. new
      /\ rows'[new] = x
      /\ \A r \in DOMAIN rows : r \in DOMAIN rows' /\ rows'[r] = rows[r]
  BY <1>0, <1>1, <1>2, <1>4, RowAdded
<1>6. new \in Nat /\ new \in DOMAIN rows' /\ \A r \in DOMAIN rows : r < new
  BY <1>0, <1>5
<1>7. f.row = new /\ f.saved = current[t] /\ f \in [row : Nat, saved : Nat]
  BY <1>1, <1>6 DEF Bind
<1> HIDE DEF f
<1>8. /\ s \in Seq([row : Nat, saved : Nat]) /\ Len(s) = Len(task[t].frames) + 1
      /\ DOMAIN s = 1 .. Len(task[t].frames) + 1 /\ s[Len(task[t].frames) + 1] = f /\ s # <<>>
      /\ \A i \in DOMAIN task[t].frames : i \in DOMAIN s /\ s[i] = task[t].frames[i]
  <2> DEFINE S == [row : Nat, saved : Nat]
             a == task[t].frames
  <2>1. a \in Seq(S) /\ f \in S /\ s = Append(a, f)
    BY <1>3, <1>7
  <2> HIDE DEF S, a, s
  <2>2. /\ s \in Seq(S) /\ Len(s) = Len(a) + 1 /\ s # <<>>
        /\ DOMAIN s = 1 .. (Len(a) + 1) /\ s[Len(a) + 1] = f
        /\ \A i \in DOMAIN a : i \in DOMAIN s /\ s[i] = a[i]
    BY <2>1, OneMore
  <2> QED
    BY <2>2 DEF S, a
<1> HIDE DEF s
<1>9. /\ m \in TaskMemory /\ m.frames = s /\ m.home = task[t].home /\ m.bare = task[t].bare
      /\ m.pc = "run"
  BY <1>1, <1>3, <1>8 DEF TaskMemory
<1> HIDE DEF m
<1>10. /\ task' \in [Tasks -> TaskMemory] /\ task'[t] = m /\ Apart(t)
       /\ current' \in [Tasks -> Nat] /\ current'[t] = new
  BY <1>1, <1>2, <1>6, <1>9 DEF Apart
<1>11. Types' /\ Grows
  BY <1>1, <1>2, <1>5, <1>10 DEF Types, Grows
<1>12. \A u \in Tasks \ {t} : Mine(u)'
  BY <1>1, <1>5, <1>10, <1>11, OthersKeep DEF Inv
<1>13. Stack(t)'
  <2> DEFINE n == Len(task[t].frames)
  <2>1. Base(m) = Base(task[t]) /\ Top(m) = new
    BY <1>3, <1>7, <1>8, <1>9 DEF Base, Top
  <2>2. m.home \in {None} \cup DOMAIN rows'
    BY <1>1, <1>5, <1>9 DEF Stack
  <2>3. ASSUME NEW i \in DOMAIN s
        PROVE  /\ s[i].row \in DOMAIN rows' /\ rows'[s[i].row].origin = t
               /\ rows'[s[i].row].outcome = "open"
               /\ s[i].saved = IF i = 1 THEN Base(m) ELSE s[i - 1].row
    <3>1. CASE i \in DOMAIN task[t].frames
      <4>1. i # 1 => i - 1 \in DOMAIN task[t].frames
        BY <1>3, <3>1
      <4>2. s[i] = task[t].frames[i] /\ (i # 1 => s[i - 1] = task[t].frames[i - 1])
        BY <1>8, <3>1, <4>1
      <4>3. /\ s[i].row \in DOMAIN rows /\ rows[s[i].row].origin = t
            /\ rows[s[i].row].outcome = "open"
            /\ s[i].saved = IF i = 1 THEN Base(task[t]) ELSE task[t].frames[i - 1].row
        BY <1>1, <3>1, <4>2 DEF Stack
      <4> QED
        BY <1>5, <2>1, <4>2, <4>3
    <3>2. CASE i = n + 1
      <4>1. current[t] = IF n = 0 THEN Base(task[t]) ELSE task[t].frames[n].row
        BY <1>3 DEF Top
      <4>2. i # 1 => i - 1 \in DOMAIN task[t].frames /\ i - 1 = n /\ n # 0
        BY <1>3, <3>2
      <4>3. i = 1 => n = 0
        BY <1>3, <3>2
      <4>4. s[i] = f
        BY <1>8, <3>2
      <4>5. s[i].saved = IF i = 1 THEN Base(m) ELSE s[i - 1].row
        BY <1>7, <1>8, <2>1, <4>1, <4>2, <4>3, <4>4
      <4> QED
        BY <1>4, <1>5, <1>6, <1>7, <4>4, <4>5
    <3>3. i \in DOMAIN task[t].frames \/ i = n + 1
      BY <1>3, <1>8
    <3> QED
      BY <3>1, <3>2, <3>3
  <2>4. ASSUME NEW i \in DOMAIN s, NEW k \in DOMAIN s, i < k
        PROVE  s[i].row < s[k].row
    <3>1. i \in DOMAIN task[t].frames
      BY <1>3, <1>8, <2>4
    <3>2. CASE k \in DOMAIN task[t].frames
      BY <1>1, <1>8, <2>4, <3>1, <3>2 DEF Stack
    <3>3. CASE k = n + 1
      BY <1>1, <1>6, <1>7, <1>8, <3>1, <3>3 DEF Stack
    <3>4. k \in DOMAIN task[t].frames \/ k = n + 1
      BY <1>3, <1>8
    <3> QED
      BY <3>2, <3>3, <3>4
  <2> QED
    BY <1>9, <1>10, <2>1, <2>2, <2>3, <2>4 DEF Stack
<1>14. Turn(t)' /\ Taking(t)'
  BY <1>9, <1>10 DEF Turn, Taking, InTurn
<1>15. \A r \in DOMAIN rows : Held(r) => Held(r)'
  <2> SUFFICES ASSUME NEW r \in DOMAIN rows, Held(r) PROVE Held(r)'
    OBVIOUS
  <2>1. CASE \E u \in Tasks : \E i \in DOMAIN task[u].frames : task[u].frames[i].row = r
    <3>1. PICK u \in Tasks : \E i \in DOMAIN task[u].frames : task[u].frames[i].row = r
      BY <2>1
    <3>2. \E i \in DOMAIN task'[u].frames : task'[u].frames[i].row = r
      BY <1>8, <1>9, <1>10, <3>1 DEF Apart
    <3> QED
      BY <3>2 DEF Held
  <2>2. CASE \E u \in Tasks : task[u].pc = "ingestClose" /\ Last(task[u].resolved) = r
    BY <1>1, <1>10, <2>2 DEF Held, Apart
  <2> QED
    BY <2>1, <2>2 DEF Held
<1>16. Held(new)'
  <2>1. task'[t].frames[Len(task[t].frames) + 1].row = new
        /\ Len(task[t].frames) + 1 \in DOMAIN task'[t].frames
    BY <1>3, <1>7, <1>8, <1>9, <1>10
  <2> QED
    BY <2>1 DEF Held
<1>17. LastIsOpen'
  <2> SUFFICES ASSUME NEW u \in Tasks, task'[u].pc = "ingestClose"
               PROVE  rows'[Last(task'[u].resolved)].outcome = "open"
    BY DEF LastIsOpen
  <2>1. u # t /\ task'[u] = task[u] /\ task[u].pc = "ingestClose"
    BY <1>9, <1>10 DEF Apart
  <2>2. lock = u
    BY <2>1 DEF Inv, Mine, Taking
  <2> QED
    BY <1>1, <2>2, RecorderConstants
<1>18. Ledger'
  <2>1. \A j \in Jobs : x.origin # j
    BY <1>4, RecorderConstants
  <2> QED
    BY <1>0, <1>1, <1>2, <1>3, <1>4, <1>15, <1>16, <1>17, <2>1, AddedLedger
<1> QED
  BY <1>11, <1>12, <1>13, <1>14, <1>18 DEF Inv, Mine

\* While the lock is free, or a task's own, no other is taking a report.
LEMMA NobodyTakes ==
    ASSUME Inv, NEW t \in Tasks, lock \in {None, t}
    PROVE  \A u \in Tasks \ {t} : task[u].pc # "ingestClose"
BY RecorderConstants DEF Inv, Mine, Taking

\* A task leaves its innermost block: its context is what it was before.
LEMMA Leaves ==
    ASSUME Types, NEW t \in Tasks, Mine(t), task[t].frames # <<>>, task[t].pc # "ingestClose",
           NEW pc \in {"run", "failing"}, Leave(t, pc),
           \A r \in DOMAIN rows :
              /\ r \in DOMAIN rows' /\ rows'[r].origin = rows[r].origin
              /\ rows'[r].outcome = rows[r].outcome \/ r = Frame(t).row
    PROVE  /\ task' \in [Tasks -> TaskMemory] /\ current' \in [Tasks -> Nat] /\ Apart(t)
           /\ task'[t].pc = pc /\ Mine(t)'
           /\ \A r \in DOMAIN rows : r # Frame(t).row /\ Held(r) => Held(r)'
<1> DEFINE a == task[t].frames
           b == Front(a)
           n == Len(a)
           m == [task[t] EXCEPT !.frames = b, !.pc = pc, !.call = None, !.cut = FALSE]
           back == Frame(t).saved
           S == [row : Nat, saved : Nat]
<1>1. /\ task \in [Tasks -> TaskMemory] /\ current \in [Tasks -> Nat] /\ Stack(t)
  BY DEF Types, Mine
<1>2. /\ task[t] \in TaskMemory
      /\ n \in DOMAIN a /\ Frame(t) = a[n]
  BY Innermost
<1>3. a \in Seq(S)
  BY <1>2 DEF TaskMemory
<1>4. /\ b \in Seq(S) /\ n \in Nat \ {0} /\ DOMAIN b = 1 .. (n - 1)
      /\ Len(b) = n - 1 /\ (b = <<>> <=> n = 1)
      /\ \A i \in DOMAIN b : i \in DOMAIN a /\ i # n /\ b[i] = a[i]
      /\ \A i \in DOMAIN a : i # n => i \in DOMAIN b
  <2> HIDE DEF a, b, S
  <2>1. Front(a) \in Seq(S) /\ b = Front(a) /\ a # <<>>
    BY <1>3, OneFewer DEF a, b
  <2> QED
    BY <1>3, <2>1, OneFewer
<1>5. task' = [task EXCEPT ![t] = m] /\ current' = [current EXCEPT ![t] = back]
  BY <1>1 DEF Leave
<1>6. back \in Nat
  <2>1. a[n] \in S
    <3> HIDE DEF a, n, S
    <3> QED
      BY <1>2, <1>3
  <2> QED
    BY <1>2, <2>1
<1> HIDE DEF b, back
<1>7. /\ m \in TaskMemory /\ m.frames = b /\ m.pc = pc /\ m.home = task[t].home
      /\ m.bare = task[t].bare
  BY <1>2, <1>4 DEF TaskMemory, None
<1> HIDE DEF m
<1>8. /\ task' \in [Tasks -> TaskMemory] /\ task'[t] = m /\ current' \in [Tasks -> Nat]
      /\ current'[t] = back /\ Apart(t)
  BY <1>1, <1>5, <1>6, <1>7 DEF Apart
<1>9. \A i, j \in DOMAIN a : i < j => a[i].row < a[j].row
  BY <1>1 DEF Stack
<1>10. \A i \in DOMAIN a :
         /\ a[i].row \in DOMAIN rows /\ a[i].row \in Nat
         /\ rows[a[i].row].origin = t /\ rows[a[i].row].outcome = "open"
         /\ a[i].saved = IF i = 1 THEN Base(task[t]) ELSE a[i - 1].row
  BY <1>1 DEF Stack, Types
<1>11. \A i \in DOMAIN b : a[i].row # Frame(t).row
  <2> SUFFICES ASSUME NEW i \in DOMAIN b PROVE a[i].row # a[n].row
    BY <1>2
  <2>1. i \in DOMAIN a /\ i < n
    BY <1>4
  <2> HIDE DEF a, n
  <2>2. a[i].row < a[n].row /\ a[i].row \in Nat /\ a[n].row \in Nat
    BY <1>2, <1>9, <1>10, <2>1
  <2> QED
    BY <2>2
<1>12. Base(m) = Base(task[t])
  BY <1>7 DEF Base
<1>13. back = IF n = 1 THEN Base(task[t]) ELSE a[n - 1].row
  BY <1>2, <1>10 DEF back
<1> HIDE DEF a, n
<1>14. back = Top(m)
  <2>1. CASE n = 1
    BY <1>4, <1>7, <1>12, <1>13, <2>1 DEF Top
  <2>2. CASE n # 1
    <3>1. n - 1 \in DOMAIN b /\ b # <<>> /\ Len(b) = n - 1
      BY <1>4, <2>2
    <3>2. b[n - 1] = a[n - 1]
      BY <1>4, <3>1
    <3> QED
      BY <1>7, <1>13, <2>2, <3>1, <3>2 DEF Top
  <2> QED
    BY <2>1, <2>2
<1>15. Stack(t)'
  <2>1. ASSUME NEW i \in DOMAIN b
        PROVE  /\ b[i].row \in DOMAIN rows' /\ rows'[b[i].row].origin = t
               /\ rows'[b[i].row].outcome = "open"
               /\ b[i].saved = IF i = 1 THEN Base(m) ELSE b[i - 1].row
    <3>1. i \in DOMAIN a /\ b[i] = a[i] /\ (i # 1 => b[i - 1] = a[i - 1])
      BY <1>4
    <3> QED
      BY <1>10, <1>11, <1>12, <3>1
  <2>2. \A i, j \in DOMAIN b : i < j => b[i].row < b[j].row
    BY <1>4, <1>9
  <2>3. m.home \in {None} \cup DOMAIN rows'
    BY <1>1, <1>7 DEF Stack
  <2> QED
    BY <1>7, <1>8, <1>14, <2>1, <2>2, <2>3 DEF Stack
<1>16. Turn(t)' /\ Taking(t)'
  BY <1>7, <1>8 DEF Turn, Taking, InTurn
<1>17. ASSUME NEW r \in DOMAIN rows, r # Frame(t).row, Held(r) PROVE Held(r)'
  <2>1. CASE \E u \in Tasks : \E i \in DOMAIN task[u].frames : task[u].frames[i].row = r
    <3>1. PICK u \in Tasks : \E i \in DOMAIN task[u].frames : task[u].frames[i].row = r
      BY <2>1
    <3>2. PICK i \in DOMAIN task[u].frames : task[u].frames[i].row = r
      BY <3>1
    <3>3. CASE u = t
      <4>1. i \in DOMAIN a /\ a[i].row = r
        BY <3>2, <3>3 DEF a
      <4>2. i # n
        BY <1>2, <1>17, <4>1
      <4>3. i \in DOMAIN b /\ b[i] = a[i]
        BY <1>4, <4>1, <4>2
      <4>4. task'[t].frames[i].row = r /\ i \in DOMAIN task'[t].frames
        BY <1>7, <1>8, <4>1, <4>3
      <4> QED
        BY <4>4 DEF Held
    <3>4. CASE u # t
      BY <1>8, <3>2, <3>4 DEF Held, Apart
    <3> QED
      BY <3>3, <3>4
  <2>2. CASE \E u \in Tasks : task[u].pc = "ingestClose" /\ Last(task[u].resolved) = r
    BY <1>8, <2>2 DEF Held, Apart
  <2> QED
    BY <1>17, <2>1, <2>2 DEF Held
<1> QED
  BY <1>7, <1>8, <1>15, <1>16, <1>17 DEF Mine

\* A block is left, and its row closed: a success, or a failure written before.
LEMMA ClosesStep ==
    ASSUME Inv, NEW t \in Tasks, Exit(t) \/ CloseFailed(t)
    PROVE  Inv'
<1>1. /\ Types /\ Ledger /\ Mine(t) /\ Turn(t)
      /\ task[t].pc \in {"run", "done", "closing"} /\ task[t].frames # <<>>
      /\ rows \in Seq(RowRecord) /\ lock \in {None, t}
  BY DEF Inv, Exit, CloseFailed, At, Mine, Turn, Types, Locked
<1> DEFINE q == Frame(t).row
<1>2. /\ q \in DOMAIN rows /\ q = Top(task[t]) /\ rows[q].origin = t /\ rows[q].outcome = "open"
  BY <1>1, Innermost
<1>3. PICK o \in {"success", "failed"} : rows' = Closed(q, o) /\ (o = "failed" => q \in failures)
         /\ (o = "failed" <=> task[t].pc = "closing")
  BY <1>1, <1>2 DEF Exit, CloseFailed, At, Turn
<1>4. PICK pc \in {"run", "failing"} : Leave(t, pc)
  BY DEF Exit, CloseFailed
<1>5. /\ UNCHANGED <<calls, failures, events, files, payloads, job, faults>>
      /\ lock' = None
      /\ \A n \in turns' : n \in turns \/
            (n.row = q /\ n.call = task[t].call /\ task[t].pc = "done")
  BY <1>1 DEF Exit, CloseFailed, Locked, At
<1> HIDE DEF q
<1>6. /\ rows' \in Seq(RowRecord) /\ DOMAIN rows' = DOMAIN rows
      /\ \A r \in DOMAIN rows : r # q => rows'[r] = rows[r]
      /\ \A r \in DOMAIN rows : rows'[r].origin = rows[r].origin /\ rows'[r].parent = rows[r].parent
  BY <1>1, <1>2, <1>3, RowClosed
<1>7. /\ task' \in [Tasks -> TaskMemory] /\ current' \in [Tasks -> Nat] /\ Apart(t)
      /\ task'[t].pc = pc /\ Mine(t)'
      /\ \A r \in DOMAIN rows : r # q /\ Held(r) => Held(r)'
  BY <1>1, <1>4, <1>6, Leaves DEF q
<1>8. Types' /\ Grows
  BY <1>1, <1>5, <1>6, <1>7 DEF Types, Grows
<1>9. \A u \in Tasks \ {t} : Mine(u)'
  BY <1>1, <1>2, <1>6, <1>7, <1>8, OthersKeep DEF Inv
<1>10. LastIsOpen'
  BY <1>1, <1>7, NobodyTakes DEF LastIsOpen, Apart
<1>11. ASSUME NEW n \in turns'
       PROVE  n \in turns \/
                /\ n.row = q /\ o = "success" /\ n.call \in DOMAIN calls
                /\ calls[n.call].row = q /\ ~ calls[n.call].cut
                /\ n.call \in payloads \/ q \in failures
  BY <1>1, <1>2, <1>3, <1>5 DEF Turn, InTurn
<1>12. Ledger'
  BY <1>1, <1>2, <1>3, <1>5, <1>7, <1>10, <1>11, ClosedLedger
<1> QED
  BY <1>7, <1>8, <1>9, <1>12 DEF Inv

\* A statement that is refused leaves the row open, and says so by its fault.
LEMMA CloseRefusedStep ==
    ASSUME Inv, NEW t \in Tasks, CloseRefused(t)
    PROVE  Inv'
<1>1. /\ Types /\ Ledger /\ Mine(t) /\ Turn(t)
      /\ task[t].pc \in {"run", "done", "failing", "closing"} /\ task[t].frames # <<>>
      /\ lock \in {None, t}
  BY DEF Inv, CloseRefused, At, Mine, Turn, Locked
<1>2. /\ Leave(t, "failing") /\ UNCHANGED <<store, job, turns>> /\ lock' = None
      /\ faults' \in 0 .. MaxFaults /\ faults' # 0
  BY <1>1, RecorderConstants DEF CloseRefused, Fault, Types
<1>3. /\ task' \in [Tasks -> TaskMemory] /\ current' \in [Tasks -> Nat] /\ Apart(t)
      /\ task'[t].pc = "failing" /\ Mine(t)'
  BY <1>1, <1>2, Leaves DEF store
<1>4. Types' /\ Grows
  BY <1>1, <1>2, <1>3 DEF Types, Grows, store
<1>5. \A u \in Tasks \ {t} : Mine(u)'
  BY <1>1, <1>2, <1>3, <1>4, OthersKeep DEF Inv, store
<1>6. CallsNameRows' /\ PayloadIsThere'
  BY <1>1, <1>2, CallsStay DEF store
<1>7. failures' \subseteq DOMAIN rows /\ events' \subseteq DOMAIN rows
  BY <1>1, <1>2 DEF Ledger, NamesAreThere, store
<1>8. \A u \in Tasks : task'[u].pc = "ingestClose" =>
         task[u].pc = "ingestClose" /\ task'[u].resolved = task[u].resolved
  BY <1>3 DEF Apart
<1>9. Ledger'
  BY <1>1, <1>2, <1>4, <1>6, <1>7, <1>8, QuietLedger DEF store
<1> QED
  BY <1>3, <1>4, <1>5, <1>9 DEF Inv

\* A reported invocation is recorded under its parent, a row already there.
LEMMA IngestRowStep ==
    ASSUME Inv, NEW t \in Tasks, IngestRow(t)
    PROVE  Inv'
<1>1. /\ Types /\ Ledger /\ Mine(t) /\ Stack(t) /\ task[t].pc = "ingest"
      /\ task \in [Tasks -> TaskMemory] /\ rows \in Seq(RowRecord)
  BY DEF Inv, IngestRow, At, Mine, Types
<1>2. /\ lock = t /\ task[t] \in TaskMemory /\ task[t].batch.job \in Jobs
      /\ Report(t).parents \in Seq(Nat)
      /\ job[task[t].batch.job].state = "ingesting"
      /\ TopParent(t) \in DOMAIN rows
      /\ task[t].resolved \in Seq(Nat)
      /\ \A k \in DOMAIN task[t].resolved :
            /\ task[t].resolved[k] \in DOMAIN rows
            /\ rows[task[t].resolved[k]].origin = task[t].batch.job
      /\ \A u \in Tasks \ {t} : task[u].pc # "ingestClose" /\ task[u].pc # "ingest"
  BY <1>1, Taken
<1>0. PICK new \in Nat : new = Len(rows) + 1
  BY <1>1
<1> DEFINE j == task[t].batch.job
           parent == ParentRow(t)
           x == Row(parent, j)
           s == Append(task[t].resolved, new)
           m == [task[t] EXCEPT !.resolved = s, !.pc = "ingestClose"]
<1>3. /\ rows' = Append(rows, x) /\ task' = [task EXCEPT ![t] = m]
      /\ UNCHANGED <<calls, failures, events, files, payloads, current, lock, job, turns, faults>>
  BY <1>0, <1>1 DEF IngestRow
<1>4. /\ parent \in DOMAIN rows
      /\ parent = job[j].dispatcher \/ rows[parent].origin = j
  <2>1. CASE ParentListed(t) = None
    BY <1>2, <2>1 DEF ParentRow, TopParent
  <2>2. CASE ParentListed(t) # None
    <3>1. Resolvable(t) /\ NextListed(t) <= Len(Report(t).parents)
      BY DEF IngestRow
    <3>2. NextListed(t) \in DOMAIN Report(t).parents
      BY <1>2, <3>1 DEF NextListed
    <3>3. ParentListed(t) \in Nat
      BY <1>2, <3>2 DEF ParentListed
    <3>4. ParentListed(t) \in DOMAIN task[t].resolved
      BY <1>2, <2>2, <3>1, <3>3 DEF Resolvable, NextListed, None
    <3> QED
      BY <1>2, <2>2, <3>4 DEF ParentRow
  <2> QED
    BY <2>1, <2>2
<1> HIDE DEF parent
<1>5. parent # None /\ parent \in Nat
  BY <1>1, <1>4 DEF None
<1>6. x \in RowRecord /\ x.parent = parent /\ x.outcome = "open" /\ x.origin = j
  <2>1. rows[parent] \in RowRecord
    BY <1>1, <1>4
  <2>2. Depth(parent) \in Nat
    BY <1>5, <2>1 DEF Depth, RowRecord
  <2> QED
    BY <1>2, <1>5, <2>2 DEF Row, RowRecord
<1> HIDE DEF x
<1>7. /\ rows' \in Seq(RowRecord)
      /\ DOMAIN rows = 1 .. Len(rows) /\ DOMAIN rows' = 1 .. new
      /\ rows'[new] = x /\ new \in DOMAIN rows'
      /\ \A r \in DOMAIN rows : r \in DOMAIN rows' /\ rows'[r] = rows[r]
  <2>1. /\ rows' \in Seq(RowRecord) /\ Len(rows) \in Nat
        /\ DOMAIN rows = 1 .. Len(rows) /\ DOMAIN rows' = 1 .. (Len(rows) + 1)
        /\ rows'[Len(rows) + 1] = x
        /\ \A r \in DOMAIN rows : r \in DOMAIN rows' /\ rows'[r] = rows[r]
    BY <1>1, <1>3, <1>6, RowAdded
  <2> QED
    BY <1>0, <2>1
<1>8. /\ s \in Seq(Nat) /\ s # <<>> /\ Len(s) \in Nat /\ s[Len(s)] = new
      /\ \A k \in DOMAIN s :
            (k \in DOMAIN task[t].resolved /\ s[k] = task[t].resolved[k]) \/ s[k] = new
  <2> DEFINE a == task[t].resolved
  <2>1. a \in Seq(Nat) /\ s = Append(a, new)
    BY <1>2
  <2> HIDE DEF a, s
  <2>2. /\ s \in Seq(Nat) /\ s # <<>> /\ Len(s) = Len(a) + 1 /\ DOMAIN s = 1 .. (Len(a) + 1)
        /\ s[Len(a) + 1] = new /\ \A k \in DOMAIN a : k \in DOMAIN s /\ s[k] = a[k]
    BY <2>1, OneMore
  <2>3. Len(a) \in Nat /\ DOMAIN a = 1 .. Len(a)
    BY <2>1
  <2> QED
    BY <2>2, <2>3 DEF a
<1>9. Last(s) = new
  BY <1>8 DEF Last
<1> HIDE DEF s
<1>10. /\ m \in TaskMemory /\ m.frames = task[t].frames /\ m.home = task[t].home
       /\ m.bare = task[t].bare /\ m.pc = "ingestClose" /\ m.resolved = s
       /\ m.batch = task[t].batch
  BY <1>2, <1>8 DEF TaskMemory
<1> HIDE DEF m
<1>11. task' \in [Tasks -> TaskMemory] /\ task'[t] = m /\ Apart(t)
  BY <1>1, <1>3, <1>10 DEF Apart
<1>12. Types' /\ Grows
  BY <1>1, <1>3, <1>7, <1>11 DEF Types, Grows
<1>13. \A u \in Tasks \ {t} : Mine(u)'
  BY <1>1, <1>2, <1>7, <1>11, <1>12, OthersKeep DEF Inv
<1>14. Stack(t)'
  BY <1>1, <1>3, <1>7, <1>10, <1>11, <1>12, StackKept
<1>15. Turn(t)'
  BY <1>10, <1>11 DEF Turn, InTurn
<1>16. Taking(t)'
  <2>1. \A k \in DOMAIN s : s[k] \in DOMAIN rows' /\ rows'[s[k]].origin = j
    BY <1>2, <1>6, <1>7, <1>8
  <2>2. task[t].batch \in [job : Jobs, report : Batches]
    BY <1>1 DEF Mine, Taking
  <2> QED
    BY <1>2, <1>3, <1>8, <1>10, <1>11, <2>1, <2>2 DEF Taking
<1>17. \A r \in DOMAIN rows : Held(r) => Held(r)'
  <2> SUFFICES ASSUME NEW r \in DOMAIN rows, Held(r) PROVE Held(r)'
    OBVIOUS
  <2>1. \A u \in Tasks : task[u].pc # "ingestClose"
    BY <1>1, <1>2
  <2>2. \A u \in Tasks : task'[u].frames = task[u].frames
    BY <1>10, <1>11 DEF Apart
  <2> QED
    BY <2>1, <2>2 DEF Held
<1>18. Held(new)'
  BY <1>9, <1>10, <1>11 DEF Held
<1>19. LastIsOpen'
  <2> SUFFICES ASSUME NEW u \in Tasks, task'[u].pc = "ingestClose"
               PROVE  rows'[Last(task'[u].resolved)].outcome = "open"
    BY DEF LastIsOpen
  <2>1. u = t
    BY <1>2, <1>11 DEF Apart
  <2> QED
    BY <1>6, <1>7, <1>9, <1>10, <1>11, <2>1
<1>20. Ledger'
  <2>1. /\ x.parent \in {None} \cup DOMAIN rows
        /\ \A k \in Jobs : x.origin = k =>
              /\ job[k].state # "unsent" /\ x.parent # None
              /\ x.parent = job[k].dispatcher \/ rows[x.parent].origin = k
    BY <1>2, <1>4, <1>5, <1>6
  <2> QED
    BY <1>0, <1>1, <1>3, <1>6, <1>17, <1>18, <1>19, <2>1, AddedLedger
<1> QED
  BY <1>12, <1>13, <1>14, <1>15, <1>16, <1>20 DEF Inv, Mine

\* It is closed at once, under the same lock.
LEMMA IngestCloseStep ==
    ASSUME Inv, NEW t \in Tasks, IngestClose(t)
    PROVE  Inv'
<1>1. /\ Types /\ Ledger /\ Mine(t) /\ Stack(t) /\ task[t].pc = "ingestClose"
      /\ rows \in Seq(RowRecord)
  BY DEF Inv, IngestClose, At, Mine, Types
<1>2. /\ lock = t /\ task[t].batch.job \in Jobs
      /\ task[t].resolved \in Seq(Nat)
      /\ \A k \in DOMAIN task[t].resolved :
            /\ task[t].resolved[k] \in DOMAIN rows
            /\ rows[task[t].resolved[k]].origin = task[t].batch.job
      /\ \A u \in Tasks \ {t} : task[u].pc # "ingestClose" /\ task[u].pc # "ingest"
  BY <1>1, Taken
<1> DEFINE q == Last(task[t].resolved)
<1>3. /\ rows' = Closed(q, "success") /\ Goes(t, "ingest")
      /\ UNCHANGED <<calls, failures, events, files, payloads, current, lock, job, turns, faults>>
  BY DEF IngestClose
<1>4. task[t].resolved # <<>>
  BY <1>1 DEF Mine, Taking
<1>5. q \in DOMAIN rows /\ rows[q].origin \in Jobs
  <2>1. Len(task[t].resolved) \in DOMAIN task[t].resolved
    BY <1>2, <1>4
  <2> QED
    BY <1>2, <2>1 DEF Last
<1>6. rows[q].outcome = "open"
  BY <1>1 DEF Ledger, LastIsOpen
<1> HIDE DEF q
<1>7. /\ rows' \in Seq(RowRecord) /\ DOMAIN rows' = DOMAIN rows
      /\ \A r \in DOMAIN rows : r # q => rows'[r] = rows[r]
      /\ \A r \in DOMAIN rows : rows'[r].origin = rows[r].origin /\ rows'[r].parent = rows[r].parent
  BY <1>1, <1>3, <1>5, RowClosed
<1>8. /\ task' \in [Tasks -> TaskMemory] /\ task'[t].pc = "ingest"
      /\ task'[t].frames = task[t].frames /\ task'[t].home = task[t].home
      /\ task'[t].bare = task[t].bare /\ task'[t].batch = task[t].batch
      /\ task'[t].resolved = task[t].resolved
      /\ \A u \in Tasks \ {t} : task'[u] = task[u]
  BY <1>1, <1>3, GoesOn DEF Pcs
<1>9. Types' /\ Grows /\ Apart(t)
  BY <1>1, <1>3, <1>7, <1>8 DEF Types, Grows, Apart
<1>10. \A u \in Tasks \ {t} : Mine(u)'
  BY <1>1, <1>2, <1>5, <1>7, <1>9, OthersKeep DEF Inv
<1>11. Stack(t)'
  <2>1. \A r \in DOMAIN rows : rows[r].origin = t => rows'[r].outcome = rows[r].outcome
    BY <1>5, <1>7, RecorderConstants
  <2> QED
    BY <1>1, <1>3, <1>8, <1>9, <2>1, StackKept
<1>12. Turn(t)'
  BY <1>8 DEF Turn, InTurn
<1>13. Taking(t)'
  <2>1. task[t].batch \in [job : Jobs, report : Batches] /\ job[task[t].batch.job].state = "ingesting"
    BY <1>1 DEF Mine, Taking
  <2>2. \A k \in DOMAIN task[t].resolved :
           /\ task[t].resolved[k] \in DOMAIN rows'
           /\ rows'[task[t].resolved[k]].origin = task[t].batch.job
    BY <1>2, <1>7
  <2> QED
    BY <1>2, <1>3, <1>8, <2>1, <2>2 DEF Taking
<1>14. ASSUME NEW r \in DOMAIN rows, r # q, Held(r) PROVE Held(r)'
  <2>1. ~ \E u \in Tasks : task[u].pc = "ingestClose" /\ Last(task[u].resolved) = r
    BY <1>2, <1>14 DEF q
  <2>2. \A u \in Tasks : task'[u].frames = task[u].frames
    BY <1>8
  <2> QED
    BY <1>14, <2>1, <2>2 DEF Held
<1>15. LastIsOpen'
  BY <1>2, <1>8 DEF LastIsOpen
<1>16. Ledger'
  BY <1>1, <1>3, <1>5, <1>6, <1>14, <1>15, ClosedLedger
<1> QED
  BY <1>9, <1>10, <1>11, <1>12, <1>13, <1>16 DEF Inv, Mine

\* A kill empties memories, and says so by its fault.
LEMMA KillStep ==
    ASSUME Inv, Kill
    PROVE  Inv'
<1>1. Types /\ Ledger
  BY DEF Inv
<1> DEFINE m == [Unborn EXCEPT !.pc = "over"]
<1>2. /\ task' = [t \in Tasks |-> m] /\ current' = [t \in Tasks |-> None] /\ lock' = None
      /\ UNCHANGED <<store, job, turns>> /\ faults' \in 0 .. MaxFaults /\ faults' # 0
  BY <1>1, RecorderConstants DEF Kill, Fault, Types
<1>3. Unborn \in TaskMemory /\ Unborn.frames = <<>> /\ Unborn.home = None
  <2>1. <<>> \in Seq([row : Nat, saved : Nat]) /\ <<>> \in Seq(Nat)
        /\ <<>> \in {<<>>} \cup [job : Jobs, report : Batches]
    OBVIOUS
  <2> QED
    BY <2>1 DEF Unborn, TaskMemory, None
<1>4. m \in TaskMemory /\ m.pc = "over" /\ m.frames = <<>> /\ m.home = None
  BY <1>3 DEF TaskMemory
<1> HIDE DEF m
<1>5. Types'
  BY <1>1, <1>2, <1>4 DEF Types, store, None
<1>6. Grows
  BY <1>2 DEF Grows, store
<1>7. \A t \in Tasks : Mine(t)'
  BY <1>2, <1>4 DEF Mine, Stack, Turn, Taking, Top, Base, InTurn
<1>8. CallsNameRows' /\ PayloadIsThere'
  BY <1>1, <1>2, CallsStay DEF store
<1>9. failures' \subseteq DOMAIN rows /\ events' \subseteq DOMAIN rows
  BY <1>1, <1>2 DEF Ledger, NamesAreThere, store
<1>10. \A u \in Tasks : task'[u].pc # "ingestClose"
  BY <1>2, <1>4
<1>11. Ledger'
  BY <1>1, <1>2, <1>6, <1>8, <1>9, <1>10, QuietLedger DEF store
<1> QED
  BY <1>5, <1>7, <1>11 DEF Inv

LEMMA RecorderInit == Init => Inv
<1> SUFFICES ASSUME Init PROVE Inv
  OBVIOUS
<1>1. Unborn \in TaskMemory /\ Unborn.frames = <<>> /\ Unborn.home = None /\ Unborn.pc = "unborn"
  <2>1. <<>> \in Seq([row : Nat, saved : Nat]) /\ <<>> \in Seq(Nat)
        /\ <<>> \in {<<>>} \cup [job : Jobs, report : Batches]
    OBVIOUS
  <2> QED
    BY <2>1 DEF Unborn, TaskMemory, None
<1> DEFINE m == [Unborn EXCEPT !.pc = "run"]
<1>2. m \in TaskMemory /\ m.pc = "run" /\ m.frames = <<>> /\ m.home = None
  BY <1>1 DEF TaskMemory
<1>3. \A t \in Tasks : task[t] \in {m, Unborn} /\ current[t] = None
  BY DEF Init
<1> HIDE DEF m
<1>4. task \in [Tasks -> TaskMemory]
  BY <1>1, <1>2 DEF Init, m
<1>5. \A j \in Jobs : job[j].state = "unsent" /\ job[j] \in JobRecord
  BY DEF Init, JobRecord, None
<1>6. Types
  <2>1. <<>> \in Seq(RowRecord) /\ <<>> \in Seq(CallRecord)
    OBVIOUS
  <2>2. 0 \in 0 .. MaxFaults
    BY RecorderConstants
  <2> QED
    BY <1>4, <1>5, <2>1, <2>2 DEF Init, Types, None
<1>7. \A t \in Tasks : task[t].pc \in {"run", "unborn"} /\ task[t].frames = <<>> /\ task[t].home = None
  BY <1>1, <1>2, <1>3
<1>8. \A t \in Tasks : Mine(t)
  BY <1>3, <1>7 DEF Mine, Stack, Turn, Taking, Top, Base, InTurn
<1>9. Ledger
  <2>1. \A t \in Tasks : task[t].pc # "ingestClose"
    BY <1>7
  <2> QED
    BY <1>5, <2>1 DEF Init, Ledger, RowsNameRows, JobsHaveDispatchers, RowsOfJobs, CallsNameRows,
       NamesAreThere, PayloadIsThere, TurnsKept, TurnIsAccountedFor, OpenIsHeld, LastIsOpen
<1> QED
  BY <1>6, <1>8, <1>9 DEF Inv

LEMMA RecorderStep == Inv /\ [Next]_vars => Inv'
<1> SUFFICES ASSUME Inv, [Next]_vars PROVE Inv'
  OBVIOUS
<1>1. CASE UNCHANGED vars
  <2>1. Types'
    BY <1>1 DEF vars, Inv, Types
  <2>2. ASSUME NEW t \in Tasks PROVE Mine(t)'
    <3>1. Stack(t)' /\ Turn(t)'
      BY <1>1 DEF vars, Inv, Mine, Stack, Turn, Top, Base
    <3>2. Taking(t)'
      BY <1>1 DEF vars, Inv, Mine, Taking
    <3> QED
      BY <3>1, <3>2 DEF Mine
  <2>3. Ledger'
    BY <1>1, QuietLedger DEF vars, Inv, Grows, Ledger, NamesAreThere, CallsNameRows, PayloadIsThere
  <2> QED
    BY <2>1, <2>2, <2>3 DEF Inv
<1>2. ASSUME NEW t \in Tasks, Step(t) PROVE Inv'
  BY <1>2, ClosesStep, RecordsTroubleStep, MovesStep, RecordCallStep, KeepsPayloadStep,
     IngestRowStep, IngestCloseStep, EndIngestStep DEF Step
<1>3. ASSUME NEW t \in Tasks,
             \/ Enter(t) \/ Raise(t) \/ Answer(t) \/ BackendFails(t)
             \/ CloseRefused(t) \/ WriteFails(t) \/ StatementRefused(t) \/ IngestRefused(t)
      PROVE  Inv'
  BY <1>3, EnterStep, MovesStep, AnswerStep, RecordsTroubleStep, CloseRefusedStep,
     IngestRefusedStep
<1>4. ASSUME NEW t \in Tasks, NEW u \in Others, NEW bare \in BOOLEAN, Spawn(t, u, bare)
      PROVE  Inv'
  BY <1>4, SpawnStep
<1>5. ASSUME NEW t \in Tasks, NEW j \in Jobs,
             Dispatch(t, j) \/ BeginIngest(t, j) \/ RefuseUnknown(t, j)
      PROVE  Inv'
  BY <1>5, DispatchStep, BeginIngestStep, MovesStep
<1>6. Ended => UNCHANGED vars
  BY DEF Ended
<1> QED
  BY <1>1, <1>2, <1>3, <1>4, <1>5, <1>6, KillStep DEF Next

-----------------------------------------------------------------------------
(* The theorems.                                                           *)

\* Whatever nests, fails, is started, reported, refused and killed, the tables
\* and every task's memory hold values of their types, and what a row names was
\* there before it (telemetry/recorder.py).
THEOREM RecorderTypes == Spec => []TypeOK
<1>1. Spec => []Inv
  BY RecorderInit, RecorderStep, PTL DEF Spec
<1>2. Inv => TypeOK
  <2> SUFFICES ASSUME Inv PROVE TypeOK
    OBVIOUS
  <2>1. current \in [Tasks -> {None} \cup DOMAIN rows]
    <3>1. \A t \in Tasks : current[t] \in {None} \cup DOMAIN rows
      BY Innermost DEF Inv
    <3> QED
      BY <3>1 DEF Inv, Types
  <2> QED
    BY <2>1 DEF Inv, Types, Ledger, RowsNameRows, CallsNameRows, NamesAreThere, PayloadIsThere,
       TypeOK
<1> QED
  BY <1>1, <1>2, PTL

\* What is recorded is filed under the invocation whose code made it, in however
\* many tasks and however they nest, and what was done elsewhere hangs under the
\* invocation that dispatched it (telemetry/context.py; `ingest_external`).
THEOREM RecordedUnderItsCaller == Spec => []FiledUnderItsCaller
<1>1. Spec => []Inv
  BY RecorderInit, RecorderStep, PTL DEF Spec
<1>2. Inv => FiledUnderItsCaller
  <2> SUFFICES ASSUME Inv PROVE FiledUnderItsCaller
    OBVIOUS
  <2>1. ASSUME NEW t \in Tasks, ~ task[t].bare PROVE current[t] = Enclosing(t)
    <3>1. current[t] = Top(task[t]) /\ (task[t].frames # <<>> => Frame(t).row = Top(task[t]))
      BY Innermost DEF Inv
    <3> QED
      BY <2>1, <3>1 DEF Enclosing, Top, Base
  <2>2. FiledHere
    BY <2>1 DEF FiledHere, Inv, Ledger, CallsNameRows
  <2>3. ReportsHangUnderTheirDispatcher
    BY DEF Inv, Ledger, RowsOfJobs, ReportsHangUnderTheirDispatcher
  <2> QED
    BY <2>2, <2>3 DEF FiledUnderItsCaller
<1> QED
  BY <1>1, <1>2, PTL

\* A row is open only while its task is in its block, unless something was
\* killed or refused; a failed row has its failure, always; and a turn that was
\* handed over finished, on a recorded call whose payload is kept or whose loss
\* is recorded (recorder.py `invocation`; agents/invoke.py).
THEOREM TurnsAreAccountedFor == Spec => []EveryTurnIsAccountedFor
<1>1. Spec => []Inv
  BY RecorderInit, RecorderStep, PTL DEF Spec
<1>2. Inv => EveryTurnIsAccountedFor
  <2> SUFFICES ASSUME Inv PROVE EveryTurnIsAccountedFor
    OBVIOUS
  <2>1. ASSUME NEW r \in DOMAIN rows, Held(r) PROVE rows[r].outcome = "open"
    <3>1. CASE \E t \in Tasks : \E i \in DOMAIN task[t].frames : task[t].frames[i].row = r
      BY <3>1 DEF Inv, Mine, Stack
    <3>2. CASE \E t \in Tasks : task[t].pc = "ingestClose" /\ Last(task[t].resolved) = r
      BY <3>2 DEF Inv, Ledger, LastIsOpen
    <3> QED
      BY <2>1, <3>1, <3>2 DEF Held
  <2>2. NoneLeftOpen
    BY <2>1 DEF NoneLeftOpen, Inv, Ledger, OpenIsHeld
  <2>3. FailedHasItsFailure /\ TurnIsAccountedFor
    BY DEF Inv, Ledger, RowsNameRows, TurnsKept, FailedHasItsFailure
  <2> QED
    BY <2>2, <2>3 DEF EveryTurnIsAccountedFor
<1> QED
  BY <1>1, <1>2, PTL

\* A payload's row names a recorded call and two files that are there, whatever
\* fails in between and whoever is killed (telemetry/payloads.py).
THEOREM PayloadsAreThere == Spec => []PayloadIsThere
<1>1. Spec => []Inv
  BY RecorderInit, RecorderStep, PTL DEF Spec
<1>2. Inv => PayloadIsThere
  BY DEF Inv, Ledger
<1> QED
  BY <1>1, <1>2, PTL

\* An invocation is closed once: whatever nests, fails, is refused or killed, a row
\* that has an outcome keeps it, an open one may only be given one, and nothing that
\* was recorded is removed or filed anew (recorder.py; repository.py: each
\* completion "fills columns that were null by construction; none overwrites a
\* recorded value").
ClosedOnce ==
    [][/\ \A r \in DOMAIN rows :
            /\ r \in DOMAIN rows'
            /\ \/ rows'[r] = rows[r]
               \/ rows[r].outcome = "open" /\ rows'[r] = [rows[r] EXCEPT !.outcome = rows'[r].outcome]
       /\ \A c \in DOMAIN calls : c \in DOMAIN calls' /\ calls'[c] = calls[c]
       /\ failures \subseteq failures' /\ events \subseteq events'
       /\ payloads \subseteq payloads' /\ turns \subseteq turns']_vars

\* It holds of every behaviour, with faults or without.
THEOREM EveryRowIsClosedOnce == Spec => ClosedOnce
<1> DEFINE Stands ==
      /\ \A r \in DOMAIN rows :
            /\ r \in DOMAIN rows'
            /\ \/ rows'[r] = rows[r]
               \/ rows[r].outcome = "open" /\ rows'[r] = [rows[r] EXCEPT !.outcome = rows'[r].outcome]
      /\ \A c \in DOMAIN calls : c \in DOMAIN calls' /\ calls'[c] = calls[c]
      /\ failures \subseteq failures' /\ events \subseteq events'
      /\ payloads \subseteq payloads' /\ turns \subseteq turns'
<1>1. ASSUME Inv, UNCHANGED rows,
             calls' = calls \/ (\E x : calls' = Append(calls, x)),
             failures \subseteq failures', events \subseteq events',
             payloads \subseteq payloads', turns \subseteq turns'
      PROVE  Stands
  <2>1. calls \in Seq(CallRecord)
    BY <1>1 DEF Inv, Types
  <2>2. ASSUME NEW x, calls' = Append(calls, x)
        PROVE  \A c \in DOMAIN calls : c \in DOMAIN calls' /\ calls'[c] = calls[c]
    BY <2>1, <2>2
  <2>3. \A c \in DOMAIN calls : c \in DOMAIN calls' /\ calls'[c] = calls[c]
    BY <1>1, <2>2
  <2> QED
    BY <1>1, <2>3
<1>2. ASSUME Inv, NEW x, rows' = Append(rows, x),
             UNCHANGED <<calls, failures, events, payloads, turns>>
      PROVE  Stands
  BY <1>2 DEF Inv, Types
<1>3. ASSUME Inv, NEW q \in DOMAIN rows, rows[q].outcome = "open",
             NEW o \in {"success", "failed"}, rows' = Closed(q, o), turns \subseteq turns',
             UNCHANGED <<calls, failures, events, payloads>>
      PROVE  Stands
  <2>1. /\ rows \in Seq(RowRecord) /\ rows[q] \in RowRecord
        /\ rows' = [rows EXCEPT ![q] = [rows[q] EXCEPT !.outcome = o]]
    BY <1>3 DEF Inv, Types, Closed
  <2>2. rows'[q] = [rows[q] EXCEPT !.outcome = o] /\ rows'[q].outcome = o
    BY <2>1 DEF RowRecord
  <2> QED
    BY <1>3, <2>1, <2>2
<1>4. ASSUME Inv, NEW t \in Tasks, Step(t) PROVE Stands
  <2>1. CASE Exit(t) \/ CloseFailed(t)
    <3>1. task[t].frames # <<>> /\ Mine(t) /\ Types
      BY <1>4, <2>1 DEF Exit, CloseFailed, At, Inv, Mine, Turn
    <3>2. /\ Frame(t).row \in DOMAIN rows /\ rows[Frame(t).row].outcome = "open"
          /\ rows[Frame(t).row].origin = t
      BY <3>1, Innermost
    <3>3. \E o \in {"success", "failed"} : rows' = Closed(Frame(t).row, o)
      BY <2>1 DEF Exit, CloseFailed
    <3>4. turns \subseteq turns' /\ UNCHANGED <<calls, failures, events, payloads>>
      BY <2>1 DEF Exit, CloseFailed
    <3> QED
      BY <1>3, <1>4, <3>2, <3>3, <3>4
  <2>2. CASE IngestClose(t)
    <3>1. task[t].pc = "ingestClose" /\ Taking(t) /\ Types /\ LastIsOpen
      BY <1>4, <2>2 DEF IngestClose, At, Inv, Mine, Ledger
    <3>2. task[t].resolved \in Seq(Nat) /\ task[t].resolved # <<>>
      BY <3>1 DEF Types, TaskMemory, Taking
    <3>3. Len(task[t].resolved) \in DOMAIN task[t].resolved
      BY <3>2
    <3>4. Last(task[t].resolved) \in DOMAIN rows
      BY <3>1, <3>3 DEF Taking, Last
    <3>5. rows[Last(task[t].resolved)].outcome = "open"
      BY <3>1 DEF LastIsOpen
    <3> QED
      BY <1>3, <1>4, <2>2, <3>4, <3>5 DEF IngestClose
  <2>3. CASE IngestRow(t)
    <3>1. \E x : rows' = Append(rows, x)
      BY <2>3 DEF IngestRow
    <3> QED
      BY <1>2, <1>4, <2>3, <3>1 DEF IngestRow, Inv, Types
  <2>4. CASE RecordCall(t) \/ IngestCall(t)
    <3>1. calls' = calls \/ (\E x : calls' = Append(calls, x))
      BY <2>4 DEF RecordCall, IngestCall
    <3> QED
      BY <1>1, <1>4, <2>4, <3>1 DEF RecordCall, IngestCall
  <2>5. CASE \/ InsertFailure(t) \/ End(t) \/ WarnCutShort(t) \/ WritePrompt(t)
             \/ WriteCompletion(t) \/ InsertPayload(t) \/ Returned(t) \/ RefuseReport(t)
    BY <1>1, <1>4, <2>5 DEF InsertFailure, WritesFailure, End, WarnCutShort, RecordEvent, WritePrompt,
       WriteCompletion, InsertPayload, InsertPayloadRow, Returned, RefuseReport, store
  <2> QED
    BY <1>4, <2>1, <2>2, <2>3, <2>4, <2>5 DEF Step
<1>5. ASSUME Inv, [Next]_vars PROVE Stands
  <2>1. CASE UNCHANGED vars
    BY <1>1, <1>5, <2>1 DEF vars
  <2>2. ASSUME NEW t \in Tasks, Enter(t) PROVE Stands
    BY <1>2, <1>5, <2>2 DEF Enter
  <2>3. ASSUME NEW t \in Tasks,
               \/ Raise(t) \/ Answer(t) \/ BackendFails(t)
               \/ CloseRefused(t) \/ WriteFails(t) \/ StatementRefused(t)
        PROVE  Stands
    BY <1>1, <1>5, <2>3 DEF Raise, Answer, BackendFails, CloseRefused, WriteFails,
       StatementRefused, store
  <2>4. ASSUME NEW t \in Tasks, NEW u \in Others, NEW bare \in BOOLEAN, Spawn(t, u, bare)
        PROVE  Stands
    BY <1>1, <1>5, <2>4 DEF Spawn, store
  <2>5. ASSUME NEW t \in Tasks, NEW j \in Jobs
        PROVE  (Dispatch(t, j) \/ BeginIngest(t, j) \/ RefuseUnknown(t, j))
                  => UNCHANGED <<store, turns>>
    <3>1. Dispatch(t, j) => UNCHANGED <<store, turns>>
      BY DEF Dispatch
    <3>2. BeginIngest(t, j) => UNCHANGED <<store, turns>>
      BY Zenon DEF BeginIngest
    <3>3. RefuseUnknown(t, j) => UNCHANGED <<store, turns>>
      BY DEF RefuseUnknown
    <3> QED
      BY <3>1, <3>2, <3>3
  <2>9. ASSUME NEW t \in Tasks PROVE IngestRefused(t) => UNCHANGED <<store, turns>>
    BY Zenon DEF IngestRefused
  <2>6. UNCHANGED <<store, turns>> => Stands
    BY <1>1, <1>5 DEF store
  <2>7. CASE Kill
    BY <2>6, <2>7 DEF Kill
  <2>8. Ended => UNCHANGED vars
    BY DEF Ended
  <2> HIDE DEF Stands
  <2> QED
    BY <1>4, <1>5, <2>1, <2>2, <2>3, <2>4, <2>5, <2>6, <2>7, <2>8, <2>9 DEF Next
<1> QED
  BY <1>5, RecorderInit, RecorderStep, PTL DEF Spec, ClosedOnce

\* The row a block or a report is about to close is open, after faults too, so that
\* the refusal of `close_invocation`, "unknown or already closed" (repository.py),
\* is met by nobody: it would replace the exception on its way out of the block.
ClosesAnOpenRow ==
    \A t \in Tasks :
        /\ task[t].frames # <<>> => rows[Frame(t).row].outcome = "open"
        /\ task[t].pc = "ingestClose" => rows[Last(task[t].resolved)].outcome = "open"

\* Hence Closed may leave that refusal out.
THEOREM NoCloseIsRefused == Spec => []ClosesAnOpenRow
<1>1. Spec => []Inv
  BY RecorderInit, RecorderStep, PTL DEF Spec
<1>2. Inv => ClosesAnOpenRow
  BY Innermost DEF Inv, Ledger, LastIsOpen, ClosesAnOpenRow
<1> QED
  BY <1>1, <1>2, PTL

=============================================================================
