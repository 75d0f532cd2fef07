-------------------------- MODULE NightLoopProofs --------------------------
(***************************************************************************)
(* Theorems about NightLoop, for any sets of ideas, runs, questions,       *)
(* nights and requests, and any number of mishaps.                         *)
(*                                                                         *)
(* One inductive invariant, LoopInv, carries most of them.  Only the       *)
(* holder of the lock has anything in memory; what it has agrees with the  *)
(* tables; and no idea it may still open a run for has a run in flight.    *)
(* Beside it stand what a night knows of the ideas at `running`            *)
(* (RunningInv), and UsedAnswersAreConsumed, which is inductive with it.   *)
(***************************************************************************)
EXTENDS NightLoop, TLAPS

\* A night that is not down holds the lock.
OnlyTheHolderRuns == \A n \in Nights : night[n].pc # "down" => lock = n

\* What a night with memory m knows of the entry it works and of its run.
Remembers(m) ==
    /\ m.pc \in {"open", "answers", "walk", "mark", "release", "ask"} =>
         m.entry \in Entries \ m.rows
    /\ IF m.pc \in {"answers", "walk", "mark", "release", "ask"}
       THEN m.run \in Runs /\ run[m.run].entry = m.entry
       ELSE m.run = NoRun
    /\ m.pc \in {"answers", "walk"} => run[m.run].outcome = "open"
    /\ m.pc = "answers" => run[m.run].used = {}
    /\ m.toMark # {} => /\ m.pc = "mark"
                        /\ run[m.run].outcome = "worked"
                        /\ m.toMark \subseteq run[m.run].used

\* The entries a night with memory m may still open a run for.
Ahead(m) == IF m.pc = "open" THEN m.rows \cup {m.entry} ELSE m.rows

\* Recovery leaves no run in flight, and none of the entries ahead gets one.
NothingOpenAhead(m) ==
    /\ m.pc \in {"recoverEntries", "bind"} => OpenRuns = {}
    /\ m.pc \notin {"down", "recoverRuns"} =>
         \A r \in OpenRuns : run[r].entry \notin Ahead(m)

NightsAgree == \A n \in Nights : Remembers(night[n]) /\ NothingOpenAhead(night[n])

\* An answer in a run's hands is an answer to a question about the run's idea.
HandedAreQueued ==
    \A r \in Runs : \A d \in run[r].used :
        /\ decision[d].status = "queued-for-tonight"
        /\ decision[d].entry = run[r].entry

LoopInv ==
    /\ TypeOK
    /\ OnlyTheHolderRuns
    /\ NightsAgree
    /\ OneOpenRunPerIdea
    /\ HandedAreQueued
    /\ ConsumedByARunThatUsedIt
-----------------------------------------------------------------------------
(* Type correctness.                                                       *)

\* The records a process starts from are records of its type.
LEMMA MemoryTypes ==
    /\ Down \in NightMemory
    /\ \A rows \in SUBSET Entries : BetweenEntries(rows) \in NightMemory
    /\ Idle \in ClientMemory
BY DEF Down, BetweenEntries, Idle, NightMemory, ClientMemory, NightSteps,
       Outcomes, EntryStatuses

\* Every initial state has its types.
LEMMA TypeInit == Init => TypeOK
BY MemoryTypes DEF Init, TypeOK, RunRow, NoRow, DecisionRow, Unasked, EntryStatuses,
       Outcomes, AnswerStatuses

\* Every step of a night keeps the types.
LEMMA TypeNight ==
    ASSUME LoopInv, NEW n \in Nights, NightStep(n)
    PROVE  TypeOK'
<1> USE DEF TypeOK
<1>1. TypeOK
  BY DEF LoopInv
<1>2. ASSUME NEW r \in Runs, RecoverRun(n, r) PROVE TypeOK'
  BY <1>1, <1>2 DEF RecoverRun, RunRow, Outcomes
<1>3. ASSUME NEW r \in Runs, OpenRun(n, r) PROVE TypeOK'
  <2>1. night[n].entry \in Entries \cup {NoEntry}
    BY <1>1 DEF NightMemory
  <2>2. run' \in [Runs -> RunRow]
    BY <1>1, <1>3, <2>1 DEF OpenRun, RunRow
  <2>3. night' \in [Nights -> NightMemory]
    <3> DEFINE m == [night[n] EXCEPT !.pc = "answers", !.run = r]
    <3>1. m \in NightMemory
      BY <1>1, <1>3 DEF NightMemory, NightSteps
    <3>2. night' = [night EXCEPT ![n] = m]
      BY <1>3 DEF OpenRun
    <3> HIDE DEF m
    <3> QED
      BY <1>1, <3>1, <3>2
  <2> QED
    BY <1>1, <1>3, <2>2, <2>3 DEF OpenRun
<1>4. ASSUME NEW e \in Entries, RecoverEntry(n, e) PROVE TypeOK'
  BY <1>1, <1>4 DEF RecoverEntry, SetStatus, NightMemory, EntryStatuses
<1>5. ASSUME NEW e \in Entries, RecoverEntryRefused(n, e) PROVE TypeOK'
  BY <1>1, <1>5, MemoryTypes DEF RecoverEntryRefused, Exit
<1>6. ASSUME NEW e \in Entries, Dispatch(n, e) PROVE TypeOK'
  <2>1. entryStatus' \in [Entries -> EntryStatuses]
    BY <1>1, <1>6 DEF Dispatch, SetStatus, EntryStatuses
  <2>2. night' \in [Nights -> NightMemory]
    <3> DEFINE left == night[n].rows \ {e}
               m == [night[n] EXCEPT !.pc = "open", !.rows = left, !.entry = e]
    <3>1. left \in SUBSET Entries
      BY <1>1 DEF NightMemory
    <3>2. night' = [night EXCEPT ![n] = m]
      BY <1>6 DEF Dispatch
    <3> HIDE DEF left
    <3>3. m \in NightMemory
      BY <1>1, <3>1 DEF NightMemory, NightSteps
    <3> HIDE DEF m
    <3> QED
      BY <1>1, <3>2, <3>3
  <2> QED
    BY <1>1, <1>6, <2>1, <2>2 DEF Dispatch
<1>7. ASSUME SelectStuckEntries(n) PROVE TypeOK'
  <2>1. Stuck \in SUBSET Entries
    BY DEF Stuck, RunningEntries
  <2>2. night' \in [Nights -> NightMemory]
    <3> DEFINE m == [night[n] EXCEPT !.pc = "recoverEntries", !.rows = Stuck]
    <3>1. m \in NightMemory
      BY <1>1, <2>1 DEF NightMemory, NightSteps
    <3>2. night' = [night EXCEPT ![n] = m]
      BY <1>7 DEF SelectStuckEntries
    <3> HIDE DEF m
    <3> QED
      BY <1>1, <3>1, <3>2
  <2> QED
    BY <1>1, <1>7, <2>2 DEF SelectStuckEntries
<1>8. ASSUME RecoveryDone(n) PROVE TypeOK'
  BY <1>1, <1>8 DEF RecoveryDone, NightMemory, NightSteps
<1>9. ASSUME ReadAnswers(n) PROVE TypeOK'
  <2>1. Handed(night[n].entry) \in SUBSET Decisions
    BY DEF Handed, QueuedForTonight
  <2>2. run' \in [Runs -> RunRow]
    BY <1>1, <1>9, <2>1 DEF ReadAnswers, RunRow
  <2>3. night' \in [Nights -> NightMemory]
    BY <1>1, <1>9 DEF ReadAnswers, NightMemory, NightSteps
  <2> QED
    BY <1>1, <1>9, <2>2, <2>3 DEF ReadAnswers
<1>10. ASSUME NEW v \in Outcomes, CloseRun(n, v) PROVE TypeOK'
  <2> DEFINE r == night[n].run
  <2>1. r \in Runs
    BY <1>10 DEF CloseRun, LoopInv, NightsAgree, Remembers
  <2>2. ToMark(r, v) \in SUBSET Decisions
    BY <1>1, <2>1 DEF ToMark, RunRow
  <2>3. run' \in [Runs -> RunRow]
    BY <1>1, <1>10 DEF CloseRun, RunRow
  <2>4. night' \in [Nights -> NightMemory]
    <3> DEFINE m == [night[n] EXCEPT !.pc = "mark", !.verdict = v,
                                        !.toMark = ToMark(r, v)]
    <3>1. m \in NightMemory
      BY <1>1, <2>2 DEF NightMemory, NightSteps
    <3>2. night' = [night EXCEPT ![n] = m]
      BY <1>10 DEF CloseRun
    <3> HIDE DEF m
    <3> QED
      BY <1>1, <3>1, <3>2
  <2> QED
    BY <1>1, <1>10, <2>3, <2>4 DEF CloseRun
<1>11. ASSUME NEW d \in Decisions, MarkConsumed(n, d) PROVE TypeOK'
  <2>1. night[n].run \in Runs \cup {NoRun}
    BY <1>1 DEF NightMemory
  <2>2. decision' \in [Decisions -> DecisionRow]
    BY <1>1, <1>11, <2>1 DEF MarkConsumed, DecisionRow
  <2>3. night' \in [Nights -> NightMemory]
    BY <1>1, <1>11 DEF MarkConsumed, NightMemory
  <2> QED
    BY <1>1, <1>11, <2>2, <2>3 DEF MarkConsumed
<1>12. ASSUME ReadForRelease(n) PROVE TypeOK'
  <2>1. ReleaseTo(night[n].entry, night[n].verdict) \in EntryStatuses
    BY DEF ReleaseTo, EntryStatuses
  <2>2. night' \in [Nights -> NightMemory]
    <3> DEFINE m == [night[n] EXCEPT !.pc = "release",
          !.target = ReleaseTo(night[n].entry, night[n].verdict)]
    <3>1. m \in NightMemory
      BY <1>1, <2>1 DEF NightMemory, NightSteps
    <3>2. night' = [night EXCEPT ![n] = m]
      BY <1>12 DEF ReadForRelease
    <3> HIDE DEF m
    <3> QED
      BY <1>1, <3>1, <3>2
  <2> QED
    BY <1>1, <1>12, <2>2 DEF ReadForRelease
<1>13. ASSUME Release(n) PROVE TypeOK'
  <2>1. night[n].target \in EntryStatuses /\ night[n].rows \in SUBSET Entries
    BY <1>1 DEF NightMemory
  <2>2. entryStatus' \in [Entries -> EntryStatuses]
    BY <1>1, <1>13, <2>1 DEF Release, SetStatus
  <2>3. [night[n] EXCEPT !.pc = "ask"] \in NightMemory
    BY <1>1 DEF NightMemory, NightSteps
  <2>4. night' \in [Nights -> NightMemory]
    BY <1>1, <1>13, <2>1, <2>3, MemoryTypes DEF Release
  <2> QED
    BY <1>1, <1>13, <2>2, <2>4 DEF Release
<1>14. ASSUME ReleaseRefused(n) \/ AskingDone(n) PROVE TypeOK'
  <2>1. night[n].rows \in SUBSET Entries
    BY <1>1 DEF NightMemory
  <2> QED
    BY <1>1, <1>14, <2>1, MemoryTypes DEF ReleaseRefused, AskingDone
<1>15. ASSUME NightDone(n) PROVE TypeOK'
  BY <1>1, <1>15, MemoryTypes DEF NightDone, Exit
<1> QED
  BY <1>2, <1>3, <1>4, <1>5, <1>6, <1>7, <1>8, <1>9, <1>10, <1>11, <1>12, <1>13,
     <1>14, <1>15 DEF NightStep

\* Every mishap of a night keeps the types.
LEMMA TypeMishap ==
    ASSUME TypeOK, NEW n \in Nights, Mishap(n)
    PROVE  TypeOK'
<1> USE DEF TypeOK
<1>1. mishaps' \in [crash : Nat, fault : Nat, abandon : Nat]
  <2>1. /\ [mishaps EXCEPT !.crash = @ + 1] \in [crash : Nat, fault : Nat, abandon : Nat]
        /\ [mishaps EXCEPT !.fault = @ + 1] \in [crash : Nat, fault : Nat, abandon : Nat]
    OBVIOUS
  <2> QED
    BY <2>1 DEF Mishap, Crash, StartFails, EscapesWithoutRelease, MarkConsumedFails,
                DispatchFails, CloseRunFails, Fault
<1>2. night[n].rows \in SUBSET Entries
  BY DEF NightMemory
<1>3. ASSUME Crash(n) \/ StartFails(n) PROVE TypeOK'
  BY <1>1, <1>3, MemoryTypes DEF Crash, StartFails, Exit
<1>4. ASSUME EscapesWithoutRelease(n) PROVE TypeOK'
  BY <1>1, <1>2, <1>4, MemoryTypes DEF EscapesWithoutRelease
<1>5. ASSUME NEW e \in Entries, DispatchFails(n, e) PROVE TypeOK'
  BY <1>1, <1>5 DEF DispatchFails, NightMemory
<1>6. ASSUME NEW v \in Outcomes, CloseRunFails(n, v) PROVE TypeOK'
  <2>1. night' \in [Nights -> NightMemory]
    <3> DEFINE m == [night[n] EXCEPT !.pc = "mark", !.verdict = v,
                                        !.raised = TRUE]
    <3>1. m \in NightMemory
      BY <1>6 DEF NightMemory, NightSteps
    <3>2. night' = [night EXCEPT ![n] = m]
      BY <1>6 DEF CloseRunFails
    <3> HIDE DEF m
    <3> QED
      BY <3>1, <3>2
  <2> QED
    BY <1>1, <1>6, <2>1 DEF CloseRunFails
<1>7. ASSUME MarkConsumedFails(n) PROVE TypeOK'
  <2>1. night' \in [Nights -> NightMemory]
    <3> DEFINE m == [night[n] EXCEPT !.toMark = {}, !.raised = TRUE]
    <3>1. m \in NightMemory
      BY DEF NightMemory, NightSteps
    <3>2. night' = [night EXCEPT ![n] = m]
      BY <1>7 DEF MarkConsumedFails
    <3> HIDE DEF m
    <3> QED
      BY <3>1, <3>2
  <2> QED
    BY <1>1, <1>7, <2>1 DEF MarkConsumedFails
<1> QED
  BY <1>3, <1>4, <1>5, <1>6, <1>7 DEF Mishap

\* Every step of a request keeps the types.
LEMMA TypeClient ==
    ASSUME TypeOK, NEW c \in Clients
    PROVE  /\ ClientStep(c) \/ AbandonAnswer(c) => TypeOK'
           /\ \A d \in Decisions, s \in AnswerStatuses : Answer(c, d, s) => TypeOK'
<1> USE DEF TypeOK
<1>1. ASSUME NEW d \in Decisions, NEW s \in AnswerStatuses, Answer(c, d, s)
      PROVE  TypeOK'
  <2>1. decision' \in [Decisions -> DecisionRow]
    BY <1>1 DEF Answer, DecisionRow, AnswerStatuses
  <2>2. [Idle EXCEPT !.pc = "look", !.decision = d] \in ClientMemory
    BY DEF Idle, ClientMemory, EntryStatuses
  <2>3. client' \in [Clients -> ClientMemory]
    BY <1>1, <2>2, MemoryTypes DEF Answer
  <2> QED
    BY <1>1, <2>1, <2>3 DEF Answer
<1>2. ASSUME Look(c) PROVE TypeOK'
  <2>1. [client[c] EXCEPT !.pc = "read"] \in ClientMemory
    BY DEF ClientMemory
  <2> QED
    BY <1>2, <2>1, MemoryTypes DEF Look
<1>3. ASSUME ReadForRequeue(c) PROVE TypeOK'
  <2> DEFINE seen == entryStatus[AnsweredEntry(c)]
  <2>1. ASSUME Permitted(seen, "queued")
        PROVE  [client[c] EXCEPT !.pc = "write", !.seen = seen] \in ClientMemory
    <3>1. seen \in EntryStatuses
      BY <2>1 DEF Permitted, EntryTransitions, EntryStatuses
    <3> QED
      BY <3>1 DEF ClientMemory
  <2>2. client' \in [Clients -> ClientMemory]
    BY <1>3, <2>1, MemoryTypes DEF ReadForRequeue
  <2> QED
    BY <1>3, <2>2 DEF ReadForRequeue
<1>4. ASSUME Requeue(c) PROVE TypeOK'
  BY <1>4, MemoryTypes DEF Requeue, SetStatus, EntryStatuses
<1>5. ASSUME AbandonAnswer(c) PROVE TypeOK'
  BY <1>5, MemoryTypes DEF AbandonAnswer
<1> QED
  BY <1>1, <1>2, <1>3, <1>4, <1>5 DEF ClientStep

\* Every step keeps the types.
LEMMA TypeStep == LoopInv /\ [Next]_vars => TypeOK'
<1> SUFFICES ASSUME LoopInv, [Next]_vars PROVE TypeOK'
  OBVIOUS
<1>1. TypeOK
  BY DEF LoopInv
<1> USE DEF TypeOK
<1>2. ASSUME NEW e \in Entries, Capture(e) PROVE TypeOK'
  BY <1>1, <1>2 DEF Capture, EntryStatuses
<1>3. ASSUME NEW n \in Nights, AcquireLock(n) PROVE TypeOK'
  <2>1. [night[n] EXCEPT !.pc = "recoverRuns"] \in NightMemory
    BY <1>1 DEF NightMemory, NightSteps
  <2>2. night' \in [Nights -> NightMemory]
    BY <1>1, <1>3, <2>1 DEF AcquireLock
  <2> QED
    BY <1>1, <1>3, <2>2 DEF AcquireLock
<1>4. ASSUME NEW n \in Nights, Bind(n) PROVE TypeOK'
  <2>1. Eligible \in SUBSET Entries
    BY DEF Eligible
  <2>2. ASSUME NEW rows \in SUBSET Entries,
               night' = [night EXCEPT ![n] = BetweenEntries(rows)],
               UNCHANGED <<entryStatus, run, decision, lock, client, mishaps>>
        PROVE  TypeOK'
    BY <1>1, <2>2, MemoryTypes
  <2>3. CASE BindRefused(n)
    BY <1>1, <2>3, MemoryTypes DEF BindRefused, Exit
  <2>4. CASE BindAll(n)
    BY <2>1, <2>2, <2>4 DEF BindAll
  <2>5. ASSUME NEW e \in Entries, BindOne(n, e) PROVE TypeOK'
    <3>1. {e} \in SUBSET Entries
      OBVIOUS
    <3> QED
      BY <2>2, <2>5, <3>1 DEF BindOne
  <2> QED
    BY <1>4, <2>3, <2>4, <2>5 DEF Bind
<1>5. ASSUME NEW n \in Nights, NEW d \in Decisions, AskQuestion(n, d) PROVE TypeOK'
  BY <1>1, <1>5 DEF AskQuestion, DecisionRow, NightMemory
<1>6. CASE UNCHANGED vars
  BY <1>1, <1>6 DEF vars
<1> QED
  BY <1>1, <1>2, <1>3, <1>4, <1>5, <1>6, TypeNight, TypeMishap, TypeClient DEF Next

-----------------------------------------------------------------------------
(* The inductive invariant.                                                *)

\* Nothing is in flight and nothing is remembered at the start.
LEMMA InvInit == Init => LoopInv
<1> SUFFICES ASSUME Init PROVE LoopInv
  OBVIOUS
<1>1. TypeOK
  BY TypeInit
<1>2. OnlyTheHolderRuns /\ NightsAgree
  BY DEF Init, OnlyTheHolderRuns, NightsAgree, Remembers, NothingOpenAhead, Down
<1>3. OneOpenRunPerIdea /\ HandedAreQueued /\ ConsumedByARunThatUsedIt
  BY DEF Init, OneOpenRunPerIdea, OpenRuns, NoRow, HandedAreQueued,
         ConsumedByARunThatUsedIt, Unasked
<1> QED
  BY <1>1, <1>2, <1>3 DEF LoopInv

\* A step that changes neither runs, nor questions, nor nights, nor the lock.
LEMMA NothingMoves ==
    ASSUME LoopInv, TypeOK', UNCHANGED <<run, decision, night, lock>>
    PROVE  LoopInv'
BY DEF LoopInv, OnlyTheHolderRuns, NightsAgree, Remembers, NothingOpenAhead, Ahead,
       OpenRuns, OneOpenRunPerIdea, HandedAreQueued, ConsumedByARunThatUsedIt

\* A step in which one night that holds the lock thinks, and no table moves.
LEMMA OneNightMoves ==
    ASSUME LoopInv, TypeOK', UNCHANGED <<run, decision>>,
           NEW n \in Nights, NEW m, night' = [night EXCEPT ![n] = m],
           m.pc # "down" => lock' = n,
           \A k \in Nights \ {n} : night[k].pc # "down" => lock' = k,
           Remembers(m), NothingOpenAhead(m)
    PROVE  LoopInv'
<1>1. \A k \in Nights : night'[k] = IF k = n THEN m ELSE night[k]
  BY DEF LoopInv, TypeOK
<1>2. OnlyTheHolderRuns'
  BY <1>1 DEF OnlyTheHolderRuns
<1>3. NightsAgree'
  <2>1. ASSUME NEW k \in Nights
        PROVE  (Remembers(night[k]) /\ NothingOpenAhead(night[k]))'
    <3> DEFINE x == IF k = n THEN m ELSE night[k]
    <3>1. night'[k] = x
      BY <1>1
    <3>2. Remembers(x) /\ NothingOpenAhead(x)
      BY DEF LoopInv, NightsAgree
    <3> HIDE DEF x
    <3> QED
      BY <3>1, <3>2 DEF Remembers, NothingOpenAhead, Ahead, OpenRuns
  <2> QED
    BY <2>1 DEF NightsAgree
<1> QED
  BY <1>2, <1>3 DEF LoopInv, OneOpenRunPerIdea, OpenRuns, HandedAreQueued,
                    ConsumedByARunThatUsedIt

\* A process that leaves throws its memory away and releases the lock.
LEMMA ExitMoves ==
    ASSUME LoopInv, TypeOK', UNCHANGED <<run, decision>>, NEW n \in Nights, Exit(n)
    PROVE  LoopInv'
<1>1. Remembers(Down) /\ NothingOpenAhead(Down) /\ Down.pc = "down"
  BY DEF Remembers, NothingOpenAhead, Down
<1>2. night' = [night EXCEPT ![n] = Down]
  BY DEF Exit
<1>3. \A k \in Nights \ {n} : night[k].pc # "down" => lock' = k
  BY DEF Exit, LoopInv, OnlyTheHolderRuns
<1> QED
  BY <1>1, <1>2, <1>3, OneNightMoves

\* The night goes back to its list of entries, or on from it.
LEMMA BetweenMoves ==
    ASSUME LoopInv, TypeOK', UNCHANGED <<run, decision, lock>>,
           NEW n \in Nights, lock = n, NEW rows,
           \A r \in OpenRuns : run[r].entry \notin rows,
           night' = [night EXCEPT ![n] = BetweenEntries(rows)]
    PROVE  LoopInv'
<1> DEFINE m == BetweenEntries(rows)
<1>1. m.pc = "pick" /\ m.rows = rows /\ m.run = NoRun /\ m.toMark = {}
  BY DEF BetweenEntries, Down
<1>2. Remembers(m) /\ NothingOpenAhead(m)
  <2> HIDE DEF m
  <2> QED
    BY <1>1 DEF Remembers, NothingOpenAhead, Ahead
<1>3. \A k \in Nights \ {n} : night[k].pc # "down" => lock' = k
  BY DEF LoopInv, OnlyTheHolderRuns
<1> HIDE DEF m
<1> QED
  BY <1>2, <1>3, OneNightMoves DEF m

\* While a night runs, it holds the lock and every other night is down.
LEMMA Alone ==
    ASSUME LoopInv, NEW n \in Nights, night[n].pc # "down"
    PROVE  lock = n /\ \A k \in Nights \ {n} : night[k].pc = "down"
BY DEF LoopInv, OnlyTheHolderRuns

\* A night that is down remembers nothing the tables could contradict.
LEMMA DownAgrees ==
    ASSUME NEW m, m.pc = "down"
    PROVE  /\ Remembers(m) <=> m.run = NoRun /\ m.toMark = {}
           /\ NothingOpenAhead(m)
BY DEF Remembers, NothingOpenAhead

\* A step in which the running night moves and a table with it: only its own
\* memory and the tables have to be shown to agree again.
LEMMA TablesMove ==
    ASSUME LoopInv, TypeOK', lock' = lock, NEW n \in Nights, night[n].pc # "down",
           \A k \in Nights \ {n} : night'[k] = night[k],
           Remembers(night[n])', NothingOpenAhead(night[n])',
           OneOpenRunPerIdea', HandedAreQueued', ConsumedByARunThatUsedIt'
    PROVE  LoopInv'
<1>1. OnlyTheHolderRuns'
  BY Alone DEF OnlyTheHolderRuns
<1>2. ASSUME NEW k \in Nights \ {n}
      PROVE  (Remembers(night[k]) /\ NothingOpenAhead(night[k]))'
  <2>1. night[k].pc = "down" /\ night[k].run = NoRun /\ night[k].toMark = {}
    BY Alone DEF LoopInv, NightsAgree, Remembers
  <2>2. night'[k] = night[k]
    OBVIOUS
  <2> QED
    BY <2>1, <2>2 DEF Remembers, NothingOpenAhead
<1>3. NightsAgree'
  BY <1>2 DEF NightsAgree
<1> QED
  BY <1>1, <1>3 DEF LoopInv

-----------------------------------------------------------------------------
(* The inductive invariant: one step of a night that changes no table of   *)
(* runs or questions.                                                      *)

\* Every action in which a night only reads, or moves an entry's status.
LEMMA QuietSteps ==
    ASSUME LoopInv, TypeOK', NEW n \in Nights,
           \/ AcquireLock(n) \/ SelectStuckEntries(n) \/ RecoveryDone(n)
           \/ ReadForRelease(n) \/ MarkConsumedFails(n)
           \/ \E e \in Entries : \/ RecoverEntry(n, e) \/ Dispatch(n, e)
                                 \/ DispatchFails(n, e)
           \/ \E v \in Outcomes : CloseRunFails(n, v)
    PROVE  LoopInv'
<1>1. night[n] \in NightMemory /\ Remembers(night[n]) /\ NothingOpenAhead(night[n])
  BY DEF LoopInv, TypeOK, NightsAgree
<1>2. \A k \in Nights \ {n} : night[k].pc # "down" => lock = k
  BY DEF LoopInv, OnlyTheHolderRuns
<1>3. ASSUME UNCHANGED <<run, decision, lock>>, night[n].pc # "down", NEW m,
             night' = [night EXCEPT ![n] = m], Remembers(m), NothingOpenAhead(m)
      PROVE  LoopInv'
  BY <1>2, <1>3, Alone, OneNightMoves
<1>4. CASE AcquireLock(n)
  <2> DEFINE m == [night[n] EXCEPT !.pc = "recoverRuns"]
  <2>1. m.pc = "recoverRuns" /\ m.run = NoRun /\ m.toMark = {}
    BY <1>1, <1>4 DEF AcquireLock, Remembers, NightMemory
  <2>2. night' = [night EXCEPT ![n] = m] /\ lock' = n /\ UNCHANGED <<run, decision>>
    BY <1>4 DEF AcquireLock
  <2>3. \A k \in Nights : night[k].pc = "down"
    BY <1>4, ConstantsAssumption DEF AcquireLock, LockIsFree, LoopInv, OnlyTheHolderRuns
  <2> HIDE DEF m
  <2>4. Remembers(m) /\ NothingOpenAhead(m)
    BY <2>1 DEF Remembers, NothingOpenAhead
  <2> QED
    BY <2>2, <2>3, <2>4, OneNightMoves
<1>5. CASE SelectStuckEntries(n)
  <2> DEFINE m == [night[n] EXCEPT !.pc = "recoverEntries", !.rows = Stuck]
  <2>1. m.pc = "recoverEntries" /\ m.run = NoRun /\ m.toMark = {}
    BY <1>1, <1>5 DEF SelectStuckEntries, Remembers, NightMemory
  <2>2. night' = [night EXCEPT ![n] = m]
    BY <1>5 DEF SelectStuckEntries
  <2> HIDE DEF m
  <2>3. Remembers(m) /\ NothingOpenAhead(m)
    BY <1>5, <2>1 DEF SelectStuckEntries, Interrupted, Remembers, NothingOpenAhead, OpenRuns
  <2> QED
    BY <1>3, <1>5, <2>2, <2>3 DEF SelectStuckEntries
<1>6. CASE RecoveryDone(n)
  <2> DEFINE m == [night[n] EXCEPT !.pc = "bind"]
  <2>1. m.pc = "bind" /\ m.run = NoRun /\ m.toMark = {} /\ OpenRuns = {}
    BY <1>1, <1>6 DEF RecoveryDone, Remembers, NothingOpenAhead, NightMemory
  <2>2. night' = [night EXCEPT ![n] = m]
    BY <1>6 DEF RecoveryDone
  <2> HIDE DEF m
  <2>3. Remembers(m) /\ NothingOpenAhead(m)
    BY <2>1 DEF Remembers, NothingOpenAhead
  <2> QED
    BY <1>3, <1>6, <2>2, <2>3 DEF RecoveryDone
<1>7. CASE ReadForRelease(n)
  <2> DEFINE to == ReleaseTo(night[n].entry, night[n].verdict)
             m == [night[n] EXCEPT !.pc = "release", !.target = to]
  <2>1. night' = [night EXCEPT ![n] = m]
    BY <1>7 DEF ReadForRelease
  <2> HIDE DEF to
  <2>2. /\ m.pc = "release" /\ m.run = night[n].run /\ m.toMark = {}
        /\ m.entry = night[n].entry /\ m.rows = night[n].rows
    BY <1>1, <1>7 DEF ReadForRelease, NightMemory
  <2> HIDE DEF m
  <2>3. Remembers(m) /\ NothingOpenAhead(m)
    BY <1>1, <1>7, <2>2 DEF ReadForRelease, Remembers, NothingOpenAhead, Ahead
  <2> QED
    BY <1>3, <1>7, <2>1, <2>3 DEF ReadForRelease
<1>8. CASE MarkConsumedFails(n)
  <2> DEFINE m == [night[n] EXCEPT !.toMark = {}, !.raised = TRUE]
  <2>1. /\ m.pc = "mark" /\ m.run = night[n].run /\ m.toMark = {}
        /\ m.entry = night[n].entry /\ m.rows = night[n].rows
    BY <1>1, <1>8 DEF MarkConsumedFails, NightMemory
  <2>2. night' = [night EXCEPT ![n] = m]
    BY <1>8 DEF MarkConsumedFails
  <2> HIDE DEF m
  <2>3. Remembers(m) /\ NothingOpenAhead(m)
    BY <1>1, <1>8, <2>1 DEF MarkConsumedFails, Remembers, NothingOpenAhead, Ahead
  <2> QED
    BY <1>3, <1>8, <2>2, <2>3 DEF MarkConsumedFails
<1>9. ASSUME NEW e \in Entries, RecoverEntry(n, e) \/ DispatchFails(n, e)
      PROVE  LoopInv'
  <2> DEFINE m == [night[n] EXCEPT !.rows = night[n].rows \ {e}]
  <2>1. /\ m.pc = night[n].pc /\ m.run = night[n].run /\ m.toMark = night[n].toMark
        /\ m.rows = night[n].rows \ {e}
    BY <1>1 DEF NightMemory
  <2>2. night' = [night EXCEPT ![n] = m] /\ m.pc \in {"recoverEntries", "pick"}
    BY <1>9, <2>1 DEF RecoverEntry, DispatchFails
  <2> HIDE DEF m
  <2>3. Remembers(m) /\ NothingOpenAhead(m)
    BY <1>1, <2>1, <2>2 DEF Remembers, NothingOpenAhead, Ahead
  <2> QED
    BY <1>3, <1>9, <2>1, <2>2, <2>3 DEF RecoverEntry, DispatchFails
<1>10. ASSUME NEW e \in Entries, Dispatch(n, e)
       PROVE  LoopInv'
  <2> DEFINE left == night[n].rows \ {e}
             m == [night[n] EXCEPT !.pc = "open", !.rows = left, !.entry = e]
  <2>1. night' = [night EXCEPT ![n] = m]
    BY <1>10 DEF Dispatch
  <2> HIDE DEF left
  <2>2. /\ m.pc = "open" /\ m.run = NoRun /\ m.toMark = {}
        /\ m.entry = e /\ m.rows = left
    BY <1>1, <1>10 DEF Dispatch, Remembers, NightMemory
  <2> HIDE DEF m
  <2>3. Remembers(m) /\ NothingOpenAhead(m)
    BY <1>1, <1>10, <2>2 DEF Dispatch, Remembers, NothingOpenAhead, Ahead, left
  <2> QED
    BY <1>3, <1>10, <2>1, <2>3 DEF Dispatch
<1>11. ASSUME NEW v \in Outcomes, CloseRunFails(n, v)
       PROVE  LoopInv'
  <2> DEFINE m == [night[n] EXCEPT !.pc = "mark", !.verdict = v, !.raised = TRUE]
  <2>1. /\ m.pc = "mark" /\ m.run = night[n].run /\ m.toMark = night[n].toMark
        /\ m.entry = night[n].entry /\ m.rows = night[n].rows
    BY <1>1, <1>11 DEF CloseRunFails, NightMemory
  <2>2. night' = [night EXCEPT ![n] = m]
    BY <1>11 DEF CloseRunFails
  <2> HIDE DEF m
  <2>3. Remembers(m) /\ NothingOpenAhead(m)
    BY <1>1, <1>11, <2>1 DEF CloseRunFails, Remembers, NothingOpenAhead, Ahead
  <2> QED
    BY <1>3, <1>11, <2>2, <2>3 DEF CloseRunFails
<1> QED
  BY <1>4, <1>5, <1>6, <1>7, <1>8, <1>9, <1>10, <1>11

\* Every action in which a night leaves an entry or leaves altogether.
LEMMA LeavingSteps ==
    ASSUME LoopInv, TypeOK', NEW n \in Nights,
           \/ BindRefused(n) \/ NightDone(n) \/ Crash(n) \/ StartFails(n)
           \/ BindAll(n) \/ ReleaseRefused(n) \/ Release(n) \/ AskingDone(n)
           \/ EscapesWithoutRelease(n)
           \/ \E e \in Entries : RecoverEntryRefused(n, e) \/ BindOne(n, e)
    PROVE  LoopInv'
<1>1. night[n] \in NightMemory /\ Remembers(night[n]) /\ NothingOpenAhead(night[n])
  BY DEF LoopInv, TypeOK, NightsAgree
<1>2. CASE \/ BindRefused(n) \/ NightDone(n) \/ Crash(n) \/ StartFails(n)
           \/ \E e \in Entries : RecoverEntryRefused(n, e)
  BY <1>2, ExitMoves
     DEF BindRefused, NightDone, Crash, StartFails, RecoverEntryRefused
<1>3. CASE BindAll(n) \/ \E e \in Entries : BindOne(n, e)
  <2>1. PICK rows : night' = [night EXCEPT ![n] = BetweenEntries(rows)]
    BY <1>3 DEF BindAll, BindOne
  <2>2. OpenRuns = {} /\ lock = n /\ UNCHANGED <<run, decision, lock>>
    BY <1>1, <1>3, Alone DEF BindAll, BindOne, NothingOpenAhead
  <2> QED
    BY <2>1, <2>2, BetweenMoves
<1>4. ASSUME night[n].pc \in {"open", "answers", "mark", "release", "ask"},
             UNCHANGED <<run, decision, lock>>,
             night' = [night EXCEPT ![n] = BetweenEntries(night[n].rows)]
      PROVE  LoopInv'
  <2>1. \A r \in OpenRuns : run[r].entry \notin night[n].rows
    BY <1>1, <1>4 DEF NothingOpenAhead, Ahead
  <2> QED
    BY <1>4, <2>1, Alone, BetweenMoves
<1>5. CASE ReleaseRefused(n) \/ AskingDone(n) \/ EscapesWithoutRelease(n)
  BY <1>4, <1>5 DEF ReleaseRefused, AskingDone, EscapesWithoutRelease
<1>6. CASE Release(n) /\ night[n].raised
  BY <1>4, <1>6 DEF Release
<1>7. CASE Release(n) /\ ~night[n].raised
  <2> DEFINE m == [night[n] EXCEPT !.pc = "ask"]
  <2>1. /\ m.pc = "ask" /\ m.run = night[n].run /\ m.toMark = night[n].toMark
        /\ m.entry = night[n].entry /\ m.rows = night[n].rows
    BY <1>1 DEF NightMemory
  <2>2. night' = [night EXCEPT ![n] = m] /\ UNCHANGED <<run, decision, lock>>
    BY <1>7 DEF Release
  <2> HIDE DEF m
  <2>3. night[n].pc = "release"
    BY <1>7 DEF Release
  <2>4. Remembers(m) /\ NothingOpenAhead(m)
    BY <1>1, <2>1, <2>3 DEF Remembers, NothingOpenAhead, Ahead
  <2>5. lock = n /\ \A k \in Nights \ {n} : night[k].pc = "down"
    BY <2>3, Alone
  <2> QED
    BY <2>2, <2>4, <2>5, OneNightMoves
<1> QED
  BY <1>2, <1>3, <1>5, <1>6, <1>7

-----------------------------------------------------------------------------
(* The inductive invariant: the steps that write runs or questions.        *)

\* A step that leaves questions and the runs that worked as they are.
LEMMA ConsumedStays ==
    ASSUME LoopInv, decision' = decision,
           \A s \in Runs : run[s].outcome = "worked" => run'[s] = run[s]
    PROVE  ConsumedByARunThatUsedIt'
<1>1. \A d \in Decisions : decision[d].consumedBy \in Runs \cup {NoRun}
  BY DEF LoopInv, TypeOK, DecisionRow
<1> QED
  BY <1>1 DEF LoopInv, ConsumedByARunThatUsedIt

\* Recovery closes a run that was in flight: no answer was consumed by it.
LEMMA RecoverRunStep ==
    ASSUME LoopInv, TypeOK', NEW n \in Nights, NEW r \in Runs, RecoverRun(n, r)
    PROVE  LoopInv'
<1>1. /\ TypeOK /\ night[n].pc = "recoverRuns" /\ run[r].outcome = "open"
      /\ UNCHANGED <<night, decision, lock>>
  BY DEF LoopInv, RecoverRun, Interrupted, OpenRuns
<1>2. /\ \A s \in Runs : s # r => run'[s] = run[s]
      /\ run'[r].outcome = "failed" /\ run'[r].entry = run[r].entry
      /\ run'[r].used = run[r].used
  BY <1>1 DEF RecoverRun, TypeOK, RunRow
<1>3. Remembers(night[n])' /\ NothingOpenAhead(night[n])'
  BY <1>1 DEF LoopInv, NightsAgree, Remembers, NothingOpenAhead
<1>4. OneOpenRunPerIdea' /\ HandedAreQueued'
  BY <1>1, <1>2 DEF LoopInv, OneOpenRunPerIdea, OpenRuns, HandedAreQueued
<1>5. ConsumedByARunThatUsedIt'
  BY <1>1, <1>2, ConsumedStays
<1> QED
  BY <1>1, <1>3, <1>4, <1>5, TablesMove

\* A run is opened for an idea that has none in flight.
LEMMA OpenRunStep ==
    ASSUME LoopInv, TypeOK', NEW n \in Nights, NEW r \in Runs, OpenRun(n, r)
    PROVE  LoopInv'
<1> DEFINE e == night[n].entry
           m == [night[n] EXCEPT !.pc = "answers", !.run = r]
<1>1. /\ TypeOK /\ night[n] \in NightMemory /\ night[n].pc = "open"
      /\ run[r].outcome = "none" /\ UNCHANGED <<decision, lock>>
      /\ Remembers(night[n]) /\ NothingOpenAhead(night[n])
  BY DEF LoopInv, TypeOK, NightsAgree, OpenRun
<1>2. /\ \A s \in Runs : s # r => run'[s] = run[s]
      /\ run'[r] = [entry |-> e, outcome |-> "open", used |-> {}]
  BY <1>1 DEF OpenRun, TypeOK
<1>3. /\ night'[n] = m
      /\ \A k \in Nights \ {n} : night'[k] = night[k]
  BY <1>1 DEF OpenRun, TypeOK
<1>4. /\ m.pc = "answers" /\ m.run = r /\ m.toMark = {} /\ m.entry = e
      /\ m.rows = night[n].rows
  BY <1>1 DEF Remembers, NightMemory
<1> HIDE DEF m, e
<1>5. Remembers(night[n])'
  BY <1>1, <1>2, <1>3, <1>4 DEF Remembers, e
<1>6. /\ e \notin night[n].rows
      /\ \A s \in OpenRuns : run[s].entry # e /\ run[s].entry \notin night[n].rows
  BY <1>1 DEF NothingOpenAhead, Ahead, Remembers, e
<1>7. OpenRuns' \subseteq OpenRuns \cup {r}
  BY <1>2 DEF OpenRuns
<1>8. NothingOpenAhead(night[n])'
  <2>1. ASSUME NEW s \in OpenRuns' PROVE run'[s].entry \notin m.rows
    <3>1. CASE s = r
      BY <1>2, <1>4, <1>6, <3>1
    <3>2. CASE s # r
      <4>1. s \in OpenRuns /\ run'[s] = run[s]
        BY <1>2, <1>7, <3>2 DEF OpenRuns
      <4> QED
        BY <1>4, <1>6, <4>1
    <3> QED
      BY <3>1, <3>2
  <2>2. night'[n] = m
    BY <1>3
  <2> QED
    BY <1>4, <2>1, <2>2 DEF NothingOpenAhead, Ahead
<1>9. OneOpenRunPerIdea'
  BY <1>2, <1>6, <1>7 DEF LoopInv, OneOpenRunPerIdea, OpenRuns
<1>10. HandedAreQueued'
  BY <1>1, <1>2 DEF LoopInv, HandedAreQueued
<1>11. ConsumedByARunThatUsedIt'
  BY <1>1, <1>2, ConsumedStays
<1> QED
  BY <1>1, <1>3, <1>5, <1>8, <1>9, <1>10, <1>11, TablesMove

\* The run is handed the answers of its own idea that are queued.
LEMMA ReadAnswersStep ==
    ASSUME LoopInv, TypeOK', NEW n \in Nights, ReadAnswers(n)
    PROVE  LoopInv'
<1> DEFINE r == night[n].run
           m == [night[n] EXCEPT !.pc = "walk"]
<1>1. /\ TypeOK /\ night[n] \in NightMemory /\ night[n].pc = "answers"
      /\ UNCHANGED <<decision, lock>>
      /\ Remembers(night[n]) /\ NothingOpenAhead(night[n])
  BY DEF LoopInv, TypeOK, NightsAgree, ReadAnswers
<1>2. r \in Runs /\ run[r].entry = night[n].entry /\ run[r].outcome = "open"
  BY <1>1 DEF Remembers
<1>3. /\ \A s \in Runs : s # r => run'[s] = run[s]
      /\ run'[r].outcome = "open" /\ run'[r].entry = run[r].entry
      /\ run'[r].used = QueuedForTonight(run[r].entry)
  BY <1>1, <1>2 DEF ReadAnswers, Handed, TypeOK, RunRow
<1>4. /\ night'[n] = m
      /\ \A k \in Nights \ {n} : night'[k] = night[k]
  BY <1>1 DEF ReadAnswers, TypeOK
<1>5. /\ m.pc = "walk" /\ m.run = r /\ m.toMark = {} /\ m.entry = night[n].entry
      /\ m.rows = night[n].rows
  BY <1>1 DEF Remembers, NightMemory
<1> HIDE DEF m, r
<1>6. Remembers(night[n])'
  BY <1>1, <1>2, <1>3, <1>4, <1>5 DEF Remembers
<1>7. OpenRuns' = OpenRuns /\ \A s \in Runs : run'[s].entry = run[s].entry
  BY <1>2, <1>3 DEF OpenRuns
<1>8. NothingOpenAhead(night[n])'
  BY <1>1, <1>4, <1>5, <1>7 DEF NothingOpenAhead, Ahead, OpenRuns
<1>9. OneOpenRunPerIdea'
  BY <1>7 DEF LoopInv, OneOpenRunPerIdea, OpenRuns
<1>10. HandedAreQueued'
  BY <1>1, <1>2, <1>3 DEF LoopInv, HandedAreQueued, QueuedForTonight
<1>11. ConsumedByARunThatUsedIt'
  BY <1>1, <1>2, <1>3, ConsumedStays
<1> QED
  BY <1>1, <1>4, <1>6, <1>8, <1>9, <1>10, <1>11, TablesMove

\* The run is closed by its own night; what it will mark is what it was handed.
LEMMA CloseRunStep ==
    ASSUME LoopInv, TypeOK', NEW n \in Nights, NEW v \in Outcomes, CloseRun(n, v)
    PROVE  LoopInv'
<1> DEFINE r == night[n].run
           marks == ToMark(r, v)
           m == [night[n] EXCEPT !.pc = "mark", !.verdict = v, !.toMark = marks]
<1>1. /\ TypeOK /\ night[n] \in NightMemory /\ night[n].pc = "walk"
      /\ UNCHANGED <<decision, lock>>
      /\ Remembers(night[n]) /\ NothingOpenAhead(night[n])
  BY DEF LoopInv, TypeOK, NightsAgree, CloseRun
<1>2. r \in Runs /\ run[r].entry = night[n].entry /\ run[r].outcome = "open"
  BY <1>1 DEF Remembers
<1>3. /\ \A s \in Runs : s # r => run'[s] = run[s]
      /\ run'[r].outcome = v /\ run'[r].entry = run[r].entry
      /\ run'[r].used = run[r].used
  BY <1>1, <1>2 DEF CloseRun, TypeOK, RunRow
<1>4. marks # {} => v = "worked" /\ marks = run[r].used
  BY DEF ToMark, Outcomes
<1>5. /\ night'[n] = m
      /\ \A k \in Nights \ {n} : night'[k] = night[k]
  BY <1>1 DEF CloseRun, TypeOK
<1> HIDE DEF marks
<1>6. /\ m.pc = "mark" /\ m.run = r /\ m.toMark = marks /\ m.entry = night[n].entry
      /\ m.rows = night[n].rows
  BY <1>1 DEF NightMemory
<1> HIDE DEF m, r
<1>7. Remembers(night[n])'
  BY <1>1, <1>2, <1>3, <1>4, <1>5, <1>6 DEF Remembers
<1>8. OpenRuns' \subseteq OpenRuns /\ \A s \in Runs : run'[s].entry = run[s].entry
  BY <1>2, <1>3 DEF OpenRuns, Outcomes
<1>9. NothingOpenAhead(night[n])'
  BY <1>1, <1>5, <1>6, <1>8 DEF NothingOpenAhead, Ahead, OpenRuns
<1>10. OneOpenRunPerIdea'
  BY <1>8 DEF LoopInv, OneOpenRunPerIdea, OpenRuns
<1>11. HandedAreQueued'
  BY <1>1, <1>2, <1>3 DEF LoopInv, HandedAreQueued
<1>12. ConsumedByARunThatUsedIt'
  BY <1>1, <1>2, <1>3, ConsumedStays
<1> QED
  BY <1>1, <1>5, <1>7, <1>9, <1>10, <1>11, <1>12, TablesMove

\* An answer is marked consumed by the run that was handed it and worked.
LEMMA MarkConsumedStep ==
    ASSUME LoopInv, TypeOK', NEW n \in Nights, NEW d \in Decisions, MarkConsumed(n, d)
    PROVE  LoopInv'
<1> DEFINE r == night[n].run
           left == night[n].toMark \ {d}
           m == [night[n] EXCEPT !.toMark = left]
<1>1. /\ TypeOK /\ night[n] \in NightMemory /\ night[n].pc = "mark"
      /\ d \in night[n].toMark /\ UNCHANGED <<run, lock>>
      /\ Remembers(night[n]) /\ NothingOpenAhead(night[n])
  BY DEF LoopInv, TypeOK, NightsAgree, MarkConsumed
<1>2. /\ r \in Runs /\ run[r].outcome = "worked"
      /\ d \in run[r].used /\ night[n].toMark \subseteq run[r].used
  BY <1>1 DEF Remembers
<1>3. /\ \A c \in Decisions : c # d => decision'[c] = decision[c]
      /\ decision'[d].status = decision[d].status
      /\ decision'[d].entry = decision[d].entry
      /\ decision'[d].consumedBy = r
  BY <1>1 DEF MarkConsumed, TypeOK, DecisionRow
<1>4. /\ night'[n] = m
      /\ \A k \in Nights \ {n} : night'[k] = night[k]
  BY <1>1 DEF MarkConsumed, TypeOK
<1>5. /\ m.pc = "mark" /\ m.run = r /\ m.toMark \subseteq run[r].used
      /\ m.entry = night[n].entry /\ m.rows = night[n].rows
  BY <1>1, <1>2 DEF NightMemory
<1> HIDE DEF m, r, left
<1>6. Remembers(night[n])'
  BY <1>1, <1>2, <1>4, <1>5 DEF Remembers, r
<1>7. NothingOpenAhead(night[n])'
  BY <1>1, <1>4, <1>5 DEF NothingOpenAhead, Ahead, OpenRuns
<1>8. OneOpenRunPerIdea'
  BY <1>1 DEF LoopInv, OneOpenRunPerIdea, OpenRuns
<1>9. HandedAreQueued'
  <2>1. \A s \in Runs : run[s].used \subseteq Decisions
    BY <1>1 DEF TypeOK, RunRow
  <2>2. \A x \in Decisions : /\ decision'[x].status = decision[x].status
                             /\ decision'[x].entry = decision[x].entry
    BY <1>3
  <2> QED
    BY <1>1, <2>1, <2>2 DEF LoopInv, HandedAreQueued
<1>10. ConsumedByARunThatUsedIt'
  <2>1. decision[d].status = "queued-for-tonight" /\ decision[d].entry = run[r].entry
    BY <1>2 DEF LoopInv, HandedAreQueued
  <2>2. ASSUME NEW c \in Decisions, decision'[c].consumedBy # NoRun
        PROVE  LET s == decision'[c].consumedBy
               IN  /\ run[s].outcome = "worked"
                   /\ c \in run[s].used
                   /\ run[s].entry = decision'[c].entry
                   /\ decision'[c].status = "queued-for-tonight"
    <3>1. CASE c = d
      BY <1>2, <1>3, <2>1, <3>1
    <3>2. CASE c # d
      BY <1>3, <2>2, <3>2 DEF LoopInv, ConsumedByARunThatUsedIt
    <3> QED
      BY <3>1, <3>2
  <2> QED
    BY <1>1, <2>2 DEF ConsumedByARunThatUsedIt
<1> QED
  BY <1>1, <1>4, <1>6, <1>7, <1>8, <1>9, <1>10, TablesMove

\* A question is asked about the idea the night has just worked, under an id no
\* run has been handed.
LEMMA AskQuestionStep ==
    ASSUME LoopInv, TypeOK', NEW n \in Nights, NEW d \in Decisions, AskQuestion(n, d)
    PROVE  LoopInv'
<1>1. /\ TypeOK /\ decision[d].status = "unasked" /\ night[n].pc = "ask"
      /\ UNCHANGED <<run, lock, night>>
  BY DEF LoopInv, AskQuestion
<1>2. /\ \A c \in Decisions : c # d => decision'[c] = decision[c]
      /\ decision'[d].consumedBy = NoRun
  BY <1>1 DEF AskQuestion, TypeOK
<1>3. Remembers(night[n])' /\ NothingOpenAhead(night[n])' /\ OneOpenRunPerIdea'
  BY <1>1 DEF LoopInv, NightsAgree, Remembers, NothingOpenAhead, Ahead, OpenRuns,
              OneOpenRunPerIdea
<1>4. HandedAreQueued'
  BY <1>1, <1>2 DEF LoopInv, HandedAreQueued, TypeOK, RunRow
<1>5. ConsumedByARunThatUsedIt'
  BY <1>1, <1>2 DEF LoopInv, ConsumedByARunThatUsedIt
<1> QED
  BY <1>1, <1>3, <1>4, <1>5, TablesMove

\* An answer is given to a question that has none: no run has been handed it.
LEMMA AnswerStep ==
    ASSUME LoopInv, TypeOK', NEW c \in Clients, NEW d \in Decisions,
           NEW s \in AnswerStatuses, Answer(c, d, s)
    PROVE  LoopInv'
<1>1. /\ TypeOK /\ decision[d].status = "open" /\ UNCHANGED <<run, lock, night>>
  BY DEF LoopInv, Answer, Answerable
<1>2. /\ \A x \in Decisions : x # d => decision'[x] = decision[x]
      /\ decision'[d].consumedBy = decision[d].consumedBy
  BY <1>1 DEF Answer, TypeOK, DecisionRow
<1>3. OnlyTheHolderRuns' /\ NightsAgree' /\ OneOpenRunPerIdea'
  BY <1>1 DEF LoopInv, OnlyTheHolderRuns, NightsAgree, Remembers, NothingOpenAhead,
              Ahead, OpenRuns, OneOpenRunPerIdea
<1>4. HandedAreQueued'
  BY <1>1, <1>2 DEF LoopInv, HandedAreQueued, TypeOK, RunRow
<1>5. ConsumedByARunThatUsedIt'
  BY <1>1, <1>2 DEF LoopInv, ConsumedByARunThatUsedIt
<1> QED
  BY <1>3, <1>4, <1>5 DEF LoopInv

\* Every step keeps the invariant.
LEMMA InvStep == LoopInv /\ [Next]_vars => LoopInv'
<1> SUFFICES ASSUME LoopInv, [Next]_vars PROVE LoopInv'
  OBVIOUS
<1>1. TypeOK'
  BY TypeStep
<1>2. ASSUME NEW n \in Nights, AcquireLock(n) \/ NightStep(n) \/ Bind(n) \/ Mishap(n)
      PROVE  LoopInv'
  BY <1>1, <1>2, QuietSteps, LeavingSteps, RecoverRunStep, OpenRunStep,
     ReadAnswersStep, CloseRunStep, MarkConsumedStep
  DEF NightStep, Bind, Mishap
<1>3. ASSUME NEW c \in Clients, ClientStep(c) \/ AbandonAnswer(c)
      PROVE  LoopInv'
  BY <1>1, <1>3, NothingMoves DEF ClientStep, Look, ReadForRequeue, Requeue, AbandonAnswer
<1>4. ASSUME NEW e \in Entries, Capture(e) PROVE LoopInv'
  BY <1>1, <1>4, NothingMoves DEF Capture
<1>5. CASE UNCHANGED vars
  BY <1>1, <1>5, NothingMoves DEF vars
<1> QED
  BY <1>1, <1>2, <1>3, <1>4, <1>5, AskQuestionStep, AnswerStep DEF Next

\* LoopInv holds of every reachable state.
LEMMA LoopInvariant == Spec => []LoopInv
BY InvInit, InvStep, PTL DEF Spec

-----------------------------------------------------------------------------
(* What follows from it.                                                   *)

\* Every value the night and the API write is one the schema admits.
THEOREM TypeCorrect == Spec => []TypeOK
<1>1. LoopInv => TypeOK
  BY DEF LoopInv
<1> QED
  BY <1>1, LoopInvariant, PTL

\* However many nights are killed, however many statements raise and however
\* many requests race them, no idea ever has two runs in flight.
THEOREM OneRunAtATime == Spec => []OneOpenRunPerIdea
<1>1. LoopInv => OneOpenRunPerIdea
  BY DEF LoopInv
<1> QED
  BY <1>1, LoopInvariant, PTL

\* An answer marked consumed was used, by a run of its own idea that worked.
THEOREM ConsumedWasUsed == Spec => []ConsumedByARunThatUsedIt
<1>1. LoopInv => ConsumedByARunThatUsedIt
  BY DEF LoopInv
<1> QED
  BY <1>1, LoopInvariant, PTL

\* No answer reaches the stages of another idea's run.
THEOREM AnswersStayHome == Spec => []AnswersStayWithTheirIdea
<1>1. LoopInv => AnswersStayWithTheirIdea
  BY DEF LoopInv, HandedAreQueued, AnswersStayWithTheirIdea
<1> QED
  BY <1>1, LoopInvariant, PTL

-----------------------------------------------------------------------------
(* What no step may do, and the ledger.                                    *)

\* The steps that write a run or a question, and no other, by name.
LEMMA TableSteps ==
    ASSUME [Next]_vars
    PROVE  \/ UNCHANGED <<run, decision>>
           \/ \E n \in Nights :
                 \/ \E r \in Runs : RecoverRun(n, r) \/ OpenRun(n, r)
                 \/ ReadAnswers(n)
                 \/ \E v \in Outcomes : CloseRun(n, v)
                 \/ \E d \in Decisions : MarkConsumed(n, d) \/ AskQuestion(n, d)
           \/ \E c \in Clients, d \in Decisions, s \in AnswerStatuses : Answer(c, d, s)
BY DEF Next, NightStep, Bind, Mishap, ClientStep, Capture, AcquireLock,
       SelectStuckEntries, RecoverEntry, RecoverEntryRefused, RecoveryDone, BindRefused,
       BindAll, BindOne, Dispatch, ReadForRelease, ReleaseRefused, Release, AskingDone,
       NightDone, Crash, StartFails, DispatchFails, EscapesWithoutRelease, CloseRunFails,
       MarkConsumedFails, Look, ReadForRequeue, Requeue, AbandonAnswer, vars

\* What handing out the answers does to the run in hand.
LEMMA ReadAnswersWrites ==
    ASSUME LoopInv, NEW n \in Nights, ReadAnswers(n)
    PROVE  /\ night[n].run \in Runs
           /\ run[night[n].run].outcome = "open" /\ run[night[n].run].used = {}
           /\ run' = [run EXCEPT ![night[n].run].used =
                                    QueuedForTonight(run[night[n].run].entry)]
           /\ decision' = decision
<1>1. /\ night[n].run \in Runs /\ run[night[n].run].entry = night[n].entry
      /\ run[night[n].run].outcome = "open" /\ run[night[n].run].used = {}
  BY DEF LoopInv, NightsAgree, Remembers, ReadAnswers
<1> QED
  BY <1>1 DEF ReadAnswers, Handed

\* What closing does to the run in hand.
LEMMA CloseRunWrites ==
    ASSUME LoopInv, NEW n \in Nights, NEW v \in Outcomes, CloseRun(n, v)
    PROVE  /\ night[n].run \in Runs /\ run[night[n].run].outcome = "open"
           /\ run' = [run EXCEPT ![night[n].run].outcome = v]
           /\ decision' = decision
BY DEF LoopInv, NightsAgree, Remembers, CloseRun

\* No step overwrites what has been recorded.
LEMMA FinalStep ==
    ASSUME LoopInv, [Next]_vars
    PROVE  /\ \A d \in Decisions :
                /\ decision[d].status \in AnswerStatuses =>
                     decision'[d].status = decision[d].status
                /\ decision[d].consumedBy # NoRun =>
                     decision'[d].consumedBy = decision[d].consumedBy
           /\ \A r \in Runs : run[r].outcome \in Outcomes => run'[r] = run[r]
<1> DEFINE Final == /\ \A d \in Decisions :
                         /\ decision[d].status \in AnswerStatuses =>
                              decision'[d].status = decision[d].status
                         /\ decision[d].consumedBy # NoRun =>
                              decision'[d].consumedBy = decision[d].consumedBy
                    /\ \A r \in Runs : run[r].outcome \in Outcomes => run'[r] = run[r]
<1>1. run \in [Runs -> RunRow] /\ decision \in [Decisions -> DecisionRow]
  BY DEF LoopInv, TypeOK
<1>2. ASSUME NEW r \in Runs, run[r].outcome \notin Outcomes, decision' = decision,
             \A s \in Runs \ {r} : run'[s] = run[s]
      PROVE  Final
  BY <1>2
<1>3. CASE UNCHANGED <<run, decision>>
  BY <1>3
<1>4. ASSUME NEW n \in Nights, NEW r \in Runs, RecoverRun(n, r) \/ OpenRun(n, r)
      PROVE  Final
  <2>1. /\ run[r].outcome \notin Outcomes /\ decision' = decision
        /\ \A s \in Runs \ {r} : run'[s] = run[s]
    BY <1>1, <1>4 DEF RecoverRun, Interrupted, OpenRuns, OpenRun, Outcomes
  <2> QED
    BY <1>2, <2>1
<1>5. ASSUME NEW n \in Nights, ReadAnswers(n) \/ \E v \in Outcomes : CloseRun(n, v)
      PROVE  Final
  <2> DEFINE r == night[n].run
  <2>1. /\ r \in Runs /\ run[r].outcome \notin Outcomes /\ decision' = decision
        /\ \A s \in Runs \ {r} : run'[s] = run[s]
    <3>1. r \in Runs
      BY <1>5, ReadAnswersWrites, CloseRunWrites
    <3>2. run[r].outcome = "open" /\ decision' = decision
      BY <1>5, ReadAnswersWrites, CloseRunWrites
    <3>3. ASSUME ReadAnswers(n) PROVE \A s \in Runs \ {r} : run'[s] = run[s]
      BY <1>1, <3>3 DEF ReadAnswers
    <3>4. ASSUME NEW v \in Outcomes, CloseRun(n, v)
          PROVE  \A s \in Runs \ {r} : run'[s] = run[s]
      BY <1>1, <3>4 DEF CloseRun
    <3> QED
      BY <1>5, <3>1, <3>2, <3>3, <3>4 DEF Outcomes
  <2> HIDE DEF r
  <2> QED
    BY <1>2, <2>1
<1>6. ASSUME NEW n \in Nights, NEW d \in Decisions, MarkConsumed(n, d)
      PROVE  Final
  <2>1. /\ run' = run /\ decision[d].consumedBy = NoRun
        /\ decision'[d].status = decision[d].status
        /\ \A c \in Decisions \ {d} : decision'[c] = decision[c]
    BY <1>1, <1>6 DEF MarkConsumed, DecisionRow
  <2> QED
    BY <2>1
<1>7. ASSUME NEW n \in Nights, NEW d \in Decisions, AskQuestion(n, d)
      PROVE  Final
  <2>1. /\ run' = run /\ decision[d].status = "unasked"
        /\ \A c \in Decisions \ {d} : decision'[c] = decision[c]
    BY <1>1, <1>7 DEF AskQuestion
  <2>2. decision[d].consumedBy = NoRun
    BY <2>1 DEF LoopInv, ConsumedByARunThatUsedIt
  <2> QED
    BY <2>1, <2>2 DEF AnswerStatuses
<1>8. ASSUME NEW c \in Clients, NEW d \in Decisions, NEW s \in AnswerStatuses,
             Answer(c, d, s)
      PROVE  Final
  <2>1. /\ run' = run /\ decision[d].status = "open"
        /\ decision'[d].consumedBy = decision[d].consumedBy
        /\ \A x \in Decisions \ {d} : decision'[x] = decision[x]
    BY <1>1, <1>8 DEF Answer, Answerable, DecisionRow
  <2> QED
    BY <2>1 DEF AnswerStatuses
<1>9. Final
  BY <1>3, <1>4, <1>5, <1>6, <1>7, <1>8, TableSteps
<1> QED
  BY <1>9

\* What is recorded is final: no step overwrites an answer, a consumption or
\* the row of a closed run.
THEOREM RecordsStayFinal == Spec => RecordsAreFinal
<1>1. LoopInv /\ [Next]_vars =>
        [/\ \A d \in Decisions :
               /\ decision[d].status \in AnswerStatuses =>
                    decision'[d].status = decision[d].status
               /\ decision[d].consumedBy # NoRun =>
                    decision'[d].consumedBy = decision[d].consumedBy
         /\ \A r \in Runs : run[r].outcome \in Outcomes => run'[r] = run[r]]_vars
  BY FinalStep
<1> QED
  BY <1>1, LoopInvariant, PTL DEF Spec, RecordsAreFinal

\* Only the night that works a run closes it, and that is when it moves on to
\* mark what the run consumed.
LEMMA ClosingStep ==
    ASSUME LoopInv, [Next]_vars, NEW n \in Nights, NEW r \in Runs,
           run[r].outcome = "open", night[n].run = r, run'[r].outcome # "open"
    PROVE  night'[n].pc = "mark"
<1>1. run \in [Runs -> RunRow] /\ night \in [Nights -> NightMemory]
  BY DEF LoopInv, TypeOK
<1>2. night[n].pc \notin {"down", "recoverRuns"}
  BY ConstantsAssumption DEF LoopInv, NightsAgree, Remembers
<1>3. \A k \in Nights \ {n} : night[k].pc = "down"
  BY <1>2, Alone
<1>4. ASSUME NEW k \in Nights, NEW s \in Runs, RecoverRun(k, s) \/ OpenRun(k, s)
      PROVE  FALSE
  <2>1. CASE RecoverRun(k, s)
    BY <1>2, <1>3, <2>1 DEF RecoverRun
  <2>2. CASE OpenRun(k, s)
    BY <1>1, <2>2 DEF OpenRun
  <2> QED
    BY <1>4, <2>1, <2>2
<1>5. ASSUME NEW k \in Nights, ReadAnswers(k) PROVE FALSE
  <2>1. run'[r].outcome = run[r].outcome
    BY <1>1, <1>5 DEF ReadAnswers, RunRow
  <2> QED
    BY <2>1
<1>6. ASSUME NEW k \in Nights, NEW v \in Outcomes, CloseRun(k, v)
      PROVE  night'[n].pc = "mark"
  <2>1. k = n
    BY <1>3, <1>6 DEF CloseRun
  <2>2. night'[k].pc = "mark"
    BY <1>1, <1>6 DEF CloseRun, NightMemory
  <2> QED
    BY <2>1, <2>2
<1>7. ~ UNCHANGED <<run, decision>>
  OBVIOUS
<1> QED
  BY <1>4, <1>5, <1>6, <1>7, TableSteps DEF MarkConsumed, AskQuestion, Answer

\* Recovery never closes a live night's run: a run in flight is closed by the
\* night that is working it.
THEOREM RecoveryLeavesLiveRuns == Spec => LiveRunIsClosedByItsNight
<1>1. LoopInv /\ [Next]_vars =>
        [\A n \in Nights : \A r \in OpenRuns :
           night[n].run = r /\ run'[r].outcome # "open" => night'[n].pc = "mark"]_vars
  BY ClosingStep DEF OpenRuns
<1> QED
  BY <1>1, LoopInvariant, PTL DEF Spec, LiveRunIsClosedByItsNight

\* The tables start as the ledger's.
LEMMA LedgerInit == Init => Ledger!Init
BY DEF Init, NoRow, Unasked, Ledger!Init

\* A step that writes a run is the ledger's Start, HandAnswers or End.
LEMMA LedgerRuns ==
    ASSUME LoopInv, NEW n \in Nights,
           \/ \E r \in Runs : RecoverRun(n, r) \/ OpenRun(n, r)
           \/ ReadAnswers(n)
           \/ \E v \in Outcomes : CloseRun(n, v)
    PROVE  Ledger!Next
<1>1. ASSUME NEW r \in Runs, RecoverRun(n, r) PROVE Ledger!Next
  <2>1. Ledger!End(r, "failed")
    BY <1>1 DEF RecoverRun, Interrupted, OpenRuns, Ledger!End
  <2> QED
    BY <2>1 DEF Ledger!Next
<1>2. ASSUME NEW r \in Runs, OpenRun(n, r) PROVE Ledger!Next
  <2>1. night[n].entry \in Entries
    BY <1>2 DEF OpenRun, LoopInv, NightsAgree, Remembers
  <2>2. Ledger!InFlight(night[n].entry) = {}
    BY <1>2 DEF OpenRun, LoopInv, NightsAgree, NothingOpenAhead, Ahead, OpenRuns,
                Ledger!InFlight
  <2>3. Ledger!Start(r, night[n].entry)
    BY <1>2, <2>2 DEF OpenRun, Ledger!Start
  <2> QED
    BY <2>1, <2>3 DEF Ledger!Next
<1>3. ASSUME ReadAnswers(n) PROVE Ledger!Next
  <2> DEFINE r == night[n].run
  <2>1. r \in Runs
    BY <1>3, ReadAnswersWrites
  <2>2. Ledger!HandAnswers(r)
    BY <1>3, ReadAnswersWrites
    DEF Ledger!HandAnswers, Ledger!Waiting, QueuedForTonight
  <2> QED
    BY <2>1, <2>2 DEF Ledger!Next
<1>4. ASSUME NEW v \in Outcomes, CloseRun(n, v) PROVE Ledger!Next
  <2> DEFINE r == night[n].run
  <2>1. r \in Runs
    BY <1>4, CloseRunWrites
  <2>2. Ledger!End(r, v)
    BY <1>4, CloseRunWrites DEF Ledger!End
  <2> QED
    BY <2>1, <2>2 DEF Ledger!Next, Outcomes
<1> QED
  BY <1>1, <1>2, <1>3, <1>4

\* A step that writes a question is the ledger's Ask, Answer or Consume.
LEMMA LedgerDecisions ==
    ASSUME LoopInv, NEW d \in Decisions,
           \/ \E n \in Nights : MarkConsumed(n, d) \/ AskQuestion(n, d)
           \/ \E c \in Clients, s \in AnswerStatuses : Answer(c, d, s)
    PROVE  Ledger!Next
<1>1. ASSUME NEW n \in Nights, MarkConsumed(n, d) PROVE Ledger!Next
  <2> DEFINE r == night[n].run
  <2>1. /\ r \in Runs /\ run[r].outcome = "worked" /\ d \in run[r].used
        /\ decision[d].consumedBy = NoRun
    BY <1>1 DEF MarkConsumed, LoopInv, NightsAgree, Remembers
  <2>2. decision[d].status = "queued-for-tonight" /\ decision[d].entry = run[r].entry
    BY <2>1 DEF LoopInv, HandedAreQueued
  <2>3. Ledger!Consume(d, r)
    BY <1>1, <2>1, <2>2 DEF MarkConsumed, Ledger!Consume, Ledger!Waiting
  <2> QED
    BY <2>1, <2>3 DEF Ledger!Next
<1>2. ASSUME NEW n \in Nights, AskQuestion(n, d) PROVE Ledger!Next
  <2>1. night[n].entry \in Entries
    BY <1>2 DEF AskQuestion, LoopInv, NightsAgree, Remembers
  <2>2. Ledger!Ask(d, night[n].entry)
    BY <1>2 DEF AskQuestion, Ledger!Ask
  <2> QED
    BY <2>1, <2>2 DEF Ledger!Next
<1>3. ASSUME NEW c \in Clients, NEW s \in AnswerStatuses, Answer(c, d, s)
      PROVE  Ledger!Next
  <2>1. Ledger!Answer(d, s)
    BY <1>3 DEF Answer, Answerable, Ledger!Answer
  <2> QED
    BY <2>1 DEF Ledger!Next, AnswerStatuses
<1> QED
  BY <1>1, <1>2, <1>3

\* Every step of the loop is a step of the ledger, or leaves it as it is.
LEMMA LedgerStep == LoopInv /\ [Next]_vars => [Ledger!Next]_(Ledger!ledger)
<1> SUFFICES ASSUME LoopInv, [Next]_vars,
                    ~ UNCHANGED <<run, decision>>
             PROVE  Ledger!Next
  BY DEF Ledger!ledger
<1> QED
  BY TableSteps, LedgerRuns, LedgerDecisions

\* The night, the mornings, and everything that goes wrong between them
\* implement the ledger a person reads.
THEOREM ImplementsTheLedger == Spec => KeepsTheLedger
BY LedgerInit, LedgerStep, LoopInvariant, PTL DEF Spec, KeepsTheLedger, Ledger!Spec
-----------------------------------------------------------------------------
(* No idea is left running.                                                *)

AtAnEntry == {"open", "answers", "walk", "mark", "release", "ask"}

\* A night away from the entries names none, and a release sends its entry
\* somewhere else than `running`.
NamesItsEntry(m) ==
    /\ m.pc \notin AtAnEntry => m.entry = NoEntry
    /\ m.pc = "release" => m.target \in {"queued", "answered"}

\* What a night with memory m has left running: what recovery still has to
\* return, or the entry in hand, or nothing.
LeavesRunning(m) ==
    /\ m.pc = "recoverEntries" => RunningEntries \subseteq m.rows
    /\ m.pc \in {"bind", "pick", "ask"} => RunningEntries = {}
    /\ m.pc \in AtAnEntry => RunningEntries \subseteq {m.entry}

RunningInv ==
    /\ \A n \in Nights : NamesItsEntry(night[n])
    /\ mishaps.fault = 0 =>
         /\ \A n \in Nights : LeavesRunning(night[n])
         /\ mishaps.crash = 0 =>
              \A e \in RunningEntries : \E n \in Nights : night[n].entry = e
\* Nothing is running at the start.
LEMMA RunningInit == Init => RunningInv
BY DEF Init, RunningInv, NamesItsEntry, LeavesRunning, RunningEntries, Down

\* While no other night is up, what is running is the entry in this one's hands,
\* or was left by a mishap.
LEMMA OnlyItsEntryRuns ==
    ASSUME LoopInv, RunningInv, NEW n \in Nights,
           \A k \in Nights \ {n} : night[k].pc = "down",
           mishaps.fault = 0, mishaps.crash = 0
    PROVE  RunningEntries \subseteq {night[n].entry}
<1>1. \A k \in Nights \ {n} : night[k].entry = NoEntry
  BY DEF RunningInv, NamesItsEntry, AtAnEntry
<1>2. ASSUME NEW e \in RunningEntries PROVE e = night[n].entry
  <2>1. PICK k \in Nights : night[k].entry = e
    BY DEF RunningInv
  <2>2. e # NoEntry
    BY ConstantsAssumption DEF RunningEntries
  <2> QED
    BY <1>1, <2>1, <2>2
<1> QED
  BY <1>2

\* A step of the one night that is up: only what it names and what it leaves
\* running has to be shown.
LEMMA OneNightRuns ==
    ASSUME RunningInv, NEW n \in Nights,
           \A k \in Nights \ {n} : night[k].pc = "down" /\ night'[k] = night[k],
           NamesItsEntry(night'[n]),
           mishaps'.fault = 0 =>
             /\ LeavesRunning(night[n])'
             /\ mishaps'.crash = 0 => RunningEntries' \subseteq {night'[n].entry}
    PROVE  RunningInv'
<1>1. ASSUME NEW k \in Nights \ {n} PROVE NamesItsEntry(night'[k])
  BY DEF RunningInv
<1>2. ASSUME NEW k \in Nights \ {n} PROVE LeavesRunning(night[k])'
  <2>1. night'[k].pc = "down"
    OBVIOUS
  <2> QED
    BY <2>1 DEF LeavesRunning, AtAnEntry
<1> QED
  BY <1>1, <1>2 DEF RunningInv

\* A night that only reads, or writes no status: what is running stays.
LEMMA RunningQuiet ==
    ASSUME LoopInv, RunningInv, NEW n \in Nights, UNCHANGED <<entryStatus, mishaps>>,
           \/ \E r \in Runs : RecoverRun(n, r) \/ OpenRun(n, r)
           \/ AcquireLock(n) \/ SelectStuckEntries(n) \/ RecoveryDone(n)
           \/ ReadAnswers(n) \/ ReadForRelease(n) \/ ReleaseRefused(n)
           \/ \E v \in Outcomes : CloseRun(n, v)
           \/ \E d \in Decisions : MarkConsumed(n, d) \/ AskQuestion(n, d)
           \/ AskingDone(n) \/ NightDone(n) \/ Bind(n)
           \/ \E e \in Entries : RecoverEntryRefused(n, e)
    PROVE  RunningInv'
<1>1. /\ night \in [Nights -> NightMemory] /\ night[n] \in NightMemory
      /\ NamesItsEntry(night[n])
      /\ mishaps.fault = 0 => LeavesRunning(night[n])
      /\ RunningEntries' = RunningEntries
  BY DEF LoopInv, TypeOK, RunningInv, RunningEntries
<1>2. \A k \in Nights \ {n} : night[k].pc = "down"
  <2>1. CASE AcquireLock(n)
    BY <2>1, ConstantsAssumption DEF AcquireLock, LockIsFree, LoopInv, OnlyTheHolderRuns
  <2>2. CASE ~AcquireLock(n)
    <3>1. night[n].pc # "down"
      BY <2>2 DEF RecoverRun, OpenRun, SelectStuckEntries, RecoveryDone, ReadAnswers,
            ReadForRelease, ReleaseRefused, CloseRun, MarkConsumed, AskQuestion,
            AskingDone, NightDone, Bind, BindRefused, BindAll, BindOne,
            RecoverEntryRefused
    <3> QED
      BY <3>1, Alone
  <2> QED
    BY <2>1, <2>2
<1>3. /\ mishaps.fault = 0 /\ mishaps.crash = 0 =>
           RunningEntries \subseteq {night[n].entry}
      /\ NoEntry \notin RunningEntries
  BY <1>2, OnlyItsEntryRuns, ConstantsAssumption DEF RunningEntries
<1>4. ASSUME NEW m, night' = [night EXCEPT ![n] = m], NamesItsEntry(m),
             mishaps.fault = 0 =>
               /\ LeavesRunning(m)
               /\ mishaps.crash = 0 => RunningEntries \subseteq {m.entry}
      PROVE  RunningInv'
  <2>1. night'[n] = m /\ \A k \in Nights \ {n} : night'[k] = night[k]
    BY <1>1, <1>4
  <2>2. mishaps.fault = 0 => LeavesRunning(night[n])'
    BY <1>1, <1>4, <2>1 DEF LeavesRunning
  <2> QED
    BY <1>1, <1>2, <1>4, <2>1, <2>2, OneNightRuns
<1>5. ASSUME night' = [night EXCEPT ![n] = Down],
             mishaps.fault = 0 /\ mishaps.crash = 0 => RunningEntries = {}
      PROVE  RunningInv'
  <2>1. Down.pc = "down" /\ Down.entry = NoEntry
    BY DEF Down
  <2>2. NamesItsEntry(Down) /\ LeavesRunning(Down)
    BY <2>1 DEF NamesItsEntry, LeavesRunning, AtAnEntry
  <2> QED
    BY <1>4, <1>5, <2>2
<1>6. ASSUME NEW rows, night' = [night EXCEPT ![n] = BetweenEntries(rows)],
             mishaps.fault = 0 => RunningEntries = {}
      PROVE  RunningInv'
  <2> DEFINE m == BetweenEntries(rows)
  <2>1. m.pc = "pick" /\ m.entry = NoEntry
    BY DEF BetweenEntries, Down
  <2> HIDE DEF m
  <2>2. NamesItsEntry(m) /\ (mishaps.fault = 0 => LeavesRunning(m))
    BY <1>6, <2>1 DEF NamesItsEntry, LeavesRunning, AtAnEntry
  <2> QED
    BY <1>4, <1>6, <2>2 DEF m
<1>7. ASSUME NEW r \in Runs, RecoverRun(n, r) PROVE RunningInv'
  <2>1. night' = [night EXCEPT ![n] = night[n]]
    BY <1>1, <1>7 DEF RecoverRun
  <2> QED
    BY <1>1, <1>3, <1>4, <2>1
<1>8. ASSUME NEW d \in Decisions, AskQuestion(n, d) PROVE RunningInv'
  <2>1. night' = [night EXCEPT ![n] = night[n]]
    BY <1>1, <1>8 DEF AskQuestion
  <2> QED
    BY <1>1, <1>3, <1>4, <2>1
<1>9. ASSUME NEW m, night' = [night EXCEPT ![n] = m], m.entry = night[n].entry,
             \/ night[n].pc \in AtAnEntry \ {"ask"} /\ m.pc \in AtAnEntry \ {"ask"}
             \/ night[n].pc \in {"down", "recoverRuns"} /\ m.pc = "recoverRuns"
             \/ m.pc = "recoverEntries" /\ RunningEntries \subseteq m.rows
                  /\ night[n].pc = "recoverRuns"
             \/ night[n].pc = "recoverEntries" /\ night[n].rows = {} /\ m.pc = "bind",
             m.pc = "release" => m.target \in {"queued", "answered"}
      PROVE  RunningInv'
  <2>1. NamesItsEntry(m)
    BY <1>1, <1>9 DEF NamesItsEntry, AtAnEntry
  <2>2. mishaps.fault = 0 => LeavesRunning(m)
    BY <1>1, <1>9 DEF LeavesRunning, AtAnEntry
  <2> QED
    BY <1>3, <1>4, <1>9, <2>1, <2>2
<1>10. ASSUME AcquireLock(n) \/ SelectStuckEntries(n) \/ RecoveryDone(n)
       PROVE  RunningInv'
  <2>1. CASE AcquireLock(n)
    <3> DEFINE m == [night[n] EXCEPT !.pc = "recoverRuns"]
    <3>1. m.pc = "recoverRuns" /\ m.entry = night[n].entry /\ night[n].pc = "down"
      BY <1>1, <2>1 DEF AcquireLock, NightMemory
    <3>2. night' = [night EXCEPT ![n] = m]
      BY <2>1 DEF AcquireLock
    <3> HIDE DEF m
    <3> QED
      BY <1>9, <3>1, <3>2
  <2>2. CASE SelectStuckEntries(n)
    <3> DEFINE m == [night[n] EXCEPT !.pc = "recoverEntries", !.rows = Stuck]
    <3>1. /\ m.pc = "recoverEntries" /\ m.entry = night[n].entry /\ m.rows = RunningEntries
          /\ night[n].pc = "recoverRuns"
      BY <1>1, <2>2 DEF SelectStuckEntries, NightMemory, Stuck
    <3>2. night' = [night EXCEPT ![n] = m]
      BY <2>2 DEF SelectStuckEntries
    <3> HIDE DEF m
    <3> QED
      BY <1>9, <3>1, <3>2
  <2>3. CASE RecoveryDone(n)
    <3> DEFINE m == [night[n] EXCEPT !.pc = "bind"]
    <3>1. /\ m.pc = "bind" /\ m.entry = night[n].entry
          /\ night[n].pc = "recoverEntries" /\ night[n].rows = {}
      BY <1>1, <2>3 DEF RecoveryDone, NightMemory
    <3>2. night' = [night EXCEPT ![n] = m]
      BY <2>3 DEF RecoveryDone
    <3> HIDE DEF m
    <3> QED
      BY <1>9, <3>1, <3>2
  <2> QED
    BY <1>10, <2>1, <2>2, <2>3
<1>11. ASSUME NEW r \in Runs, OpenRun(n, r) PROVE RunningInv'
  <2> DEFINE m == [night[n] EXCEPT !.pc = "answers", !.run = r]
  <2>1. m.pc = "answers" /\ m.entry = night[n].entry /\ night[n].pc = "open"
    BY <1>1, <1>11 DEF OpenRun, NightMemory
  <2>2. night' = [night EXCEPT ![n] = m]
    BY <1>11 DEF OpenRun
  <2> HIDE DEF m
  <2> QED
    BY <1>9, <2>1, <2>2 DEF AtAnEntry
<1>12. ASSUME ReadAnswers(n) PROVE RunningInv'
  <2> DEFINE m == [night[n] EXCEPT !.pc = "walk"]
  <2>1. m.pc = "walk" /\ m.entry = night[n].entry /\ night[n].pc = "answers"
    BY <1>1, <1>12 DEF ReadAnswers, NightMemory
  <2>2. night' = [night EXCEPT ![n] = m]
    BY <1>12 DEF ReadAnswers
  <2> HIDE DEF m
  <2> QED
    BY <1>9, <2>1, <2>2 DEF AtAnEntry
<1>13. ASSUME NEW v \in Outcomes, CloseRun(n, v) PROVE RunningInv'
  <2> DEFINE m == [night[n] EXCEPT !.pc = "mark", !.verdict = v,
                                      !.toMark = ToMark(night[n].run, v)]
  <2>1. m.pc = "mark" /\ m.entry = night[n].entry /\ night[n].pc = "walk"
    BY <1>1, <1>13 DEF CloseRun, NightMemory
  <2>2. night' = [night EXCEPT ![n] = m]
    BY <1>13 DEF CloseRun
  <2> HIDE DEF m
  <2> QED
    BY <1>9, <2>1, <2>2 DEF AtAnEntry
<1>14. ASSUME NEW d \in Decisions, MarkConsumed(n, d) PROVE RunningInv'
  <2> DEFINE m == [night[n] EXCEPT !.toMark = @ \ {d}]
  <2>1. m.pc = "mark" /\ m.entry = night[n].entry /\ night[n].pc = "mark"
    BY <1>1, <1>14 DEF MarkConsumed, NightMemory
  <2>2. night' = [night EXCEPT ![n] = m]
    BY <1>1, <1>14 DEF MarkConsumed
  <2> HIDE DEF m
  <2> QED
    BY <1>9, <2>1, <2>2 DEF AtAnEntry
<1>15. ASSUME ReadForRelease(n) PROVE RunningInv'
  <2> DEFINE to == ReleaseTo(night[n].entry, night[n].verdict)
             m == [night[n] EXCEPT !.pc = "release", !.target = to]
  <2>1. to \in {"queued", "answered"}
    BY DEF ReleaseTo
  <2>2. night' = [night EXCEPT ![n] = m]
    BY <1>15 DEF ReadForRelease
  <2> HIDE DEF to
  <2>3. /\ m.pc = "release" /\ m.entry = night[n].entry /\ m.target = to
        /\ night[n].pc = "mark"
    BY <1>1, <1>15 DEF ReadForRelease, NightMemory
  <2> HIDE DEF m
  <2> QED
    BY <1>9, <2>1, <2>2, <2>3 DEF AtAnEntry
<1>16. ASSUME ReleaseRefused(n) PROVE RunningInv'
  <2> DEFINE e == night[n].entry
  <2>1. entryStatus[e] # "running"
    BY <1>16 DEF ReleaseRefused, ReleaseTo, Permitted, EntryTransitions
  <2>2. mishaps.fault = 0 => RunningEntries \subseteq {e}
    BY <1>1, <1>16 DEF ReleaseRefused, LeavesRunning, AtAnEntry
  <2>3. mishaps.fault = 0 => RunningEntries = {}
    BY <2>1, <2>2 DEF RunningEntries
  <2> QED
    BY <1>6, <1>16, <2>3 DEF ReleaseRefused
<1>17. ASSUME AskingDone(n) \/ \E rows : /\ night[n].pc = "bind"
                                         /\ night' = [night EXCEPT ![n] = BetweenEntries(rows)]
       PROVE  RunningInv'
  <2>1. mishaps.fault = 0 => RunningEntries = {}
    BY <1>1, <1>17 DEF AskingDone, LeavesRunning
  <2> QED
    BY <1>6, <1>17, <2>1 DEF AskingDone
<1>18. ASSUME \/ NightDone(n) \/ BindRefused(n)
              \/ \E e \in Entries : RecoverEntryRefused(n, e)
       PROVE  RunningInv'
  <2>1. night[n].pc \notin AtAnEntry
    BY <1>18 DEF NightDone, BindRefused, RecoverEntryRefused, AtAnEntry
  <2>2. mishaps.fault = 0 /\ mishaps.crash = 0 => RunningEntries = {}
    BY <1>1, <1>3, <2>1 DEF NamesItsEntry
  <2> QED
    BY <1>5, <1>18, <2>2 DEF NightDone, BindRefused, RecoverEntryRefused, Exit
<1> QED
  BY <1>7, <1>8, <1>10, <1>11, <1>12, <1>13, <1>14, <1>15, <1>16, <1>17, <1>18
  DEF Bind, BindAll, BindOne

\* A status is written by the night that has the entry, or by a request that
\* re-queues it; only the dispatch of a night makes an entry running.
LEMMA RunningWrites ==
    ASSUME LoopInv, RunningInv, NEW n \in Nights, mishaps' = mishaps,
           \/ \E e \in Entries : RecoverEntry(n, e) \/ Dispatch(n, e)
           \/ Release(n)
    PROVE  RunningInv'
<1>1. /\ night \in [Nights -> NightMemory] /\ night[n] \in NightMemory
      /\ NamesItsEntry(night[n])
      /\ entryStatus \in [Entries -> EntryStatuses]
      /\ mishaps.fault = 0 => LeavesRunning(night[n])
  BY DEF LoopInv, TypeOK, RunningInv
<1>2. \A k \in Nights \ {n} : night[k].pc = "down"
  BY Alone DEF RecoverEntry, Dispatch, Release
<1>3. /\ mishaps.fault = 0 /\ mishaps.crash = 0 =>
           RunningEntries \subseteq {night[n].entry}
      /\ NoEntry \notin RunningEntries
  BY <1>2, OnlyItsEntryRuns, ConstantsAssumption DEF RunningEntries
<1>4. ASSUME NEW m, night' = [night EXCEPT ![n] = m], NamesItsEntry(m),
             mishaps.fault = 0 =>
               /\ m.pc = "recoverEntries" => RunningEntries' \subseteq m.rows
               /\ m.pc \in {"bind", "pick", "ask"} => RunningEntries' = {}
               /\ m.pc \in AtAnEntry => RunningEntries' \subseteq {m.entry}
               /\ mishaps.crash = 0 => RunningEntries' \subseteq {m.entry}
      PROVE  RunningInv'
  <2>1. night'[n] = m /\ \A k \in Nights \ {n} : night'[k] = night[k]
    BY <1>1, <1>4
  <2>2. mishaps.fault = 0 => LeavesRunning(night[n])'
    BY <1>4, <2>1 DEF LeavesRunning
  <2> QED
    BY <1>2, <1>4, <2>1, <2>2, OneNightRuns
<1>5. ASSUME NEW e \in Entries, RecoverEntry(n, e) PROVE RunningInv'
  <2> DEFINE m == [night[n] EXCEPT !.rows = @ \ {e}]
  <2>1. /\ m.pc = "recoverEntries" /\ night[n].pc = "recoverEntries"
        /\ m.entry = NoEntry /\ m.rows = night[n].rows \ {e}
    BY <1>1, <1>5 DEF RecoverEntry, NightMemory, NamesItsEntry, AtAnEntry
  <2>2. night' = [night EXCEPT ![n] = m]
    BY <1>1, <1>5 DEF RecoverEntry
  <2>3. RunningEntries' = RunningEntries \ {e}
    BY <1>1, <1>5 DEF RecoverEntry, SetStatus, RunningEntries
  <2> HIDE DEF m
  <2>4. NamesItsEntry(m)
    BY <2>1 DEF NamesItsEntry
  <2>5. mishaps.fault = 0 => RunningEntries' \subseteq m.rows
    BY <1>1, <2>1, <2>3 DEF LeavesRunning
  <2>6. mishaps.fault = 0 /\ mishaps.crash = 0 => RunningEntries' \subseteq {m.entry}
    BY <1>1, <1>3, <2>1, <2>3 DEF NamesItsEntry, AtAnEntry
  <2> QED
    BY <1>4, <2>1, <2>2, <2>4, <2>5, <2>6 DEF AtAnEntry
<1>6. ASSUME NEW e \in Entries, Dispatch(n, e) PROVE RunningInv'
  <2> DEFINE left == night[n].rows \ {e}
             m == [night[n] EXCEPT !.pc = "open", !.rows = left, !.entry = e]
  <2>1. night' = [night EXCEPT ![n] = m] /\ night[n].pc = "pick"
    BY <1>6 DEF Dispatch
  <2> HIDE DEF left
  <2>2. m.pc = "open" /\ m.entry = e
    BY <1>1 DEF NightMemory
  <2>3. RunningEntries' \subseteq RunningEntries \cup {e}
    BY <1>1, <1>6 DEF Dispatch, SetStatus, RunningEntries
  <2>4. mishaps.fault = 0 => RunningEntries = {}
    BY <1>1, <2>1 DEF LeavesRunning
  <2> HIDE DEF m
  <2>5. NamesItsEntry(m)
    BY <2>2 DEF NamesItsEntry, AtAnEntry
  <2> QED
    BY <1>4, <2>1, <2>2, <2>3, <2>4, <2>5
<1>7. ASSUME Release(n) PROVE RunningInv'
  <2> DEFINE e == night[n].entry
  <2>1. /\ night[n].pc = "release" /\ night[n].target # "running" /\ e \in Entries
    BY <1>1, <1>7 DEF Release, NamesItsEntry, LoopInv, NightsAgree, Remembers
  <2>2. RunningEntries' = RunningEntries \ {e}
    BY <1>1, <1>7, <2>1 DEF Release, SetStatus, RunningEntries
  <2>3. mishaps.fault = 0 => RunningEntries' = {}
    BY <1>1, <2>1, <2>2 DEF LeavesRunning, AtAnEntry
  <2>4. CASE night[n].raised
    <3> DEFINE m == BetweenEntries(night[n].rows)
    <3>1. m.pc = "pick" /\ m.entry = NoEntry
      BY DEF BetweenEntries, Down
    <3>2. night' = [night EXCEPT ![n] = m]
      BY <1>7, <2>4 DEF Release
    <3> HIDE DEF m
    <3>3. NamesItsEntry(m)
      BY <3>1 DEF NamesItsEntry
    <3> QED
      BY <1>4, <2>3, <3>1, <3>2, <3>3
  <2>5. CASE ~night[n].raised
    <3> DEFINE m == [night[n] EXCEPT !.pc = "ask"]
    <3>1. m.pc = "ask" /\ m.entry = e
      BY <1>1 DEF NightMemory
    <3>2. night' = [night EXCEPT ![n] = m]
      BY <1>7, <2>5 DEF Release
    <3> HIDE DEF m
    <3>3. NamesItsEntry(m)
      BY <3>1 DEF NamesItsEntry, AtAnEntry
    <3> QED
      BY <1>4, <2>3, <3>1, <3>2, <3>3
  <2> QED
    BY <2>4, <2>5
<1> QED
  BY <1>5, <1>6, <1>7

\* A mishap is counted, and what is counted is not held against the night.
LEMMA RunningMishap ==
    ASSUME LoopInv, RunningInv, NEW n \in Nights, Mishap(n)
    PROVE  RunningInv'
<1>1. /\ night \in [Nights -> NightMemory] /\ night[n] \in NightMemory
      /\ NamesItsEntry(night[n])
  BY DEF LoopInv, TypeOK, RunningInv
<1>2. \A k \in Nights \ {n} : night[k].pc = "down"
  BY Alone DEF Mishap, Crash, StartFails, EscapesWithoutRelease, MarkConsumedFails,
               DispatchFails, CloseRunFails
<1>3. /\ RunningEntries' = RunningEntries
      /\ mishaps \in [crash : Nat, fault : Nat, abandon : Nat]
  BY DEF LoopInv, TypeOK, RunningEntries, Mishap, Crash, StartFails,
         EscapesWithoutRelease, MarkConsumedFails, DispatchFails, CloseRunFails
<1>4. ASSUME NEW m, night' = [night EXCEPT ![n] = m], NamesItsEntry(m), Fault
      PROVE  RunningInv'
  <2>1. night'[n] = m /\ \A k \in Nights \ {n} : night'[k] = night[k]
    BY <1>1, <1>4
  <2>2. mishaps'.fault # 0
    BY <1>3, <1>4 DEF Fault
  <2> QED
    BY <1>2, <1>4, <2>1, <2>2, OneNightRuns
<1>5. NamesItsEntry(Down) /\ \A rows : NamesItsEntry(BetweenEntries(rows))
  BY DEF NamesItsEntry, Down, BetweenEntries
<1>6. CASE Crash(n)
  <2>1. night'[n] = Down /\ \A k \in Nights \ {n} : night'[k] = night[k]
    BY <1>1, <1>6 DEF Crash, Exit
  <2>2. mishaps'.crash # 0
    BY <1>3, <1>6 DEF Crash
  <2>3. LeavesRunning(night[n])'
    BY <2>1 DEF LeavesRunning, Down, AtAnEntry
  <2> QED
    BY <1>2, <1>5, <2>1, <2>2, <2>3, OneNightRuns
<1>7. CASE StartFails(n)
  BY <1>4, <1>5, <1>7 DEF StartFails, Exit
<1>8. CASE EscapesWithoutRelease(n)
  BY <1>4, <1>5, <1>8 DEF EscapesWithoutRelease
<1>9. ASSUME NEW m, night' = [night EXCEPT ![n] = m], Fault,
             m.entry = night[n].entry, m.pc # "release",
             m.pc \notin AtAnEntry => night[n].pc \notin AtAnEntry
      PROVE  RunningInv'
  <2>1. NamesItsEntry(m)
    BY <1>1, <1>9 DEF NamesItsEntry
  <2> QED
    BY <1>4, <1>9, <2>1
<1>10. CASE MarkConsumedFails(n)
  <2> DEFINE m == [night[n] EXCEPT !.toMark = {}, !.raised = TRUE]
  <2>1. m.entry = night[n].entry /\ m.pc = night[n].pc /\ night[n].pc = "mark"
    BY <1>1, <1>10 DEF MarkConsumedFails, NightMemory
  <2>2. night' = [night EXCEPT ![n] = m] /\ Fault
    BY <1>10 DEF MarkConsumedFails
  <2> HIDE DEF m
  <2> QED
    BY <1>9, <2>1, <2>2
<1>11. ASSUME NEW e \in Entries, DispatchFails(n, e) PROVE RunningInv'
  <2> DEFINE m == [night[n] EXCEPT !.rows = @ \ {e}]
  <2>1. m.entry = night[n].entry /\ m.pc = night[n].pc /\ night[n].pc = "pick"
    BY <1>1, <1>11 DEF DispatchFails, NightMemory
  <2>2. night' = [night EXCEPT ![n] = m] /\ Fault
    BY <1>1, <1>11 DEF DispatchFails
  <2> HIDE DEF m
  <2> QED
    BY <1>9, <2>1, <2>2
<1>12. ASSUME NEW v \in Outcomes, CloseRunFails(n, v) PROVE RunningInv'
  <2> DEFINE m == [night[n] EXCEPT !.pc = "mark", !.verdict = v, !.raised = TRUE]
  <2>1. m.entry = night[n].entry /\ m.pc = "mark"
    BY <1>1, <1>12 DEF CloseRunFails, NightMemory
  <2>2. night' = [night EXCEPT ![n] = m] /\ Fault
    BY <1>12 DEF CloseRunFails
  <2> HIDE DEF m
  <2> QED
    BY <1>9, <2>1, <2>2 DEF AtAnEntry
<1> QED
  BY <1>6, <1>7, <1>8, <1>10, <1>11, <1>12 DEF Mishap

\* Every step keeps it.
LEMMA RunningStep == LoopInv /\ RunningInv /\ [Next]_vars => RunningInv'
<1> SUFFICES ASSUME LoopInv, RunningInv, [Next]_vars PROVE RunningInv'
  OBVIOUS
<1>1. ASSUME night' = night, mishaps'.fault = mishaps.fault,
             mishaps'.crash = mishaps.crash, RunningEntries' \subseteq RunningEntries
      PROVE  RunningInv'
  BY <1>1 DEF RunningInv, LeavesRunning
<1>2. ASSUME NEW c \in Clients, Requeue(c) PROVE RunningInv'
  <2>1. RunningEntries' \subseteq RunningEntries
    BY <1>2 DEF Requeue, SetStatus, RunningEntries, LoopInv, TypeOK
  <2> QED
    BY <1>1, <1>2, <2>1 DEF Requeue
<1>3. ASSUME NEW c \in Clients,
             \/ Look(c) \/ ReadForRequeue(c) \/ AbandonAnswer(c)
             \/ \E d \in Decisions, s \in AnswerStatuses : Answer(c, d, s)
      PROVE  RunningInv'
  <2>1. night' = night /\ entryStatus' = entryStatus
    BY <1>3 DEF Look, ReadForRequeue, AbandonAnswer, Answer
  <2>2. mishaps'.fault = mishaps.fault /\ mishaps'.crash = mishaps.crash
    BY <1>3 DEF Look, ReadForRequeue, AbandonAnswer, Answer, LoopInv, TypeOK
  <2> QED
    BY <1>1, <2>1, <2>2 DEF RunningEntries
<1>4. ASSUME NEW e \in Entries, Capture(e) PROVE RunningInv'
  <2>1. RunningEntries' \subseteq RunningEntries
    BY <1>4 DEF Capture, RunningEntries, LoopInv, TypeOK
  <2> QED
    BY <1>1, <1>4, <2>1 DEF Capture
<1>5. ASSUME NEW n \in Nights,
             \/ AcquireLock(n) \/ NightStep(n) \/ Bind(n)
             \/ \E d \in Decisions : AskQuestion(n, d)
      PROVE  RunningInv'
  <2>1. CASE \/ \E e \in Entries : RecoverEntry(n, e) \/ Dispatch(n, e)
             \/ Release(n)
    <3>1. mishaps' = mishaps
      BY <2>1 DEF RecoverEntry, Dispatch, Release
    <3> QED
      BY <2>1, <3>1, RunningWrites
  <2>2. CASE \/ \E r \in Runs : RecoverRun(n, r) \/ OpenRun(n, r)
             \/ AcquireLock(n) \/ SelectStuckEntries(n) \/ RecoveryDone(n)
             \/ ReadAnswers(n) \/ ReadForRelease(n) \/ ReleaseRefused(n)
             \/ \E v \in Outcomes : CloseRun(n, v)
             \/ \E d \in Decisions : MarkConsumed(n, d) \/ AskQuestion(n, d)
             \/ AskingDone(n) \/ NightDone(n) \/ Bind(n)
             \/ \E e \in Entries : RecoverEntryRefused(n, e)
    <3>1. UNCHANGED <<entryStatus, mishaps>>
      BY <2>2 DEF RecoverRun, OpenRun, AcquireLock, SelectStuckEntries, RecoveryDone,
         ReadAnswers, ReadForRelease, ReleaseRefused, CloseRun, MarkConsumed,
         AskQuestion, AskingDone, NightDone, Bind, BindRefused, BindAll, BindOne,
         RecoverEntryRefused
    <3> QED
      BY <2>2, <3>1, RunningQuiet
  <2> QED
    BY <1>5, <2>1, <2>2 DEF NightStep
<1>6. CASE UNCHANGED vars
  BY <1>1, <1>6 DEF vars, RunningEntries
<1> QED
  BY <1>2, <1>3, <1>4, <1>5, <1>6, RunningMishap DEF Next, ClientStep

\* A night past recovery has nothing running but the idea in its hands, unless
\* a statement raised; and with no mishap nothing is running while no night is
\* up -- whatever the requests of the morning re-queue meanwhile.
THEOREM NothingDisappears == Spec => []NoIdeaLeftRunning
<1>1. RunningInv /\ LoopInv => NoIdeaLeftRunning
  <2> SUFFICES ASSUME RunningInv, LoopInv, mishaps.fault = 0, NEW e \in RunningEntries
               PROVE  /\ \A n \in Nights : PastRecovery(n) => night[n].entry = e
                      /\ mishaps.crash = 0 => \E n \in Nights : night[n].entry = e
    BY DEF NoIdeaLeftRunning
  <2>1. ASSUME NEW n \in Nights, PastRecovery(n) PROVE night[n].entry = e
    <3>1. night[n].pc \in {"bind", "pick", "ask"} \/ night[n].pc \in AtAnEntry
      BY <2>1 DEF PastRecovery, AtAnEntry, LoopInv, TypeOK, NightMemory, NightSteps
    <3> QED
      BY <3>1 DEF RunningInv, LeavesRunning
  <2>2. mishaps.crash = 0 => \E n \in Nights : night[n].entry = e
    BY DEF RunningInv
  <2> QED
    BY <2>1, <2>2
<1> QED
  BY <1>1, RunningInit, RunningStep, LoopInvariant, PTL DEF Spec

-----------------------------------------------------------------------------
(* What a run used is consumed.                                            *)

\* A step that closes no run as having worked, takes no consumption back, and
\* lets no night forget an answer it has to mark.
LEMMA MarksStay ==
    ASSUME UsedAnswersAreConsumed,
           mishaps'.crash = 0 /\ mishaps'.fault = 0 =>
               mishaps.crash = 0 /\ mishaps.fault = 0,
           \A r \in Runs : run'[r].outcome = "worked" => run'[r] = run[r],
           \A r \in Runs : \A d \in run[r].used :
               decision[d].consumedBy = r => decision'[d].consumedBy = r,
           \A n \in Nights : night[n].toMark # {} =>
               night'[n].run = night[n].run /\ night[n].toMark \subseteq night'[n].toMark
    PROVE  UsedAnswersAreConsumed'
<1> SUFFICES ASSUME mishaps'.crash = 0, mishaps'.fault = 0, NEW r \in Runs,
                    run'[r].outcome = "worked", NEW d \in run'[r].used
             PROVE  \/ decision'[d].consumedBy = r
                    \/ \E n \in Nights : night'[n].run = r /\ d \in night'[n].toMark
  BY DEF UsedAnswersAreConsumed
<1>1. run[r].outcome = "worked" /\ d \in run[r].used
  OBVIOUS
<1>2. \/ decision[d].consumedBy = r
      \/ \E n \in Nights : night[n].run = r /\ d \in night[n].toMark
  BY <1>1 DEF UsedAnswersAreConsumed
<1>3. ASSUME NEW n \in Nights, night[n].run = r, d \in night[n].toMark
      PROVE  night'[n].run = r /\ d \in night'[n].toMark
  BY <1>3
<1> QED
  BY <1>1, <1>2, <1>3

\* A run that closes having worked leaves all it used to be marked.
LEMMA CloseMarks ==
    ASSUME LoopInv, UsedAnswersAreConsumed, NEW n \in Nights, NEW v \in Outcomes,
           CloseRun(n, v)
    PROVE  UsedAnswersAreConsumed'
<1> DEFINE r == night[n].run
<1>1. /\ r \in Runs /\ run[r].outcome = "open" /\ decision' = decision
      /\ run' = [run EXCEPT ![r].outcome = v] /\ mishaps' = mishaps
  BY CloseRunWrites DEF CloseRun
<1>2. run \in [Runs -> RunRow] /\ night \in [Nights -> NightMemory]
  BY DEF LoopInv, TypeOK
<1>3. /\ night[n].toMark = {} /\ night'[n].run = r /\ night'[n].toMark = ToMark(r, v)
      /\ \A k \in Nights \ {n} : night'[k] = night[k]
  BY <1>2 DEF CloseRun, LoopInv, NightsAgree, Remembers, NightMemory
<1>4. /\ \A s \in Runs \ {r} : run'[s] = run[s]
      /\ run'[r].outcome = v /\ run'[r].used = run[r].used
  BY <1>1, <1>2 DEF RunRow
<1> HIDE DEF r
<1> SUFFICES ASSUME mishaps'.crash = 0, mishaps'.fault = 0, NEW s \in Runs,
                    run'[s].outcome = "worked", NEW d \in run'[s].used
             PROVE  \/ decision'[d].consumedBy = s
                    \/ \E k \in Nights : night'[k].run = s /\ d \in night'[k].toMark
  BY DEF UsedAnswersAreConsumed
<1>5. CASE s = r
  <2>1. v = "worked" /\ d \in run[r].used
    BY <1>4, <1>5
  <2>2. d \in night'[n].toMark
    BY <1>3, <2>1 DEF ToMark
  <2> QED
    BY <1>3, <1>5, <2>2
<1>6. CASE s # r
  <2>1. run[s].outcome = "worked" /\ d \in run[s].used
    BY <1>4, <1>6
  <2>2. \/ decision[d].consumedBy = s
        \/ \E k \in Nights : night[k].run = s /\ d \in night[k].toMark
    BY <1>1, <2>1 DEF UsedAnswersAreConsumed
  <2> QED
    BY <1>1, <1>3, <2>2
<1> QED
  BY <1>5, <1>6

\* The answer that is marked is consumed by the run in hand.
LEMMA MarkMarks ==
    ASSUME LoopInv, UsedAnswersAreConsumed, NEW n \in Nights, NEW d \in Decisions,
           MarkConsumed(n, d)
    PROVE  UsedAnswersAreConsumed'
<1>1. /\ run' = run /\ mishaps' = mishaps /\ decision[d].consumedBy = NoRun
      /\ d \in night[n].toMark
      /\ decision \in [Decisions -> DecisionRow] /\ night \in [Nights -> NightMemory]
      /\ run \in [Runs -> RunRow]
  BY DEF MarkConsumed, LoopInv, TypeOK
<1>2. /\ decision'[d].consumedBy = night[n].run
      /\ \A x \in Decisions \ {d} : decision'[x] = decision[x]
  BY <1>1 DEF MarkConsumed, DecisionRow
<1>3. /\ night'[n].run = night[n].run /\ night'[n].toMark = night[n].toMark \ {d}
      /\ \A k \in Nights \ {n} : night'[k] = night[k]
  BY <1>1 DEF MarkConsumed, NightMemory
<1>4. \A k \in Nights \ {n} : night[k].toMark = {}
  BY Alone DEF MarkConsumed, LoopInv, NightsAgree, Remembers
<1> SUFFICES ASSUME mishaps'.crash = 0, mishaps'.fault = 0, NEW s \in Runs,
                    run'[s].outcome = "worked", NEW x \in run'[s].used
             PROVE  \/ decision'[x].consumedBy = s
                    \/ \E k \in Nights : night'[k].run = s /\ x \in night'[k].toMark
  BY DEF UsedAnswersAreConsumed
<1>5. /\ x \in Decisions
      /\ \/ decision[x].consumedBy = s
         \/ \E k \in Nights : night[k].run = s /\ x \in night[k].toMark
  BY <1>1 DEF UsedAnswersAreConsumed, RunRow
<1>6. CASE decision[x].consumedBy = s
  BY <1>1, <1>2, <1>5, <1>6, ConstantsAssumption
<1>7. ASSUME NEW k \in Nights, night[k].run = s, x \in night[k].toMark
      PROVE  \/ decision'[x].consumedBy = s
             \/ \E j \in Nights : night'[j].run = s /\ x \in night'[j].toMark
  <2>1. k = n
    BY <1>4, <1>7
  <2> QED
    BY <1>2, <1>3, <1>7, <2>1
<1> QED
  BY <1>5, <1>6, <1>7

\* No night forgets an answer it has to mark, short of a mishap.
LEMMA MarksAreKept ==
    ASSUME LoopInv, [Next]_vars, mishaps'.crash = mishaps.crash,
           mishaps'.fault = mishaps.fault,
           ~ \E n \in Nights : \E d \in Decisions : MarkConsumed(n, d),
           NEW k \in Nights, night[k].toMark # {}
    PROVE  night'[k].run = night[k].run /\ night[k].toMark \subseteq night'[k].toMark
<1>1. /\ night \in [Nights -> NightMemory] /\ night[k].pc = "mark"
      /\ mishaps \in [crash : Nat, fault : Nat, abandon : Nat]
  BY DEF LoopInv, TypeOK, NightsAgree, Remembers
<1>2. \A n \in Nights : night[n].pc # "down" => n = k
  BY <1>1, Alone
<1>3. \A n \in Nights : ~ AcquireLock(n)
  BY <1>1, Alone, ConstantsAssumption DEF AcquireLock, LockIsFree
<1>4. \A n \in Nights : ~ Mishap(n)
  <2>1. ~ Fault
    BY <1>1 DEF Fault
  <2>2. \A n \in Nights : ~ Crash(n)
    BY <1>1 DEF Crash
  <2> QED
    BY <2>1, <2>2 DEF Mishap, StartFails, EscapesWithoutRelease, MarkConsumedFails,
                      DispatchFails, CloseRunFails
<1>5. ASSUME NEW n \in Nights, NightStep(n) \/ Bind(n) \/ \E d \in Decisions : AskQuestion(n, d)
      PROVE  FALSE
  <2>1. night[n].pc # "down"
    BY <1>5 DEF NightStep, Bind, RecoverRun, OpenRun, RecoverEntry, RecoverEntryRefused,
          Dispatch, SelectStuckEntries, RecoveryDone, ReadAnswers, CloseRun, MarkConsumed,
          ReadForRelease, ReleaseRefused, Release, AskingDone, NightDone, BindRefused,
          BindAll, BindOne, AskQuestion
  <2>2. n = k
    BY <1>2, <2>1
  <2> QED
    BY <1>1, <1>5, <2>2
    DEF NightStep, Bind, RecoverRun, OpenRun, RecoverEntry, RecoverEntryRefused,
          Dispatch, SelectStuckEntries, RecoveryDone, ReadAnswers, CloseRun,
          ReadForRelease, ReleaseRefused, Release, AskingDone, NightDone, BindRefused,
          BindAll, BindOne, AskQuestion
<1>6. night' = night
  BY <1>3, <1>4, <1>5 DEF Next, vars, Capture, Answer, ClientStep, Look, ReadForRequeue,
                          Requeue, AbandonAnswer
<1> QED
  BY <1>6

\* No step makes a run one that worked, or takes a consumption back, but the
\* two that close a run and mark an answer.
LEMMA WorkedStays ==
    ASSUME LoopInv, [Next]_vars,
           ~ \E n \in Nights : \E v \in Outcomes : CloseRun(n, v)
    PROVE  /\ \A r \in Runs : run'[r].outcome = "worked" => run'[r] = run[r]
           /\ \A r \in Runs : \A d \in run[r].used :
                decision[d].consumedBy = r => decision'[d].consumedBy = r
<1>1. run \in [Runs -> RunRow] /\ decision \in [Decisions -> DecisionRow]
  BY DEF LoopInv, TypeOK
<1>2. ASSUME NEW r \in Runs, NEW d \in run[r].used, decision[d].consumedBy = r
      PROVE  decision'[d].consumedBy = r
  <2>1. d \in Decisions /\ decision[d].consumedBy # NoRun
    BY <1>1, <1>2, ConstantsAssumption DEF RunRow
  <2> QED
    BY <1>2, <2>1, FinalStep
<1>3. ASSUME NEW n \in Nights, NEW s \in Runs, RecoverRun(n, s) \/ OpenRun(n, s),
             NEW r \in Runs, run'[r].outcome = "worked"
      PROVE  run'[r] = run[r]
  BY <1>1, <1>3 DEF RecoverRun, OpenRun, RunRow
<1>4. ASSUME NEW n \in Nights, ReadAnswers(n), NEW r \in Runs, run'[r].outcome = "worked"
      PROVE  run'[r] = run[r]
  <2>1. /\ night[n].run \in Runs /\ run[night[n].run].outcome = "open"
    BY <1>4, ReadAnswersWrites
  <2> QED
    BY <1>1, <1>4, <2>1 DEF ReadAnswers, RunRow
<1> QED
  BY <1>2, <1>3, <1>4, TableSteps DEF MarkConsumed, AskQuestion, Answer

\* While nothing has gone wrong, every answer handed to a run that worked is
\* consumed by it, or is one its night is about to mark.
THEOREM UsedIsConsumed == Spec => []UsedAnswersAreConsumed
<1>1. Init => UsedAnswersAreConsumed
  BY DEF Init, UsedAnswersAreConsumed, NoRow
<1>2. LoopInv /\ UsedAnswersAreConsumed /\ [Next]_vars => UsedAnswersAreConsumed'
  <2> SUFFICES ASSUME LoopInv, UsedAnswersAreConsumed, [Next]_vars
               PROVE  UsedAnswersAreConsumed'
    OBVIOUS
  <2>1. TypeOK /\ TypeOK'
    BY TypeStep DEF LoopInv
  <2>2. mishaps'.crash >= mishaps.crash /\ mishaps'.fault >= mishaps.fault
    <3>1. \/ mishaps' = mishaps
          \/ mishaps' = [mishaps EXCEPT !.crash = @ + 1]
          \/ mishaps' = [mishaps EXCEPT !.fault = @ + 1]
          \/ mishaps' = [mishaps EXCEPT !.abandon = @ + 1]
      BY DEF Next, NightStep, Bind, Mishap, ClientStep, Capture, AcquireLock,
         RecoverRun, OpenRun, RecoverEntry, RecoverEntryRefused, Dispatch,
         SelectStuckEntries, RecoveryDone, ReadAnswers, CloseRun, MarkConsumed,
         ReadForRelease, ReleaseRefused, Release, AskingDone, NightDone, BindRefused,
         BindAll, BindOne, AskQuestion, Crash, StartFails, EscapesWithoutRelease,
         MarkConsumedFails, DispatchFails, CloseRunFails, Fault, Look, ReadForRequeue,
         Requeue, AbandonAnswer, Answer, vars
    <3> QED
      BY <2>1, <3>1 DEF TypeOK
  <2>3. CASE ~ (mishaps'.crash = 0 /\ mishaps'.fault = 0)
    BY <2>3 DEF UsedAnswersAreConsumed
  <2>4. CASE mishaps'.crash = 0 /\ mishaps'.fault = 0
    <3>1. mishaps.crash = 0 /\ mishaps.fault = 0
      BY <2>1, <2>2, <2>4 DEF TypeOK
    <3>2. CASE \E n \in Nights : \E d \in Decisions : MarkConsumed(n, d)
      BY <3>2, MarkMarks
    <3>3. CASE \E n \in Nights : \E v \in Outcomes : CloseRun(n, v)
      BY <3>3, CloseMarks
    <3>4. CASE /\ ~ \E n \in Nights : \E d \in Decisions : MarkConsumed(n, d)
               /\ ~ \E n \in Nights : \E v \in Outcomes : CloseRun(n, v)
      <4>1. \A k \in Nights : night[k].toMark # {} =>
               night'[k].run = night[k].run /\ night[k].toMark \subseteq night'[k].toMark
        BY <2>4, <3>1, <3>4, MarksAreKept
      <4> QED
        BY <3>1, <3>4, <4>1, WorkedStays, MarksStay
    <3> QED
      BY <3>2, <3>3, <3>4
  <2> QED
    BY <2>3, <2>4
<1> QED
  BY <1>1, <1>2, LoopInvariant, PTL DEF Spec
=============================================================================
