-------------------------- MODULE StageWalkProofs --------------------------
(***************************************************************************)
(* Theorems about StageWalk, for any number of variants and of mishaps:    *)
(* a stage recorded complete has landed something, a closed run says what  *)
(* its stages say, and the ranks of a group are the first of one ordering, *)
(* the whole of it, or none, once the walk has gone on.                    *)
(*                                                                         *)
(* The invariant says what the process's memory, while there is one, knows *)
(* of the rows: which stages completed, that the stage it works is open    *)
(* and had its inputs, and how far an ordering has been written down.      *)
(***************************************************************************)
EXTENDS StageWalk, FiniteSetTheorems, SequenceTheorems, TLAPS

Indexes == 0..(Variants - 1)

Ranked == {v \in Indexes : rank[v] # 0}

\* While a process has the run, its results are the completed rows.
MemoryIsTrue ==
    walk.pc # "gone" =>
        \A s \in Stages : result[s] = "complete" <=> stage[s] = "complete"

\* The stage that is being worked is open, and it had its inputs.
AtWork ==
    /\ walk.pc \in {"turn", "blocked", "file", "row"} =>
         walk.at <= 6 /\ stage[Here] = "running"
    /\ walk.pc \in {"turn", "file", "row"} => CanRun(Here, CompleteStages)

\* The indices still to be written are the stage's, and a row follows its file.
Writing ==
    /\ walk.at <= 6 => walk.todo \subseteq Indices(Here)
    /\ walk.pc \in {"next", "rank", "ranking"} => walk.todo = {}
    /\ walk.pc = "row" => walk.todo # {} /\ <<Here, NextIndex>> \in files

\* How far an ordering has been written: what is left of it names, once each,
\* the builds that have no rank yet, and those that have one hold 1, 2, ...
RankingSoFar ==
    /\ Len(walk.order) <= Cardinality(Landed("build"))
    /\ \A i, j \in 1..Len(walk.order) : i # j => walk.order[i] # walk.order[j]
    /\ Landed("build") = Ranked \cup ToSet(walk.order)
    /\ Ranked \cap ToSet(walk.order) = {}
    /\ Cardinality(Ranked) = Cardinality(Landed("build")) - Len(walk.order)

\* No build is ranked before a critique has completed.
WhenRanked ==
    /\ Ranked # {} => walk.at >= 5 /\ stage["critique"] = "complete"
    /\ walk.pc \in {"rank", "ranking"} =>
         walk.at = 5 /\ stage["critique"] = "complete"
    /\ walk.pc = "rank" => Ranked = {}
    /\ walk.pc = "ranking" => RankingSoFar

\* The builds with a rank hold the first places of an ordering.
InOrder ==
    /\ Ranked \subseteq Landed("build")
    /\ {rank[v] : v \in Ranked} = 1..Cardinality(Ranked)

\* Distill has no row until the walk stands at it and inserts it.
DistillAhead ==
    walk.at <= 5 \/ (walk.at = 6 /\ walk.pc = "next") => stage["distill"] = "absent"

\* Part of a group has ranks while it is being ranked, or if the walk was cut there.
CutShort == {"ranking", "close", "done", "gone"}

WholeOrNone ==
    walk.pc \notin CutShort \/ stage["distill"] # "absent" =>
        Ranked \in {{}, Landed("build")}

\* What the walk recorded when it closed its run.
ClosedAsItWas ==
    walk.pc = "done" => run = [outcome |-> OutcomeOf(CompleteStages),
                               furthest |-> FurthestOf(CompleteStages)]

WalkInv ==
    /\ TypeOK
    /\ MemoryIsTrue
    /\ AtWork
    /\ Writing
    /\ CompleteMeansLanded
    /\ WhenRanked
    /\ InOrder
    /\ DistillAhead
    /\ WholeOrNone
    /\ ClosedAsItWas
-----------------------------------------------------------------------------
(* The six stages, the indices of a fan-out, and the next one to write.    *)

\* The walk stands on a stage while there is one left.
LEMMA StageNames ==
    /\ Stages = {"brief", "research", "mockups", "build", "critique", "distill"}
    /\ \A i \in 1..6 : STAGES[i] \in Stages
    /\ walk.at \in 1..6 => Here \in Stages
    /\ walk.at \in 1..6 => (Here = "build" <=> walk.at = 4)
    /\ walk.at \in 1..6 => (Here = "critique" <=> walk.at = 5)
    /\ walk.at \in 1..6 => (Here = "distill" <=> walk.at = 6)
<1>1. /\ STAGES[1] = "brief" /\ STAGES[2] = "research" /\ STAGES[3] = "mockups"
      /\ STAGES[4] = "build" /\ STAGES[5] = "critique" /\ STAGES[6] = "distill"
  BY DEF STAGES
<1>2. \A i \in 1..6 : i = 1 \/ i = 2 \/ i = 3 \/ i = 4 \/ i = 5 \/ i = 6
  OBVIOUS
<1>3. Stages = {"brief", "research", "mockups", "build", "critique", "distill"}
  BY <1>1, <1>2 DEF Stages
<1> QED
  BY <1>1, <1>2, <1>3 DEF Here

\* A fan-out's indices are among the variants', and every stage has index 0.
LEMMA IndexTypes ==
    ASSUME NEW s
    PROVE  /\ Indices(s) \subseteq Indexes
           /\ Cardinality(Indices(s)) \in Nat
           /\ Cardinality(Indices(s)) <= Variants
           /\ \A k \in 1..Cardinality(Indices(s)) : 0..(k - 1) \subseteq Indices(s)
<1> USE WalkConstants
<1>1. CASE FansOut(s)
  <2>1. Cardinality(0..(Variants - 1)) = Variants
    BY FS_Interval
  <2> QED
    BY <1>1, <2>1 DEF Indices, Indexes
<1>2. CASE ~FansOut(s)
  <2>1. Cardinality({0}) = 1
    BY FS_Singleton
  <2> QED
    BY <1>2, <2>1 DEF Indices, Indexes
<1> QED
  BY <1>1, <1>2

\* A set of numbers that is not empty has a least one.
LEMMA LeastOne ==
    ASSUME NEW S, S \subseteq Nat, S # {}
    PROVE  \E v \in S : \A w \in S : v <= w
<1> DEFINE Below == {p \in Nat \X Nat : p[1] < p[2]}
<1>1. IsWellFoundedOn(Below, Nat)
  BY NatLessThanWellFounded DEF OpToRel
<1>2. \A v, w \in Nat : <<w, v>> \in Below <=> w < v
  OBVIOUS
<1> HIDE DEF Below
<1>3. PICK v \in S : \A w \in S : <<w, v>> \notin Below
  BY <1>1, WFMin, Zenon
<1>4. \A w \in S : ~ (w < v)
  BY <1>2, <1>3
<1>5. \A w \in S : v <= w
  BY <1>4
<1> QED
  BY <1>5

\* While there is an index left to write, NextIndex is one of them.
LEMMA NextIsLeft ==
    ASSUME walk.todo \subseteq Indexes, walk.todo # {}
    PROVE  NextIndex \in walk.todo
<1>1. walk.todo \subseteq Nat
  BY WalkConstants DEF Indexes
<1>2. \E v \in walk.todo : \A w \in walk.todo : v <= w
  BY <1>1, LeastOne
<1> QED
  BY <1>2 DEF NextIndex

\* What has landed of a stage is finite, and is a set of indices.
LEMMA LandedTypes ==
    /\ Landed("build") \subseteq Indexes
    /\ IsFiniteSet(Landed("build"))
    /\ Cardinality(Landed("build")) \in Nat
    /\ Cardinality(Landed("build")) <= Variants
<1> USE WalkConstants
<1>1. Landed("build") \subseteq Indexes
  BY IndexTypes DEF Landed
<1>2. IsFiniteSet(Indexes) /\ Cardinality(Indexes) = Variants
  BY FS_Interval DEF Indexes
<1> QED
  BY <1>1, <1>2, FS_Subset, FS_CardinalityType

\* Having more stages complete takes no stage's inputs away.
LEMMA InputsStay ==
    ASSUME NEW s, NEW A, NEW B, A \subseteq B, CanRun(s, A)
    PROVE  CanRun(s, B)
BY DEF CanRun
\* An ordering names variants, each once, and as many as it is long.
LEMMA OrderingTypes ==
    ASSUME NEW order \in Orderings
    PROVE  /\ order \in Seq(Indexes)
           /\ Len(order) = Cardinality(ToSet(order))
           /\ \A i, j \in 1..Len(order) : i # j => order[i] # order[j]
<1>1. PICK S \in SUBSET Indexes : order \in SetToSeqs(S)
  BY DEF Orderings, Indexes
<1>2. Cardinality(S) \in Nat
  <2>1. IsFiniteSet(Indexes)
    BY WalkConstants, FS_Interval DEF Indexes
  <2> QED
    BY <2>1, FS_Subset, FS_CardinalityType
<1>3. /\ order \in [1..Cardinality(S) -> S]
      /\ \A i, j \in 1..Cardinality(S) : i # j => order[i] # order[j]
  BY <1>1 DEF SetToSeqs
<1>4. order \in Seq(Indexes) /\ Len(order) = Cardinality(S)
  <2>1. order \in [1..Cardinality(S) -> Indexes]
    BY <1>3
  <2> QED
    BY <1>2, <2>1
<1>5. Cardinality(ToSet(order)) = Cardinality(S)
  <2>1. DOMAIN order = 1..Cardinality(S)
    BY <1>3
  <2>2. order \in Bijection(1..Cardinality(S), ToSet(order))
    BY <1>3, <2>1 DEF ToSet, Bijection, Injection, Surjection, IsInjective
  <2>3. ExistsBijection(1..Cardinality(S), ToSet(order))
    BY <2>2 DEF ExistsBijection
  <2> QED
    BY <1>2, <2>3, FS_CountingElements
<1> QED
  BY <1>3, <1>4, <1>5

\* The furthest stage is the last of those that completed.
LEMMA FurthestIsLast ==
    ASSUME NEW done \in SUBSET Stages, done # {}
    PROVE  \E i \in 1..6 : /\ FurthestOf(done) = STAGES[i]
                           /\ STAGES[i] \in done
                           /\ \A j \in (i+1)..6 : STAGES[j] \notin done
<1> DEFINE Final(i) == /\ STAGES[i] \in done
                       /\ \A j \in (i+1)..6 : STAGES[j] \notin done
<1>1. \E i \in 1..6 : Final(i)
  <2>1. \E i \in 1..6 : STAGES[i] \in done
    BY DEF Stages
  <2> DEFINE Found == {7 - i : i \in {j \in 1..6 : STAGES[j] \in done}}
  <2>2. Found \subseteq Nat /\ Found # {}
    BY <2>1
  <2>3. PICK v \in Found : \A w \in Found : v <= w
    BY <2>2, LeastOne
  <2>4. 7 - v \in 1..6 /\ STAGES[7 - v] \in done
    BY <2>3
  <2>5. ASSUME NEW j \in (7 - v + 1)..6 PROVE STAGES[j] \notin done
    <3>1. j \in 1..6 /\ ~ (v <= 7 - j)
      BY <2>4, <2>5
    <3> QED
      BY <2>3, <3>1
  <2> QED
    BY <2>4, <2>5
<1>2. FurthestOf(done) = STAGES[CHOOSE i \in 1..6 : Final(i)]
  BY DEF FurthestOf
<1> HIDE DEF Final
<1>3. /\ (CHOOSE i \in 1..6 : Final(i)) \in 1..6
      /\ Final(CHOOSE i \in 1..6 : Final(i))
  BY <1>1
<1> USE DEF Final
<1> QED
  BY <1>2, <1>3

\* The furthest stage is a stage, or none.
LEMMA FurthestTypes == FurthestOf(Done) \in Stages \cup {"none"}
<1>1. CASE Done = {}
  BY <1>1 DEF FurthestOf
<1>2. CASE Done # {}
  BY <1>2, FurthestIsLast, StageNames DEF Done
<1> QED
  BY <1>1, <1>2

-----------------------------------------------------------------------------
(* Type correctness.                                                       *)

\* What a walk that moves on, or ends, remembers.
LEMMA WalkTypes ==
    ASSUME walk \in WalkMemory
    PROVE  /\ Over("done") \in WalkMemory /\ Over("gone") \in WalkMemory
           /\ \A pc \in {"turn", "blocked", "file", "close"} :
                 [walk EXCEPT !.pc = pc] \in WalkMemory
           /\ walk.at <= 6 => [walk EXCEPT !.pc = "next", !.at = @ + 1] \in WalkMemory
           /\ walk.at <= 6 =>
                [walk EXCEPT !.pc = "next", !.at = @ + 1, !.todo = {}] \in WalkMemory
           /\ \A v : [walk EXCEPT !.todo = @ \ {v}] \in WalkMemory
           /\ \A v : [walk EXCEPT !.pc = "file", !.todo = @ \ {v}] \in WalkMemory
<1>1. /\ walk.at \in 1..7 /\ walk.at <= 6 => walk.at + 1 \in 1..7
      /\ \A v : walk.todo \ {v} \in SUBSET (0..(Variants - 1))
  BY DEF WalkMemory
<1>2. <<>> \in Seq(0..(Variants - 1))
  OBVIOUS
<1>3. Over("done") \in WalkMemory /\ Over("gone") \in WalkMemory
  BY <1>2 DEF Over, WalkMemory
<1>4. /\ walk.at <= 6 => [walk EXCEPT !.pc = "next", !.at = @ + 1] \in WalkMemory
      /\ walk.at <= 6 =>
                [walk EXCEPT !.pc = "next", !.at = @ + 1, !.todo = {}] \in WalkMemory
  BY <1>1 DEF WalkMemory
<1>5. /\ \A v : [walk EXCEPT !.todo = @ \ {v}] \in WalkMemory
      /\ \A v : [walk EXCEPT !.pc = "file", !.todo = @ \ {v}] \in WalkMemory
  BY <1>1 DEF WalkMemory
<1>6. \A pc \in {"turn", "blocked", "file", "close"} :
                 [walk EXCEPT !.pc = pc] \in WalkMemory
  BY DEF WalkMemory
<1> QED
  BY <1>3, <1>4, <1>5, <1>6
\* The close of a stage writes one of the schema's statuses.
LEMMA CloseTypes ==
    ASSUME TypeOK, NEW s \in Stages, NEW status \in {"complete", "failed", "skipped"}
    PROVE  /\ CloseStage(s, status) => stage' \in [Stages -> StageStatuses]
           /\ [result EXCEPT ![s] = status] \in
                [Stages -> {"none", "complete", "failed", "skipped"}]
BY DEF TypeOK, CloseStage, StageStatuses

\* Every initial state has its types.
LEMMA TypeInit == Init => TypeOK
<1> SUFFICES ASSUME Init PROVE TypeOK
  OBVIOUS
<1>1. walk \in WalkMemory
  <2>1. <<>> \in Seq(0..(Variants - 1))
    OBVIOUS
  <2> QED
    BY <2>1 DEF Init, WalkMemory
<1> QED
  BY <1>1, WalkConstants DEF Init, TypeOK, StageStatuses

\* Every step of the walk keeps the types.
LEMMA TypeWalk ==
    ASSUME TypeOK, Writing, WhenRanked, WalkStep
    PROVE  TypeOK'
<1> USE DEF TypeOK
<1>1. /\ walk \in WalkMemory
      /\ walk.at <= 6 => walk.at \in 1..6
      /\ walk.at <= 6 => Here \in Stages
  BY StageNames DEF WalkMemory
<1>2. ASSUME InsertStage PROVE TypeOK'
  <2>1. stage' \in [Stages -> StageStatuses]
    BY <1>1, <1>2 DEF InsertStage, InsertRunStage, At, StageStatuses
  <2>2. walk' \in WalkMemory
    BY <1>1, <1>2, WalkTypes DEF InsertStage, InsertRunStage
  <2> QED
    BY <1>2, <2>1, <2>2 DEF InsertStage, InsertRunStage
<1>3. ASSUME CloseBlocked \/ ResearchSkips \/ TurnFails \/ OutputMissing
      PROVE  TypeOK'
  <2>1. PICK status \in {"failed", "skipped"} :
           /\ walk.at <= 6 /\ CloseStage(Here, status) /\ Return(Here, status)
           /\ UNCHANGED <<files, rows, rank, run, mishaps>>
    BY <1>3 DEF CloseBlocked, ResearchSkips, TurnFails, OutputMissing, At
  <2>2. stage' \in [Stages -> StageStatuses]
    BY <1>1, <2>1, CloseTypes
  <2>3. result' \in [Stages -> {"none", "complete", "failed", "skipped"}]
    BY <1>1, <2>1, CloseTypes DEF Return
  <2>4. walk' \in WalkMemory
    BY <1>1, <2>1, WalkTypes DEF Return
  <2> QED
    BY <2>1, <2>2, <2>3, <2>4
<1>4. ASSUME NEW k \in 1..Variants, TurnReturns(k) PROVE TypeOK'
  <2>1. 0..(k - 1) \in SUBSET (0..(Variants - 1))
    BY WalkConstants
  <2>2. [walk EXCEPT !.pc = "file", !.todo = 0..(k - 1)] \in WalkMemory
    BY <1>1, <2>1 DEF WalkMemory
  <2> QED
    BY <1>4, <2>2 DEF TurnReturns
<1>5. ASSUME At("file") \/ At("row"), walk.todo # {}
      PROVE  <<Here, NextIndex>> \in ArtifactKeys
  <2>1. walk.at <= 6 /\ walk.todo \subseteq Indices(Here)
    BY <1>5 DEF At, Writing
  <2>2. NextIndex \in Indices(Here)
    BY <1>5, <2>1, IndexTypes, NextIsLeft
  <2>3. NextIndex \in 0..(Variants - 1)
    BY <2>2, IndexTypes DEF Indexes
  <2> QED
    BY <1>1, <2>1, <2>2, <2>3 DEF ArtifactKeys
<1>6. ASSUME WriteFile PROVE TypeOK'
  <2>1. <<Here, NextIndex>> \in ArtifactKeys
    BY <1>5, <1>6 DEF WriteFile
  <2>2. [walk EXCEPT !.pc = "row"] \in WalkMemory
    BY <1>1 DEF WalkMemory
  <2> QED
    BY <1>6, <2>1, <2>2 DEF WriteFile
<1>7. ASSUME InsertArtifact PROVE TypeOK'
  <2>1. <<Here, NextIndex>> \in ArtifactKeys
    BY <1>5, <1>7 DEF InsertArtifact, InsertArtifactRow, Writing, At
  <2>2. walk' \in WalkMemory
    BY <1>1, <1>7, WalkTypes DEF InsertArtifact, InsertArtifactRow
  <2> QED
    BY <1>7, <2>1, <2>2 DEF InsertArtifact, InsertArtifactRow
<1>8. ASSUME WriteFileFails PROVE TypeOK'
  BY <1>1, <1>8, WalkTypes DEF WriteFileFails
<1>9. ASSUME CompleteStage PROVE TypeOK'
  <2>1. stage' \in [Stages -> StageStatuses]
    BY <1>1, <1>9, CloseTypes DEF CompleteStage, At
  <2>2. result' \in [Stages -> {"none", "complete", "failed", "skipped"}]
    BY <1>1, <1>9, CloseTypes DEF CompleteStage, At
  <2>3. [walk EXCEPT !.pc = "rank"] \in WalkMemory
    BY <1>1 DEF WalkMemory
  <2>4. walk' \in WalkMemory
    BY <1>1, <1>9, <2>3, WalkTypes DEF CompleteStage, At
  <2> QED
    BY <1>9, <2>1, <2>2, <2>4 DEF CompleteStage
<1>10. ASSUME NEW order \in Orderings, ReadOrdering(order) PROVE TypeOK'
  <2>1. order \in Seq(0..(Variants - 1))
    BY OrderingTypes DEF Indexes
  <2>2. [walk EXCEPT !.pc = "ranking", !.order = order] \in WalkMemory
    BY <1>1, <2>1 DEF WalkMemory
  <2>3. walk' \in WalkMemory
    BY <1>1, <1>10, <2>2, WalkTypes DEF ReadOrdering, At
  <2> QED
    BY <1>10, <2>3 DEF ReadOrdering
<1>11. ASSUME RankOne PROVE TypeOK'
  <2> DEFINE n == Cardinality(Landed("build"))
             place == n - Len(walk.order) + 1
  <2>1. /\ walk.order \in Seq(0..(Variants - 1)) /\ walk.order # <<>>
        /\ Len(walk.order) <= n
    BY <1>1, <1>11 DEF RankOne, WalkMemory, At, WhenRanked, RankingSoFar
  <2>2. /\ Len(walk.order) \in Nat
        /\ Head(walk.order) \in 0..(Variants - 1)
        /\ Tail(walk.order) \in Seq(0..(Variants - 1))
    BY <2>1, HeadTailProperties, LenProperties
  <2>3. n \in Nat /\ n <= Variants /\ Variants \in Nat
    BY LandedTypes, WalkConstants
  <2>4. place \in 0..Variants
    <3> HIDE DEF n
    <3>1. Len(walk.order) >= 1
      BY <2>1, <2>2, EmptySeq
    <3> QED
      BY <2>1, <2>2, <2>3, <3>1
  <2>5. rank' = [rank EXCEPT ![Head(walk.order)] = place]
    BY <1>11 DEF RankOne
  <2>6. [walk EXCEPT !.order = Tail(@)] \in WalkMemory
    BY <1>1, <2>2 DEF WalkMemory
  <2> HIDE DEF place
  <2> QED
    BY <1>11, <2>2, <2>4, <2>5, <2>6 DEF RankOne
<1>12. ASSUME RankingDone PROVE TypeOK'
  BY <1>1, <1>12, WalkTypes DEF RankingDone, At
<1>13. ASSUME CloseRun PROVE TypeOK'
  <2>1. OutcomeOf(Done) \in {"open", "complete", "degraded", "failed"}
    BY DEF OutcomeOf
  <2>2. FurthestOf(Done) \in Stages \cup {"none"}
    BY FurthestTypes
  <2> QED
    BY <1>1, <1>13, <2>1, <2>2, WalkTypes DEF CloseRun
<1> QED
  BY <1>2, <1>3, <1>4, <1>6, <1>7, <1>8, <1>9, <1>10, <1>11, <1>12, <1>13 DEF WalkStep
\* Every mishap and every step of recovery keeps the types.
LEMMA TypeRest ==
    ASSUME TypeOK, Mishap \/ Recovery
    PROVE  TypeOK'
<1> USE DEF TypeOK
<1>1. walk \in WalkMemory /\ (At("row") => walk.at <= 6 /\ Here \in Stages)
  BY StageNames DEF WalkMemory, At
<1>2. /\ mishaps.crash < MaxCrashes =>
           [mishaps EXCEPT !.crash = @ + 1] \in [crash : 0..MaxCrashes, fault : 0..MaxFaults]
      /\ mishaps.fault < MaxFaults =>
           [mishaps EXCEPT !.fault = @ + 1] \in [crash : 0..MaxCrashes, fault : 0..MaxFaults]
  BY WalkConstants
<1>3. ASSUME Crash PROVE TypeOK'
  BY <1>1, <1>2, <1>3, WalkTypes DEF Crash
<1>4. ASSUME InsertArtifactFails PROVE TypeOK'
  <2>1. stage' \in [Stages -> StageStatuses]
    BY <1>1, <1>4, CloseTypes DEF InsertArtifactFails
  <2>2. result' \in [Stages -> {"none", "complete", "failed", "skipped"}]
    BY <1>1, <1>4, CloseTypes DEF InsertArtifactFails, Return
  <2>3. walk' \in WalkMemory
    BY <1>1, <1>4, WalkTypes DEF InsertArtifactFails, Return
  <2> QED
    BY <1>2, <1>4, <2>1, <2>2, <2>3 DEF InsertArtifactFails, Fault
<1>5. ASSUME WalkRaises \/ CloseRunFails PROVE TypeOK'
  <2>1. walk' \in WalkMemory
    BY <1>1, <1>5, WalkTypes DEF WalkRaises, CloseRunFails
  <2> QED
    BY <1>2, <1>5, <2>1 DEF WalkRaises, CloseRunFails, Fault
<1>6. ASSUME NEW s \in Stages, RecoverStage(s) PROVE TypeOK'
  <2>1. stage' \in [Stages -> StageStatuses]
    BY <1>6, CloseTypes DEF RecoverStage
  <2> QED
    BY <1>6, <2>1 DEF RecoverStage
<1>7. ASSUME RecoverRun PROVE TypeOK'
  BY <1>7 DEF RecoverRun
<1> QED
  BY <1>3, <1>4, <1>5, <1>6, <1>7 DEF Mishap, Recovery

\* Every step keeps the types.
LEMMA TypeStep == WalkInv /\ [Next]_vars => TypeOK'
<1> SUFFICES ASSUME WalkInv, [Next]_vars PROVE TypeOK'
  OBVIOUS
<1>1. TypeOK /\ Writing /\ WhenRanked
  BY DEF WalkInv
<1>2. CASE UNCHANGED vars
  BY <1>1, <1>2 DEF vars, TypeOK
<1> QED
  BY <1>1, <1>2, TypeWalk, TypeRest DEF Next, Finished

-----------------------------------------------------------------------------
(* The inductive invariant.                                                *)

\* Nothing has been worked, landed or ranked at the start.
LEMMA WalkInit == Init => WalkInv
<1> SUFFICES ASSUME Init PROVE WalkInv
  OBVIOUS
<1>1. TypeOK
  BY TypeInit
<1>2. MemoryIsTrue /\ AtWork /\ ClosedAsItWas
  BY DEF Init, MemoryIsTrue, AtWork, ClosedAsItWas
<1>3. Writing
  BY DEF Init, Writing
<1>4. Ranked = {}
  BY WalkConstants DEF Init, Ranked, Indexes
<1>5. WhenRanked /\ InOrder /\ DistillAhead /\ WholeOrNone
  <2>1. Cardinality(Ranked) = 0 /\ 1..0 = {}
    BY <1>4, FS_EmptySet
  <2> QED
    BY <1>4, <2>1, StageNames DEF Init, WhenRanked, InOrder, DistillAhead, WholeOrNone
<1>6. CompleteMeansLanded
  BY DEF Init, CompleteMeansLanded, CompleteStages, Landed
<1> QED
  BY <1>1, <1>2, <1>3, <1>5, <1>6 DEF WalkInv

\* A stage that closes other than complete leaves the completed ones as they were.
LEMMA CloseKeeps ==
    ASSUME TypeOK, NEW s \in Stages, NEW status \in StageStatuses \ {"complete"},
           stage[s] # "complete", stage' = [stage EXCEPT ![s] = status]
    PROVE  CompleteStages' = CompleteStages
BY DEF TypeOK, CompleteStages

\* A step that neither completes a stage, nor writes a file, a row or a rank,
\* of a walk that is not at a rank: what is left to show is about its memory.
LEMMA RowsStay ==
    ASSUME WalkInv, TypeOK', CompleteStages' = CompleteStages,
           UNCHANGED <<files, rows, rank>>,
           \A s \in Stages : stage[s] = "complete" <=> stage'[s] = "complete",
           walk.pc \in CutShort => walk'.pc \in CutShort,
           stage'["distill"] = stage["distill"] \/ stage["distill"] # "absent"
              \/ walk.pc \notin CutShort,
           walk.at <= walk'.at,
           walk'.pc \notin {"rank", "ranking"}
    PROVE  CompleteMeansLanded' /\ WhenRanked' /\ InOrder' /\ WholeOrNone'
<1> USE DEF WalkInv
<1>1. "critique" \in Stages
  BY StageNames
<1>2. Landed("build")' = Landed("build") /\ Ranked' = Ranked
  BY DEF Landed, Ranked
<1>3. CompleteMeansLanded'
  BY DEF CompleteMeansLanded, Landed
<1>4. WhenRanked'
  BY <1>1, <1>2 DEF WhenRanked, TypeOK, WalkMemory
<1>5. InOrder' /\ WholeOrNone'
  BY <1>2 DEF InOrder, WholeOrNone
<1> QED
  BY <1>3, <1>4, <1>5
\* A stage that returns skipped or failed: its row is closed, and the walk
\* goes on with nothing left to write.
LEMMA ReturnStep ==
    ASSUME WalkInv, TypeOK', walk.pc \in {"turn", "blocked", "file", "row"},
           NEW status \in {"failed", "skipped"},
           CloseStage(Here, status), Return(Here, status),
           UNCHANGED <<files, rows, rank, run>>
    PROVE  WalkInv'
<1> USE DEF WalkInv
<1>1. walk.at \in 1..6 /\ Here \in Stages
  BY StageNames DEF AtWork, TypeOK, WalkMemory
<1>2. /\ stage[Here] = "running" /\ stage' = [stage EXCEPT ![Here] = status]
      /\ result' = [result EXCEPT ![Here] = status]
      /\ walk'.pc = "next" /\ walk'.at = walk.at + 1 /\ walk'.todo = {}
  BY DEF CloseStage, Return, TypeOK, WalkMemory
<1>3. CompleteStages' = CompleteStages
  BY <1>1, <1>2, CloseKeeps DEF StageStatuses
<1>4. \A s \in Stages : stage[s] = "complete" <=> stage'[s] = "complete"
  BY <1>1, <1>2 DEF TypeOK
<1>5. CompleteMeansLanded' /\ WhenRanked' /\ InOrder' /\ WholeOrNone'
  BY <1>1, <1>2, <1>3, <1>4, RowsStay DEF CutShort
<1>6. MemoryIsTrue'
  BY <1>1, <1>2 DEF MemoryIsTrue, TypeOK
<1>7. AtWork' /\ Writing' /\ ClosedAsItWas'
  BY <1>2 DEF AtWork, Writing, ClosedAsItWas
<1>8. DistillAhead'
  BY <1>1, <1>2, StageNames DEF DistillAhead, TypeOK
<1> QED
  BY <1>5, <1>6, <1>7, <1>8

\* A stage is inserted open, blocked or about to be worked.
LEMMA InsertStep == WalkInv /\ TypeOK' /\ InsertStage => WalkInv'
<1> SUFFICES ASSUME WalkInv, TypeOK', InsertStage PROVE WalkInv'
  OBVIOUS
<1> USE DEF WalkInv
<1>1. walk.at \in 1..6 /\ Here \in Stages
  BY StageNames DEF InsertStage, InsertRunStage, At, TypeOK, WalkMemory
<1>2. /\ stage[Here] = "absent" /\ stage' = [stage EXCEPT ![Here] = "running"]
      /\ UNCHANGED <<files, rows, rank, run, result, mishaps>>
      /\ walk'.pc = (IF CanRun(Here, Done) THEN "turn" ELSE "blocked")
      /\ walk'.at = walk.at /\ walk'.todo = walk.todo /\ walk.pc = "next"
  BY DEF InsertStage, InsertRunStage, At, TypeOK, WalkMemory
<1>3. CompleteStages' = CompleteStages
  BY <1>1, <1>2, CloseKeeps DEF StageStatuses
<1>4. \A s \in Stages : stage[s] = "complete" <=> stage'[s] = "complete"
  BY <1>1, <1>2 DEF TypeOK
<1>5. CompleteMeansLanded' /\ WhenRanked' /\ InOrder' /\ WholeOrNone'
  BY <1>1, <1>2, <1>3, <1>4, RowsStay DEF CutShort
<1>6. MemoryIsTrue' /\ DistillAhead'
  BY <1>1, <1>2, <1>4, StageNames DEF MemoryIsTrue, DistillAhead, TypeOK
<1>7. Here' = Here /\ Done = CompleteStages
  BY <1>2 DEF Here, Done, CompleteStages, MemoryIsTrue
<1>8. AtWork'
  <2>1. walk'.at <= 6 /\ stage'[Here] = "running"
    BY <1>1, <1>2 DEF TypeOK
  <2>2. walk'.pc = "turn" => CanRun(Here, CompleteStages)
    BY <1>2, <1>7
  <2>3. walk'.pc \in {"turn", "blocked"}
    BY <1>2
  <2> QED
    BY <1>3, <1>7, <2>1, <2>2, <2>3 DEF AtWork
<1>9. Writing' /\ ClosedAsItWas'
  BY <1>1, <1>2, <1>7 DEF Writing, ClosedAsItWas
<1> QED
  BY <1>5, <1>6, <1>8, <1>9

\* The turn came back, or one file of several could not be written.
LEMMA TodoStep ==
    ASSUME WalkInv, TypeOK',
           (\E k \in 1..Variants : TurnReturns(k)) \/ WriteFileFails
    PROVE  WalkInv'
<1> USE DEF WalkInv
<1>1. walk.at \in 1..6 /\ Here \in Stages
  <2>1. At("turn") \/ At("file")
    BY DEF TurnReturns, WriteFileFails
  <2> QED
    BY <2>1, StageNames DEF At, TypeOK, WalkMemory
<1>2. /\ UNCHANGED <<stage, files, rows, rank, run, result, mishaps>>
      /\ walk.pc \in {"turn", "file"} /\ walk'.pc = "file" /\ walk'.at = walk.at
  <2>1. ASSUME NEW k \in 1..Variants, TurnReturns(k)
        PROVE  /\ UNCHANGED <<stage, files, rows, rank, run, result, mishaps>>
               /\ walk.pc = "turn" /\ walk'.pc = "file" /\ walk'.at = walk.at
    BY <2>1 DEF TurnReturns, At, TypeOK, WalkMemory
  <2>2. ASSUME WriteFileFails
        PROVE  /\ UNCHANGED <<stage, files, rows, rank, run, result, mishaps>>
               /\ walk.pc = "file" /\ walk'.pc = "file" /\ walk'.at = walk.at
    BY <2>2 DEF WriteFileFails, At, TypeOK, WalkMemory
  <2> QED
    BY <2>1, <2>2
<1>3. walk'.todo \subseteq Indices(Here)
  <2>1. ASSUME NEW k \in 1..Variants, TurnReturns(k)
        PROVE  walk'.todo \subseteq Indices(Here)
    <3>1. walk'.todo = 0..(k - 1) /\ k \in 1..Cardinality(Indices(Here))
      BY <2>1 DEF TurnReturns, TypeOK, WalkMemory
    <3> QED
      BY <3>1, IndexTypes
  <2>2. ASSUME WriteFileFails PROVE walk'.todo \subseteq Indices(Here)
    BY <1>1, <2>2 DEF WriteFileFails, Writing, TypeOK, WalkMemory
  <2> QED
    BY <2>1, <2>2
<1>4. CompleteStages' = CompleteStages /\ Here' = Here
  BY <1>2 DEF CompleteStages, Here
<1>5. CompleteMeansLanded' /\ WhenRanked' /\ InOrder' /\ WholeOrNone'
  BY <1>1, <1>2, <1>4, RowsStay DEF CutShort
<1>6. MemoryIsTrue' /\ AtWork' /\ ClosedAsItWas' /\ DistillAhead'
  BY <1>1, <1>2, <1>4 DEF MemoryIsTrue, AtWork, ClosedAsItWas, DistillAhead
<1>7. Writing'
  BY <1>2, <1>3, <1>4 DEF Writing
<1> QED
  BY <1>5, <1>6, <1>7

\* The file is written: its row is next.
LEMMA WriteFileStep == WalkInv /\ TypeOK' /\ WriteFile => WalkInv'
<1> SUFFICES ASSUME WalkInv, TypeOK', WriteFile PROVE WalkInv'
  OBVIOUS
<1> USE DEF WalkInv
<1>1. walk.at \in 1..6 /\ Here \in Stages
  BY StageNames DEF WriteFile, At, TypeOK, WalkMemory
<1>2. /\ UNCHANGED <<stage, rows, rank, run, result, mishaps>>
      /\ files' = files \cup {<<Here, NextIndex>>}
      /\ walk.pc = "file" /\ walk.todo # {}
      /\ walk'.pc = "row" /\ walk'.at = walk.at /\ walk'.todo = walk.todo
  BY DEF WriteFile, At, TypeOK, WalkMemory
<1>3. CompleteStages' = CompleteStages /\ Here' = Here /\ NextIndex' = NextIndex
  BY <1>2 DEF CompleteStages, Here, NextIndex
<1>4. Landed("build")' = Landed("build") /\ Ranked' = Ranked
  BY <1>2 DEF Landed, Ranked
<1>5. CompleteMeansLanded'
  BY <1>2, <1>3 DEF CompleteMeansLanded, Landed
<1>6. WhenRanked' /\ InOrder' /\ WholeOrNone' /\ DistillAhead'
  BY <1>2, <1>4 DEF WhenRanked, InOrder, WholeOrNone, DistillAhead, CutShort
<1>7. MemoryIsTrue' /\ AtWork' /\ ClosedAsItWas' /\ Writing'
  BY <1>1, <1>2, <1>3 DEF MemoryIsTrue, AtWork, ClosedAsItWas, Writing
<1> QED
  BY <1>5, <1>6, <1>7
\* The row is inserted: what the stage has landed grows, and it had its inputs.
LEMMA InsertArtifactStep == WalkInv /\ TypeOK' /\ InsertArtifact => WalkInv'
<1> SUFFICES ASSUME WalkInv, TypeOK', InsertArtifact PROVE WalkInv'
  OBVIOUS
<1> USE DEF WalkInv
<1>1. walk.at \in 1..6 /\ Here \in Stages
  BY StageNames DEF InsertArtifact, InsertArtifactRow, At, TypeOK, WalkMemory
<1>2. /\ UNCHANGED <<stage, files, rank, run, result, mishaps>>
      /\ rows' = rows \cup {<<Here, NextIndex>>}
      /\ walk.pc = "row" /\ walk'.pc = "file" /\ walk'.at = walk.at
      /\ walk'.todo = walk.todo \ {NextIndex}
  BY DEF InsertArtifact, InsertArtifactRow, At, TypeOK, WalkMemory
<1>3. CompleteStages' = CompleteStages /\ Here' = Here /\ Ranked' = Ranked
  BY <1>2 DEF CompleteStages, Here, Ranked
<1>4. \A s \in Stages : /\ Landed(s) \subseteq Landed(s)'
                        /\ s # Here => Landed(s)' = Landed(s)
  BY <1>2 DEF Landed
<1>5. CompleteMeansLanded'
  <2>1. \A s \in CompleteStages : Landed(s)' # {}
    BY <1>4 DEF CompleteMeansLanded, CompleteStages
  <2>2. rows' \subseteq files'
    BY <1>2 DEF CompleteMeansLanded, Writing
  <2>3. \A s \in Stages : Landed(s)' # {} => CanRun(s, CompleteStages \ {s})
    <3>1. CanRun(Here, CompleteStages) /\ stage[Here] = "running"
      BY <1>2 DEF AtWork
    <3>2. CompleteStages \ {Here} = CompleteStages
      BY <3>1 DEF CompleteStages
    <3> QED
      BY <1>4, <3>1, <3>2 DEF CompleteMeansLanded
  <2> QED
    BY <1>2, <1>3, <2>1, <2>2, <2>3 DEF CompleteMeansLanded
<1>6. WhenRanked'
  BY <1>2, <1>3 DEF WhenRanked
<1>7. InOrder' /\ WholeOrNone' /\ DistillAhead'
  <2>1. Landed("build")' = Landed("build") \/ Ranked = {}
    BY <1>1, <1>4, StageNames DEF WhenRanked
  <2>2. Landed("build") \subseteq Landed("build")'
    BY <1>4, StageNames
  <2> QED
    BY <1>2, <1>3, <2>1, <2>2 DEF InOrder, WholeOrNone, DistillAhead, CutShort
<1>8. MemoryIsTrue' /\ AtWork' /\ ClosedAsItWas' /\ Writing'
  BY <1>1, <1>2, <1>3 DEF MemoryIsTrue, AtWork, ClosedAsItWas, Writing
<1> QED
  BY <1>5, <1>6, <1>7, <1>8

\* The stage completes: it landed something, and a critique goes on to rank.
LEMMA CompleteStep == WalkInv /\ TypeOK' /\ CompleteStage => WalkInv'
<1> SUFFICES ASSUME WalkInv, TypeOK', CompleteStage PROVE WalkInv'
  OBVIOUS
<1> USE DEF WalkInv
<1>1. walk.at \in 1..6 /\ Here \in Stages /\ "critique" \in Stages
  BY StageNames DEF CompleteStage, At, TypeOK, WalkMemory
<1>2. /\ UNCHANGED <<files, rows, rank, run, mishaps>>
      /\ walk.pc = "file" /\ walk.todo = {} /\ Landed(Here) # {}
      /\ stage[Here] = "running" /\ stage' = [stage EXCEPT ![Here] = "complete"]
      /\ result' = [result EXCEPT ![Here] = "complete"]
      /\ walk'.todo = {}
  BY DEF CompleteStage, CloseStage, OutputLanded, At, TypeOK, WalkMemory
<1>3. IF Here = "critique" THEN walk'.pc = "rank" /\ walk'.at = walk.at
                           ELSE walk'.pc = "next" /\ walk'.at = walk.at + 1
  BY DEF CompleteStage, TypeOK, WalkMemory
<1>4. CompleteStages' = CompleteStages \cup {Here} /\ Here \notin CompleteStages
  BY <1>1, <1>2 DEF CompleteStages, TypeOK
<1>5. (\A s \in Stages : Landed(s)' = Landed(s)) /\ Ranked' = Ranked
  BY <1>2 DEF Landed, Ranked
<1>6. CompleteMeansLanded'
  <2>1. \A s \in CompleteStages' : Landed(s) # {}
    BY <1>2, <1>4 DEF CompleteMeansLanded
  <2>2. \A s \in Stages : Landed(s) # {} => CanRun(s, CompleteStages' \ {s})
    <3>1. CanRun(Here, CompleteStages' \ {Here})
      BY <1>2, <1>4 DEF AtWork
    <3>2. ASSUME NEW s \in Stages \ {Here}, Landed(s) # {}
          PROVE  CanRun(s, CompleteStages' \ {s})
      <4>1. CanRun(s, CompleteStages \ {s})
        BY <3>2 DEF CompleteMeansLanded
      <4> QED
        BY <1>4, <4>1, InputsStay
    <3> QED
      BY <3>1, <3>2
  <2>3. \A s \in Stages : s \in CompleteStages' => Landed(s)' # {}
    BY <1>5, <2>1
  <2> QED
    BY <1>2, <1>5, <2>2, <2>3 DEF CompleteMeansLanded, CompleteStages
<1>7. Here = "critique" => Ranked = {}
  BY <1>1, <1>2 DEF WhenRanked
<1>8. /\ stage["critique"] = "complete" => stage'["critique"] = "complete"
      /\ Here = "critique" => walk.at = 5 /\ stage'["critique"] = "complete"
  BY <1>1, <1>2, StageNames DEF TypeOK
<1>9. WhenRanked'
  BY <1>1, <1>3, <1>5, <1>7, <1>8 DEF WhenRanked
<1>10. InOrder' /\ WholeOrNone' /\ DistillAhead'
  <2>1. Landed("build")' = Landed("build")
    BY <1>5, StageNames
  <2>2. Ranked \in {{}, Landed("build")}
    BY <1>2 DEF WholeOrNone, CutShort
  <2>3. InOrder' /\ WholeOrNone'
    BY <1>2, <1>5, <2>1, <2>2 DEF InOrder, WholeOrNone
  <2>4. DistillAhead'
    BY <1>1, <1>2, <1>3, StageNames DEF DistillAhead, TypeOK
  <2> QED
    BY <2>3, <2>4
<1>11. MemoryIsTrue'
  BY <1>1, <1>2, <1>3 DEF MemoryIsTrue, TypeOK
<1>12. AtWork' /\ Writing' /\ ClosedAsItWas'
  BY <1>2, <1>3 DEF AtWork, Writing, ClosedAsItWas
<1> QED
  BY <1>6, <1>9, <1>10, <1>11, <1>12
\* An ordering is read: it names every build that landed, and none is ranked.
LEMMA ReadOrderingStep ==
    ASSUME WalkInv, TypeOK', NEW order \in Orderings, ReadOrdering(order)
    PROVE  WalkInv'
<1> USE DEF WalkInv
<1> DEFINE Rest == /\ CompleteStages' = CompleteStages /\ Ranked' = Ranked
                   /\ \A s : Landed(s)' = Landed(s)
<1>1. /\ walk.pc = "rank" /\ walk.at = 5 /\ Ranked = {} /\ stage["critique"] = "complete"
      /\ UNCHANGED <<stage, files, rows, rank, run, result, mishaps>>
      /\ "build" \in Stages
  BY StageNames DEF ReadOrdering, At, WhenRanked
<1>2. Rest
  BY <1>1 DEF CompleteStages, Landed, Ranked
<1>3. /\ CompleteMeansLanded' /\ InOrder' /\ WholeOrNone'
      /\ stage'["distill"] = "absent"
  BY <1>1, <1>2 DEF CompleteMeansLanded, InOrder, WholeOrNone, DistillAhead
<1>4. CASE Covers(order)
  <2>1. /\ walk'.pc = "ranking" /\ walk'.order = order /\ walk'.at = 5
        /\ walk'.todo = walk.todo
    BY <1>1, <1>4 DEF ReadOrdering, TypeOK, WalkMemory
  <2>2. /\ ToSet(order) = Landed("build")
        /\ Len(order) = Cardinality(Landed("build"))
        /\ \A i, j \in 1..Len(order) : i # j => order[i] # order[j]
    BY <1>4, OrderingTypes DEF Covers
  <2>3. Cardinality(Ranked) = 0
    BY <1>1, FS_EmptySet
  <2>4. RankingSoFar'
    <3>1. Cardinality(Landed("build")) \in Nat
      BY LandedTypes
    <3>2. Cardinality(Landed("build")) - Len(order) = 0
      BY <2>2, <3>1
    <3> QED
      BY <1>1, <1>2, <2>1, <2>2, <2>3, <3>1, <3>2 DEF RankingSoFar
  <2>5. WhenRanked'
    BY <1>1, <1>2, <2>1, <2>4 DEF WhenRanked
  <2>6. MemoryIsTrue' /\ AtWork' /\ ClosedAsItWas' /\ Writing'
    BY <1>1, <2>1 DEF MemoryIsTrue, AtWork, ClosedAsItWas, Writing, Here,
                            ReadOrdering, At
  <2>7. DistillAhead'
    BY <1>3 DEF DistillAhead
  <2> QED
    BY <1>3, <2>5, <2>6, <2>7
<1>5. CASE ~Covers(order)
  <2>1. walk'.pc = "next" /\ walk'.at = 6 /\ walk'.todo = walk.todo
    BY <1>1, <1>5 DEF ReadOrdering, TypeOK, WalkMemory
  <2>2. WhenRanked'
    BY <1>1, <1>2, <2>1 DEF WhenRanked
  <2>3. MemoryIsTrue' /\ AtWork' /\ ClosedAsItWas'
    BY <1>1, <2>1 DEF MemoryIsTrue, AtWork, ClosedAsItWas, ReadOrdering, At
  <2>4. Writing' /\ DistillAhead'
    BY <1>1, <1>3, <2>1 DEF Writing, DistillAhead
  <2> QED
    BY <1>3, <2>2, <2>3, <2>4
<1> QED
  BY <1>4, <1>5
\* One build is given its place: those ranked so far hold one number more.
LEMMA RankOneStep == WalkInv /\ TypeOK' /\ RankOne => WalkInv'
<1> SUFFICES ASSUME WalkInv, TypeOK', RankOne PROVE WalkInv'
  OBVIOUS
<1> USE DEF WalkInv
<1> DEFINE n == Cardinality(Landed("build"))
           v == Head(walk.order)
           left == Tail(walk.order)
           place == n - Len(walk.order) + 1
<1>1. /\ walk.pc = "ranking" /\ walk.at = 5 /\ stage["critique"] = "complete"
      /\ RankingSoFar /\ walk.order # <<>> /\ walk.order \in Seq(Indexes)
      /\ "build" \in Stages
  BY StageNames DEF RankOne, At, WhenRanked, TypeOK, WalkMemory, Indexes
<1>2. /\ UNCHANGED <<stage, files, rows, run, result, mishaps>>
      /\ rank' = [rank EXCEPT ![v] = place]
      /\ walk'.pc = "ranking" /\ walk'.at = 5 /\ walk'.order = left
      /\ walk'.todo = walk.todo
  BY <1>1 DEF RankOne, TypeOK, WalkMemory
<1>3. /\ n \in Nat /\ Len(walk.order) \in Nat /\ Len(walk.order) >= 1
      /\ Len(left) = Len(walk.order) - 1 /\ Len(walk.order) <= n
  BY <1>1, LandedTypes, HeadTailProperties, EmptySeq DEF RankingSoFar
<1>4. /\ v \in Indexes /\ v = walk.order[1] /\ left \in Seq(Indexes)
      /\ \A i \in 1..Len(left) : left[i] = walk.order[i + 1]
  BY <1>1, HeadTailProperties
<1>5. /\ DOMAIN walk.order = 1..Len(walk.order)
      /\ DOMAIN left = 1..Len(left)
  BY <1>1, <1>4, LenProperties
<1> HIDE DEF left, v, n
<1>6. \A i, j \in 1..Len(walk.order) : i # j => walk.order[i] # walk.order[j]
  BY <1>1 DEF RankingSoFar
<1>7. ToSet(walk.order) = ToSet(left) \cup {v} /\ v \notin ToSet(left)
  <2>1. \A i \in 1..Len(walk.order) : i = 1 \/ i - 1 \in 1..Len(left)
    BY <1>3
  <2>2. \A i \in 1..Len(left) : i + 1 \in 1..Len(walk.order) /\ i + 1 # 1
    BY <1>3
  <2>3. 1 \in 1..Len(walk.order)
    BY <1>3
  <2>4. ToSet(left) \subseteq ToSet(walk.order) /\ v \in ToSet(walk.order)
    BY <1>4, <1>5, <2>2, <2>3 DEF ToSet
  <2>5. ASSUME NEW x \in ToSet(walk.order), x # v PROVE x \in ToSet(left)
    <3>1. PICK i \in 1..Len(walk.order) : x = walk.order[i]
      BY <1>5 DEF ToSet
    <3>2. i - 1 \in 1..Len(left) /\ (i - 1) + 1 = i
      BY <1>4, <2>1, <2>5, <3>1
    <3>3. left[i - 1] = x
      BY <1>4, <3>1, <3>2
    <3> QED
      BY <1>5, <3>2, <3>3 DEF ToSet
  <2>6. v \notin ToSet(left)
    BY <1>4, <1>5, <1>6, <2>2, <2>3 DEF ToSet
  <2> QED
    BY <2>4, <2>5, <2>6
<1>8. place \in Nat /\ place # 0
  BY <1>3
<1>9. /\ rank \in [Indexes -> 0..Variants] /\ rank' \in [Indexes -> 0..Variants]
      /\ rank'[v] = place /\ \A w \in Indexes \ {v} : rank'[w] = rank[w]
  BY <1>2, <1>4 DEF TypeOK, Indexes
<1>10. Ranked' = Ranked \cup {v} /\ v \notin Ranked
  <2>1. v \notin Ranked
    BY <1>1, <1>7 DEF RankingSoFar
  <2> QED
    BY <1>4, <1>8, <1>9, <2>1 DEF Ranked
<1>11. /\ \A s : Landed(s)' = Landed(s)
       /\ CompleteStages' = CompleteStages
  BY <1>2 DEF Landed, CompleteStages
<1>12. /\ Cardinality(Ranked) = place - 1 /\ Cardinality(Ranked') = place
       /\ n - Len(left) = place /\ InOrder'
  <2>1. Cardinality(Ranked) = n - Len(walk.order)
    BY <1>1 DEF RankingSoFar, n
  <2>2. Ranked \subseteq Indexes \ {v}
    BY <1>10 DEF Ranked
  <2>3. {rank'[w] : w \in Ranked'} = {rank[w] : w \in Ranked} \cup {place}
    BY <1>9, <1>10, <2>2
  <2>4. n - Len(left) = place /\ n - Len(walk.order) = place - 1
    BY <1>3
  <2>5. 1..place = 1..(place - 1) \cup {place}
    BY <1>8
  <2>6. IsFiniteSet(Ranked)
    BY LandedTypes, FS_Subset DEF InOrder
  <2>7. Cardinality(Ranked') = place
    <3>1. Cardinality(Ranked') = Cardinality(Ranked) + 1
      BY <1>10, <2>6, FS_AddElement
    <3> QED
      BY <1>8, <2>1, <2>4, <3>1
  <2>8. {rank'[w] : w \in Ranked'} = 1..Cardinality(Ranked')
    <3>1. {rank[w] : w \in Ranked} = 1..(place - 1)
      BY <2>1, <2>4 DEF InOrder
    <3> QED
      BY <2>3, <2>5, <2>7, <3>1
  <2>9. Ranked' \subseteq Landed("build")'
    BY <1>1, <1>7, <1>10, <1>11 DEF InOrder, RankingSoFar
  <2> QED
    BY <2>1, <2>4, <2>7, <2>8, <2>9 DEF InOrder
<1>13. RankingSoFar'
  <2>1. Cardinality(Landed("build")') = n
    BY <1>1, <1>11 DEF n
  <2>2. \A i, j \in 1..Len(left) : i # j => left[i] # left[j]
    <3>1. \A i \in 1..Len(left) : i + 1 \in 1..Len(walk.order)
      BY <1>3
    <3> QED
      BY <1>4, <1>6, <3>1
  <2>3. Landed("build") = Ranked' \cup ToSet(left) /\ Ranked' \cap ToSet(left) = {}
    BY <1>1, <1>7, <1>10 DEF RankingSoFar
  <2>4. Len(left) <= n
    BY <1>3
  <2> QED
    BY <1>1, <1>2, <1>11, <1>12, <2>1, <2>2, <2>3, <2>4 DEF RankingSoFar
<1>14. WhenRanked'
  BY <1>1, <1>2, <1>13 DEF WhenRanked
<1>15. CompleteMeansLanded' /\ WholeOrNone' /\ DistillAhead'
  BY <1>1, <1>2, <1>11 DEF CompleteMeansLanded, WholeOrNone, DistillAhead, CutShort
<1>16. MemoryIsTrue' /\ AtWork' /\ ClosedAsItWas' /\ Writing'
  BY <1>1, <1>2 DEF MemoryIsTrue, AtWork, ClosedAsItWas, Writing, Here
<1> QED
  BY <1>12, <1>14, <1>15, <1>16

\* The ordering is written down: the whole group is ranked, 1 to n.
LEMMA RankingDoneStep == WalkInv /\ TypeOK' /\ RankingDone => WalkInv'
<1> SUFFICES ASSUME WalkInv, TypeOK', RankingDone PROVE WalkInv'
  OBVIOUS
<1> USE DEF WalkInv
<1>1. /\ walk.pc = "ranking" /\ walk.at = 5 /\ stage["critique"] = "complete"
      /\ RankingSoFar /\ walk.order = <<>>
      /\ UNCHANGED <<stage, files, rows, rank, run, result, mishaps>>
      /\ walk'.pc = "next" /\ walk'.at = 6 /\ walk'.todo = walk.todo
  BY DEF RankingDone, At, WhenRanked, TypeOK, WalkMemory
<1>2. Len(walk.order) = 0 /\ ToSet(walk.order) = {}
  BY <1>1 DEF ToSet
<1>3. Ranked = Landed("build") /\ stage["distill"] = "absent"
  BY <1>1, <1>2 DEF RankingSoFar, DistillAhead
<1>4. /\ CompleteStages' = CompleteStages /\ Ranked' = Ranked
      /\ \A s : Landed(s)' = Landed(s)
  BY <1>1 DEF CompleteStages, Landed, Ranked
<1>5. InOrder' /\ WholeOrNone' /\ DistillAhead'
  BY <1>1, <1>3, <1>4 DEF InOrder, WholeOrNone, DistillAhead
<1>6. CompleteMeansLanded' /\ WhenRanked'
  BY <1>1, <1>4 DEF CompleteMeansLanded, WhenRanked
<1>7. MemoryIsTrue' /\ AtWork' /\ ClosedAsItWas' /\ Writing'
  BY <1>1 DEF MemoryIsTrue, AtWork, ClosedAsItWas, Writing
<1> QED
  BY <1>5, <1>6, <1>7
\* The walk closes its run with what its results say, which is what the rows
\* say; or the process is gone.
LEMMA LeaveStep ==
    ASSUME WalkInv, TypeOK',
           CloseRun \/ Crash \/ WalkRaises \/ CloseRunFails
    PROVE  WalkInv'
<1> USE DEF WalkInv
<1>1. /\ UNCHANGED <<stage, files, rows, rank>>
      /\ walk'.pc \in {"close", "done", "gone"}
      /\ walk.at <= walk'.at /\ walk.pc # "gone"
      /\ walk'.pc = "close" => walk'.at = walk.at /\ walk'.todo = walk.todo
      /\ walk'.pc # "close" => walk'.at = 7
  BY DEF CloseRun, Crash, WalkRaises, CloseRunFails, Over, Closing, At, TypeOK, WalkMemory
<1>3. CompleteStages' = CompleteStages
  BY <1>1 DEF CompleteStages
<1>4. CompleteMeansLanded' /\ WhenRanked' /\ InOrder' /\ WholeOrNone'
  BY <1>1, <1>3, RowsStay DEF CutShort
<1>2. DistillAhead'
  BY <1>1 DEF DistillAhead
<1>5. MemoryIsTrue'
  BY <1>1 DEF MemoryIsTrue, CloseRun, Crash, WalkRaises, CloseRunFails, Over
<1>6. AtWork' /\ Writing'
  BY <1>1 DEF AtWork, Writing, Here
<1>7. ClosedAsItWas'
  <2>1. ASSUME CloseRun PROVE ClosedAsItWas'
    <3>1. Done = CompleteStages
      BY <1>1 DEF Done, CompleteStages, MemoryIsTrue
    <3> QED
      BY <1>3, <2>1, <3>1 DEF CloseRun, ClosedAsItWas
  <2>2. ASSUME Crash \/ WalkRaises \/ CloseRunFails PROVE walk'.pc # "done"
    BY <2>2 DEF Crash, WalkRaises, CloseRunFails, Over, TypeOK, WalkMemory
  <2> QED
    BY <2>1, <2>2 DEF ClosedAsItWas
<1> QED
  BY <1>2, <1>4, <1>5, <1>6, <1>7

\* Recovery closes what a killed walk left open, and nothing else.
LEMMA RecoveryStep == WalkInv /\ TypeOK' /\ Recovery => WalkInv'
<1> SUFFICES ASSUME WalkInv, TypeOK', Recovery PROVE WalkInv'
  OBVIOUS
<1> USE DEF WalkInv
<1>1. walk.pc = "gone" /\ UNCHANGED <<files, rows, rank, result, walk, mishaps>>
  BY DEF Recovery, RecoverRun, RecoverStage
<1>2. \/ stage' = stage
      \/ \E s \in Stages : stage[s] = "running" /\ stage' = [stage EXCEPT ![s] = "failed"]
  BY DEF Recovery, RecoverRun, RecoverStage, CloseStage
<1>3. /\ CompleteStages' = CompleteStages
      /\ \A s \in Stages : stage[s] = "complete" <=> stage'[s] = "complete"
  BY <1>2 DEF CompleteStages, TypeOK
<1>4. stage["distill"] = "absent" => stage'["distill"] = "absent"
  BY <1>2, StageNames DEF TypeOK
<1>5. CompleteMeansLanded' /\ WhenRanked' /\ InOrder' /\ WholeOrNone'
  <2>1. stage'["distill"] = stage["distill"] \/ stage["distill"] # "absent"
    BY <1>4
  <2> QED
    BY <1>1, <1>3, <2>1, RowsStay DEF TypeOK, WalkMemory, CutShort
<1>6. MemoryIsTrue' /\ AtWork' /\ Writing' /\ ClosedAsItWas' /\ DistillAhead'
  BY <1>1, <1>4 DEF MemoryIsTrue, AtWork, Writing, ClosedAsItWas, Here, DistillAhead
<1> QED
  BY <1>5, <1>6

\* Every step keeps the invariant.
LEMMA WalkInvStep == WalkInv /\ [Next]_vars => WalkInv'
<1> SUFFICES ASSUME WalkInv, [Next]_vars PROVE WalkInv'
  OBVIOUS
<1>1. TypeOK'
  BY TypeStep
<1>2. ASSUME CloseBlocked \/ ResearchSkips \/ TurnFails \/ OutputMissing
             \/ InsertArtifactFails
      PROVE  WalkInv'
  <2>2. PICK status \in {"failed", "skipped"} :
           /\ walk.pc \in {"turn", "blocked", "file", "row"}
           /\ CloseStage(Here, status) /\ Return(Here, status)
           /\ UNCHANGED <<files, rows, rank, run>>
    BY <1>2 DEF CloseBlocked, ResearchSkips, TurnFails, OutputMissing,
                InsertArtifactFails, At
  <2> QED
    BY <1>1, <2>2, ReturnStep
<1>3. CASE UNCHANGED vars
  <2>1. UNCHANGED <<stage, files, rows, rank, run, result, walk, mishaps>>
    BY <1>3 DEF vars
  <2>2. /\ CompleteStages' = CompleteStages /\ Ranked' = Ranked
        /\ Here' = Here /\ NextIndex' = NextIndex
        /\ \A s : Landed(s)' = Landed(s)
    BY <2>1 DEF CompleteStages, Ranked, Here, NextIndex, Landed
  <2>3. MemoryIsTrue' /\ AtWork' /\ Writing' /\ ClosedAsItWas'
    BY <2>1, <2>2 DEF WalkInv, MemoryIsTrue, AtWork, Writing, ClosedAsItWas
  <2>4. CompleteMeansLanded' /\ InOrder' /\ DistillAhead' /\ WholeOrNone'
    BY <2>1, <2>2 DEF WalkInv, CompleteMeansLanded, InOrder, DistillAhead, WholeOrNone
  <2>5. WhenRanked'
    BY <2>1, <2>2 DEF WalkInv, WhenRanked, RankingSoFar
  <2> QED
    BY <1>1, <2>3, <2>4, <2>5 DEF WalkInv
<1> QED
  BY <1>1, <1>2, <1>3, InsertStep, TodoStep, WriteFileStep, InsertArtifactStep,
     CompleteStep, ReadOrderingStep, RankOneStep, RankingDoneStep, LeaveStep, RecoveryStep
  DEF Next, WalkStep, Mishap, Finished

\* WalkInv holds of every reachable state.
LEMMA WalkInvariant == Spec => []WalkInv
BY WalkInit, WalkInvStep, PTL DEF Spec

-----------------------------------------------------------------------------
(* What follows from it.                                                   *)

\* Every row and the whole of the walk's memory hold values the schema admits.
THEOREM WalkTypeCorrect == Spec => []TypeOK
<1>1. WalkInv => TypeOK
  BY DEF WalkInv
<1> QED
  BY <1>1, WalkInvariant, PTL

\* Whenever the process is killed and whatever raises, a stage recorded
\* complete has something to open, every artifact row has its file, and a
\* stage that landed anything had its inputs.
THEOREM CompleteHasLanded == Spec => []CompleteMeansLanded
<1>1. WalkInv => CompleteMeansLanded
  BY DEF WalkInv
<1> QED
  BY <1>1, WalkInvariant, PTL

\* At every moment, whatever was killed or raised and in the middle of a ranking
\* too, the builds with a rank are the first of one ordering of those that landed,
\* by a critique that completed; and a walk that has gone on to distil left the
\* group unranked or ranked as a whole (variants.py `rank_group`, run.py
\* `_rank_the_builds`).  For any number of variants and of mishaps.
THEOREM RankingIsWhole == Spec => []RankedAsAWhole
<1>1. ASSUME WalkInv PROVE RankedAsAWhole
  <2>1. {v \in DOMAIN rank : rank[v] # 0} = Ranked
    BY <1>1 DEF WalkInv, TypeOK, Ranked, Indexes
  <2> QED
    BY <1>1, <2>1 DEF WalkInv, InOrder, WhenRanked, WholeOrNone, RankedAsAWhole
<1> QED
  BY <1>1, WalkInvariant, PTL

\* What the outcome and the furthest stage of a set of completed stages say.
LEMMA OutcomeSays ==
    ASSUME NEW done \in SUBSET Stages
    PROVE  /\ OutcomeOf(done) = "complete" <=> done = Stages
           /\ OutcomeOf(done) = "failed" <=> done = {}
           /\ \A i \in 1..6 : STAGES[i] \in done =>
                 \E j \in i..6 : STAGES[j] = FurthestOf(done)
           /\ FurthestOf(done) \in done \cup {"none"}
<1>1. Stages # {}
  BY StageNames
<1>2. /\ OutcomeOf(done) = "complete" <=> done = Stages
      /\ OutcomeOf(done) = "failed" <=> done = {}
  BY <1>1 DEF OutcomeOf
<1>3. CASE done = {}
  BY <1>2, <1>3 DEF FurthestOf
<1>4. CASE done # {}
  <2>1. PICK k \in 1..6 : /\ FurthestOf(done) = STAGES[k] /\ STAGES[k] \in done
                          /\ \A j \in (k+1)..6 : STAGES[j] \notin done
    BY <1>4, FurthestIsLast
  <2>2. ASSUME NEW i \in 1..6, STAGES[i] \in done PROVE k \in i..6
    BY <2>1, <2>2
  <2> QED
    BY <1>2, <2>1, <2>2
<1> QED
  BY <1>3, <1>4

\* A run closed by its own walk says what its rows say, also when an exception
\* cut the walk short.
THEOREM ClosedRunIsDescribed == Spec => []ClosedRunDescribesItsStages
<1>1. WalkInv => ClosedRunDescribesItsStages
  <2> SUFFICES ASSUME WalkInv, walk.pc = "done" PROVE ClosedRunDescribesItsStages
    BY DEF ClosedRunDescribesItsStages
  <2>1. /\ run.outcome = OutcomeOf(CompleteStages)
        /\ run.furthest = FurthestOf(CompleteStages)
    BY DEF WalkInv, ClosedAsItWas
  <2>2. CompleteStages \in SUBSET Stages
    BY DEF CompleteStages
  <2> QED
    BY <2>1, <2>2, OutcomeSays DEF ClosedRunDescribesItsStages
<1> QED
  BY <1>1, WalkInvariant, PTL

\* No step takes back a completed stage or a recorded artifact.
THEOREM FinishedIsKept == Spec => FinishedWorkIsKept
<1>1. WalkInv /\ [Next]_vars =>
        [/\ CompleteStages \subseteq {s \in Stages : stage'[s] = "complete"}
         /\ rows \subseteq rows']_vars
  <2> SUFFICES ASSUME WalkInv, [Next]_vars
               PROVE  /\ CompleteStages \subseteq {s \in Stages : stage'[s] = "complete"}
                      /\ rows \subseteq rows'
    OBVIOUS
  <2>1. rows \subseteq rows'
    BY DEF Next, WalkStep, Mishap, Recovery, Finished, InsertStage, InsertRunStage, CloseBlocked,
           ResearchSkips, TurnFails, TurnReturns, WriteFile, InsertArtifact, InsertArtifactRow,
           WriteFileFails, OutputMissing, CompleteStage, ReadOrdering, RankOne,
           RankingDone, CloseRun, Crash, InsertArtifactFails, WalkRaises,
           CloseRunFails, RecoverStage, RecoverRun, vars
  <2> DEFINE OpenOnly == \E s : /\ stage[s] \in {"absent", "running"}
                                /\ \A t \in Stages \ {s} : stage'[t] = stage[t]
  <2>2. ASSUME NEW s, NEW status, CloseStage(s, status) PROVE OpenOnly
    <3>1. /\ stage[s] \in {"absent", "running"}
          /\ \A t \in Stages \ {s} : stage'[t] = stage[t]
      BY <2>2 DEF CloseStage, WalkInv, TypeOK
    <3> QED
      BY <3>1
  <2>3. ASSUME CloseBlocked \/ ResearchSkips \/ TurnFails \/ OutputMissing
               \/ CompleteStage \/ InsertArtifactFails
        PROVE  OpenOnly
    <3>1. PICK status : CloseStage(Here, status)
      BY <2>3 DEF CloseBlocked, ResearchSkips, TurnFails, OutputMissing, CompleteStage,
                  InsertArtifactFails
    <3> QED
      BY <2>2, <3>1
  <2>4. ASSUME InsertStage PROVE OpenOnly
    BY <2>4 DEF InsertStage, InsertRunStage, WalkInv, TypeOK
  <2>5. ASSUME NEW s \in Stages, RecoverStage(s) PROVE OpenOnly
    BY <2>2, <2>5 DEF RecoverStage
  <2>6. stage' = stage \/ OpenOnly
    <3> HIDE DEF OpenOnly
    <3> QED
      BY <2>3, <2>4, <2>5
      DEF Next, WalkStep, Mishap, Recovery, Finished, TurnReturns, WriteFile,
          InsertArtifact, InsertArtifactRow, WriteFileFails, ReadOrdering, RankOne, RankingDone, CloseRun,
          Crash, WalkRaises, CloseRunFails, RecoverRun, vars
  <2> QED
    BY <2>1, <2>6 DEF CompleteStages
<1> QED
  BY <1>1, WalkInvariant, PTL DEF Spec, FinishedWorkIsKept
=============================================================================
