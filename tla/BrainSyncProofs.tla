---------------------------- MODULE BrainSyncProofs ----------------------------
(***************************************************************************)
(* Theorems about BrainSync, for any entries, dates, lines, nights and     *)
(* mishaps: entries are journaled once, a person's unfinished line is      *)
(* taken with a file a night revised or left out of every commit, and what *)
(* is reported of commits is so.                                           *)
(*                                                                         *)
(* Four invariants: the types; what a person has staged (HandsOff); where  *)
(* a night's note is (NotesInv); and, of syncs that do not overlap, what   *)
(* the sync at work knows of the journal (JournalInv).                     *)
(***************************************************************************)
EXTENDS BrainSync, FiniteSetTheorems, SequenceTheorems, WellFoundedInduction,
        NaturalsInduction, TLAPS

-----------------------------------------------------------------------------
(* Days, and the entries of one of them in order.                          *)

\* A set of numbers that is not empty has a least one.
LEMMA LeastDay ==
    ASSUME NEW S, S \subseteq Nat, S # {}
    PROVE  \E v \in S : \A w \in S : v <= w
<1> DEFINE Below == {p \in Nat \X Nat : p[1] < p[2]}
<1>1. IsWellFoundedOn(Below, Nat)
  BY NatLessThanWellFounded DEF OpToRel
<1>2. \A v, w \in Nat : <<w, v>> \in Below <=> w < v
  OBVIOUS
<1> HIDE DEF Below
<1>3. PICK v \in S : \A w \in S : <<w, v>> \notin Below
  BY <1>1, WFMin, Zenon
<1>4. \A w \in S : ~ (w < v)
  BY <1>2, <1>3
<1>5. \A w \in S : v <= w
  BY <1>4
<1> QED
  BY <1>5

\* The entries of a day in order are those entries, each once.
LEMMA OrderListsEach ==
    ASSUME NEW S \in SUBSET Entries, NEW q \in InOrder(S)
    PROVE  /\ q \in Seq(S)
           /\ \A j, k \in DOMAIN q : q[j] = q[k] => j = k
           /\ S = {q[k] : k \in DOMAIN q}
<1>1. IsFiniteSet(S) /\ Cardinality(S) \in Nat
  BY BrainConstants, FS_Subset, FS_CardinalityType
<1> DEFINE n == Cardinality(S)
<1>2. q \in [1 .. n -> S] /\ \A j, k \in DOMAIN q : j < k => q[j] < q[k]
  BY DEF InOrder
<1>3. q \in Seq(S)
  BY <1>1, <1>2, SeqDef
<1>4. \A j, k \in DOMAIN q : q[j] = q[k] => j = k
  <2> SUFFICES ASSUME NEW j \in 1 .. n, NEW k \in 1 .. n, q[j] = q[k], j < k PROVE FALSE
    BY <1>1, <1>2
  <2>1. q[j] \in Nat /\ q[j] < q[k]
    BY <1>2, BrainConstants
  <2> QED
    BY <2>1
<1>5. q \in Injection(1 .. n, S)
  BY <1>2, <1>4 DEF Injection, IsInjective
<1>6. IsFiniteSet(1 .. n) /\ Cardinality(1 .. n) = n
  BY <1>1, FS_Interval
<1>7. q \in Surjection(1 .. n, S)
  BY <1>1, <1>5, <1>6, FS_Injection
<1>8. S = {q[k] : k \in DOMAIN q}
  BY <1>2, <1>7 DEF Surjection
<1> QED
  BY <1>3, <1>4, <1>8

-----------------------------------------------------------------------------
(* What a sync writes to a journal file.                                   *)

\* A file each of whose blocks is of that day, and of an entry of its own.
OnceEach(file, d) ==
    /\ file \in Seq(Blocks)
    /\ \A i \in DOMAIN file : DayOf[file[i].entry] = d
    /\ \A i, j \in DOMAIN file : file[i].entry = file[j].entry => i = j

\* Where the elements of two sequences joined come from.
LEMMA Joined ==
    ASSUME NEW S, NEW a \in Seq(S), NEW b \in Seq(S), NEW file, file = a \o b
    PROVE  /\ file \in Seq(S) /\ DOMAIN file = 1 .. Len(a) + Len(b)
           /\ \A i \in DOMAIN file :
                \/ i \in DOMAIN a /\ file[i] = a[i]
                \/ i - Len(a) \in DOMAIN b /\ file[i] = b[i - Len(a)] /\ i \notin DOMAIN a
           /\ \A i \in DOMAIN a : i \in DOMAIN file /\ file[i] = a[i]
           /\ \A k \in DOMAIN b : Len(a) + k \in DOMAIN file /\ file[Len(a) + k] = b[k]
<1>1. Len(a) \in Nat /\ Len(b) \in Nat /\ DOMAIN a = 1 .. Len(a) /\ DOMAIN b = 1 .. Len(b)
  OBVIOUS
<1>2. file \in Seq(S) /\ Len(file) = Len(a) + Len(b) /\ DOMAIN file = 1 .. Len(a) + Len(b)
  OBVIOUS
<1>3. \A i \in 1 .. Len(a) + Len(b) :
        file[i] = IF i <= Len(a) THEN a[i] ELSE b[i - Len(a)]
  BY <1>1
<1>4. \A i \in DOMAIN file :
        \/ i \in DOMAIN a /\ file[i] = a[i]
        \/ i - Len(a) \in DOMAIN b /\ file[i] = b[i - Len(a)] /\ i \notin DOMAIN a
  BY <1>1, <1>2, <1>3
<1>5. \A i \in DOMAIN a : i \in DOMAIN file /\ file[i] = a[i]
  BY <1>1, <1>2, <1>3
<1>6. \A k \in DOMAIN b : Len(a) + k \in DOMAIN file /\ file[Len(a) + k] = b[k]
  BY <1>1, <1>2, <1>3
<1> QED
  BY <1>2, <1>4, <1>5, <1>6

\* Entries of that day that are not in the file can be added to it.
LEMMA RewrittenOnce ==
    ASSUME NEW s, NEW d, NEW old, OnceEach(old, d), proc[s].file = old,
           Group(s) \subseteq Entries, \A e \in Group(s) : DayOf[e] = d,
           Group(s) \cap IdsIn(old) = {},
           NEW file \in Rewritten(s)
    PROVE  OnceEach(file, d) /\ IdsIn(file) = IdsIn(old) \cup Group(s)
<1>1. PICK q \in InOrder(Group(s)) : file = old \o [k \in DOMAIN q |-> Block(q[k])]
  BY DEF Rewritten
<1>2. /\ q \in Seq(Group(s)) /\ \A j, k \in DOMAIN q : q[j] = q[k] => j = k
      /\ Group(s) = {q[k] : k \in DOMAIN q}
  BY OrderListsEach
<1> DEFINE b == [k \in DOMAIN q |-> Block(q[k])]
<1>3. /\ b \in Seq(Blocks) /\ Len(b) = Len(q) /\ DOMAIN b = DOMAIN q
      /\ \A k \in DOMAIN b : b[k].entry = q[k] /\ b[k].entry \in Group(s)
  <2>1. DOMAIN q = 1 .. Len(q) /\ Len(q) \in Nat /\ \A k \in DOMAIN q : q[k] \in Entries
    BY <1>2
  <2>2. \A k \in DOMAIN q : Block(q[k]) \in Blocks /\ Block(q[k]).entry = q[k]
    BY <2>1 DEF Block, Blocks
  <2> QED
    BY <1>2, <2>1, <2>2
<1> HIDE DEF b
<1>4. old \in Seq(Blocks) /\ b \in Seq(Blocks) /\ file = old \o b
  BY <1>1, <1>3 DEF OnceEach, b
<1>5. /\ file \in Seq(Blocks) /\ DOMAIN file = 1 .. Len(old) + Len(b)
      /\ \A i \in DOMAIN file :
           \/ i \in DOMAIN old /\ file[i] = old[i]
           \/ i - Len(old) \in DOMAIN b /\ file[i] = b[i - Len(old)] /\ i \notin DOMAIN old
      /\ \A i \in DOMAIN old : i \in DOMAIN file /\ file[i] = old[i]
      /\ \A k \in DOMAIN b : Len(old) + k \in DOMAIN file /\ file[Len(old) + k] = b[k]
  BY <1>4, Joined
<1>6. \A i \in DOMAIN file : DayOf[file[i].entry] = d
  BY <1>3, <1>5 DEF OnceEach
<1>7. ASSUME NEW i \in DOMAIN file, NEW j \in DOMAIN file, file[i].entry = file[j].entry
      PROVE  i = j
  <2>1. CASE i \in DOMAIN old /\ j \in DOMAIN old
    BY <1>5, <1>7, <2>1 DEF OnceEach
  <2>2. CASE i \notin DOMAIN old /\ j \notin DOMAIN old
    <3>1. /\ i - Len(old) \in DOMAIN q /\ j - Len(old) \in DOMAIN q
          /\ q[i - Len(old)] = q[j - Len(old)]
      BY <1>3, <1>5, <1>7, <2>2
    <3>2. i - Len(old) = j - Len(old)
      BY <1>2, <3>1
    <3> QED
      BY <1>4, <1>5, <3>2
  <2>3. CASE \/ i \in DOMAIN old /\ j \notin DOMAIN old
             \/ i \notin DOMAIN old /\ j \in DOMAIN old
    BY <1>3, <1>5, <1>7, <2>3 DEF IdsIn
  <2> QED
    BY <2>1, <2>2, <2>3
<1>8. IdsIn(file) = IdsIn(old) \cup Group(s)
  <2>1. IdsIn(file) \subseteq IdsIn(old) \cup Group(s)
    BY <1>3, <1>5 DEF IdsIn
  <2>2. IdsIn(old) \subseteq IdsIn(file)
    BY <1>5 DEF IdsIn
  <2>3. Group(s) \subseteq IdsIn(file)
    <3> SUFFICES ASSUME NEW e \in Group(s) PROVE e \in IdsIn(file)
      OBVIOUS
    <3>1. PICK k \in DOMAIN b : b[k].entry = e
      BY <1>2, <1>3
    <3> QED
      BY <1>5, <3>1 DEF IdsIn
  <2> QED
    BY <2>1, <2>2, <2>3
<1> QED
  BY <1>5, <1>6, <1>7, <1>8 DEF OnceEach

\* What is left of a file is blocks of it, the last of them perhaps cut off.
LEMMA LeftoverBlocks ==
    ASSUME NEW file \in Seq(Blocks), NEW left \in Leftovers(file)
    PROVE  /\ left \in Seq(Blocks)
           /\ \A i \in DOMAIN left : i \in DOMAIN file /\ left[i].entry = file[i].entry
<1>1. Len(file) \in Nat /\ DOMAIN file = 1 .. Len(file)
  OBVIOUS
<1>2. PICK k \in 0 .. Len(file) - 1 :
         \/ left = SubSeq(file, 1, k)
         \/ left = Append(SubSeq(file, 1, k), [file[k + 1] EXCEPT !.whole = FALSE])
  BY DEF Leftovers
<1> DEFINE cut == [file[k + 1] EXCEPT !.whole = FALSE]
<1>3. k + 1 \in DOMAIN file /\ file[k + 1] \in Blocks
  BY <1>1
<1>4. cut \in Blocks /\ cut.entry = file[k + 1].entry
  BY <1>3 DEF Blocks
<1>5. /\ SubSeq(file, 1, k) \in Seq(Blocks) /\ Len(SubSeq(file, 1, k)) = k
      /\ \A i \in 1 .. k : SubSeq(file, 1, k)[i] = file[i] /\ i \in DOMAIN file
  BY <1>1
<1> HIDE DEF cut
<1>6. CASE left = SubSeq(file, 1, k)
  BY <1>5, <1>6
<1>7. CASE left = Append(SubSeq(file, 1, k), cut)
  BY <1>3, <1>4, <1>5, <1>7
<1> QED
  BY <1>2, <1>6, <1>7 DEF cut

\* What a write that is cut short leaves of such a file is such a file.
LEMMA LeftoverOnce ==
    ASSUME NEW d, NEW file, OnceEach(file, d), NEW left \in Leftovers(file)
    PROVE  OnceEach(left, d)
BY LeftoverBlocks DEF OnceEach

\* What is written is blocks, whatever was read.
LEMMA RewrittenBlocks ==
    ASSUME NEW s, proc[s].file \in Seq(Blocks), Group(s) \subseteq Entries,
           NEW file \in Rewritten(s)
    PROVE  file \in Seq(Blocks)
<1>1. PICK q \in InOrder(Group(s)) : file = proc[s].file \o [k \in DOMAIN q |-> Block(q[k])]
  BY DEF Rewritten
<1>2. q \in Seq(Group(s))
  BY OrderListsEach
<1>3. [k \in DOMAIN q |-> Block(q[k])] \in Seq(Blocks)
  <2>1. DOMAIN q = 1 .. Len(q) /\ Len(q) \in Nat /\ \A k \in DOMAIN q : q[k] \in Entries
    BY <1>2
  <2>2. \A k \in DOMAIN q : Block(q[k]) \in Blocks
    BY <2>1 DEF Block, Blocks
  <2> QED
    BY <2>1, <2>2
<1> QED
  BY <1>1, <1>3

-----------------------------------------------------------------------------
(* Types.                                                                  *)

\* A sync that reads or writes a day has entries of one.
Busy == \A s \in Syncs : proc[s].pc \in {"read", "write"} => proc[s].todo # {}

TypeInv == TypeOK /\ Busy

Pcs == {"idle", "over", "select", "read", "write", "readTopics", "writeTopics",
        "add", "diff", "commit", "head"}

\* A process that goes on to another step keeps what it has in memory.
LEMMA GoesOn ==
    ASSUME TypeInv, NEW p \in Processes, NEW pc \in Pcs \ {"read", "write"}, Goes(p, pc)
    PROVE  proc' \in [Processes -> Memory] /\ Busy'
<1>1. proc \in [Processes -> Memory] /\ proc' = [proc EXCEPT ![p] = [proc[p] EXCEPT !.pc = pc]]
  BY DEF TypeInv, TypeOK, Goes
<1>2. [proc[p] EXCEPT !.pc = pc] \in Memory /\ [proc[p] EXCEPT !.pc = pc].pc = pc
  BY <1>1 DEF Memory, Pcs
<1> DEFINE m == [proc[p] EXCEPT !.pc = pc]
<1> HIDE DEF m
<1>3. proc' \in [Processes -> Memory]
  BY <1>1, <1>2 DEF m
<1>4. Busy'
  BY <1>1, <1>2 DEF m, Busy, TypeInv, Processes
<1> QED
  BY <1>3, <1>4

\* A process that ends has nothing in memory.
LEMMA EndsClean ==
    ASSUME TypeInv, NEW p \in Processes, Ends(p)
    PROVE  /\ proc' \in [Processes -> Memory] /\ Busy'
           /\ proc'[p].pc = (IF p \in Nights THEN "over" ELSE "idle")
           /\ ~ proc'[p].revised
           /\ \A q \in Processes \ {p} : proc'[q] = proc[q]
<1> DEFINE m == [Resting EXCEPT !.pc = IF p \in Nights THEN "over" ELSE "idle"]
<1>1. proc \in [Processes -> Memory] /\ proc' = [proc EXCEPT ![p] = m]
  BY DEF TypeInv, TypeOK, Ends
<1>2. /\ m \in Memory /\ m.pc = (IF p \in Nights THEN "over" ELSE "idle") /\ ~ m.revised
  <2> DEFINE pc == IF p \in Nights THEN "over" ELSE "idle"
  <2>1. Resting \in Memory /\ ~ Resting.revised
    <3>1. <<>> \in Seq(Blocks)
      OBVIOUS
    <3> QED
      BY <3>1 DEF Resting, Memory
  <2>2. pc \in {"over", "idle"} /\ m = [Resting EXCEPT !.pc = pc]
    OBVIOUS
  <2> HIDE DEF m, pc
  <2>3. m \in Memory /\ m.pc = pc /\ ~ m.revised
    BY <2>1, <2>2 DEF Memory
  <2> QED
    BY <2>3 DEF pc
<1>3. m.pc \notin {"read", "write"}
  BY <1>2
<1> HIDE DEF m
<1>4. proc' \in [Processes -> Memory] /\ proc'[p] = m /\ \A q \in Processes \ {p} : proc'[q] = proc[q]
  BY <1>1, <1>2
<1>5. Busy'
  BY <1>3, <1>4 DEF Busy, TypeInv, Processes
<1> QED
  BY <1>2, <1>4, <1>5

\* A commit is of what the index holds, and only notes it brings are born in it.
LEMMA CommitTyped ==
    ASSUME TypeOK, CommitIndex
    PROVE  /\ entries' = entries /\ tree' = tree /\ index' = index /\ head' = index
           /\ head' \in Snapshots /\ commits' \in Nat /\ born' \in [Nights -> Nat]
BY DEF TypeOK, CommitIndex

\* A snapshot whose journal has that file for that day.
Written(t, d, file) == [t EXCEPT !.journal[d] = file]

\* A file written to the journal leaves the rest of the tree alone.
LEMMA DayWritten ==
    ASSUME NEW t \in Snapshots, NEW d \in Days, NEW file \in Seq(Blocks)
    PROVE  /\ Written(t, d, file) \in Snapshots
           /\ Written(t, d, file).journal[d] = file
           /\ \A c \in Days : c # d => Written(t, d, file).journal[c] = t.journal[c]
<1> DEFINE j == [t.journal EXCEPT ![d] = file]
<1>1. t.journal \in [Days -> Seq(Blocks)]
  BY DEF Snapshots
<1>2. j \in [Days -> Seq(Blocks)] /\ j[d] = file /\ \A c \in Days : c # d => j[c] = t.journal[c]
  BY <1>1
<1>3. Written(t, d, file) = [t EXCEPT !.journal = j]
  BY DEF Written
<1> HIDE DEF j
<1> QED
  BY <1>2, <1>3 DEF Snapshots

\* A sync's memory of what is to be written, replaced by another.
LEMMA Remembers ==
    ASSUME TypeInv, NEW s \in Syncs, NEW m \in Memory, proc' = [proc EXCEPT ![s] = m],
           m.pc \in {"read", "write"} => m.todo # {}
    PROVE  proc' \in [Processes -> Memory] /\ Busy'
<1>1. proc \in [Processes -> Memory] /\ s \in Processes
  BY DEF TypeInv, TypeOK, Processes
<1>2. proc' \in [Processes -> Memory] /\ proc'[s] = m /\ \A q \in Processes \ {s} : proc'[q] = proc[q]
  BY <1>1
<1>3. Busy'
  BY <1>2 DEF Busy, TypeInv, Processes
<1> QED
  BY <1>2, <1>3

\* What a sync's steps of its own leave in its memory.
LEMMA SyncMemory ==
    ASSUME TypeInv, NEW s \in Syncs
    PROVE  /\ proc[s] \in Memory /\ Journaled(tree) \subseteq Entries
           /\ Group(s) \subseteq proc[s].todo /\ Group(s) \subseteq Entries
           /\ proc[s].todo # {} => NextDay(s) \in Days /\ Group(s) # {}
<1>1. proc[s] \in Memory
  BY DEF TypeInv, TypeOK, Processes
<1>2. Journaled(tree) \subseteq Entries
  <2> SUFFICES ASSUME NEW d \in Days PROVE IdsIn(tree.journal[d]) \subseteq Entries
    BY DEF Journaled
  <2>1. tree.journal[d] \in Seq(Blocks)
    BY DEF TypeInv, TypeOK, Snapshots
  <2>2. \A i \in DOMAIN tree.journal[d] : tree.journal[d][i] \in Blocks
    BY <2>1
  <2>3. \A i \in DOMAIN tree.journal[d] : tree.journal[d][i].entry \in Entries
    BY <2>2 DEF Blocks
  <2> QED
    BY <2>3 DEF IdsIn
<1>3. Group(s) \subseteq proc[s].todo /\ Group(s) \subseteq Entries
  BY <1>1 DEF Group, Memory
<1>4. ASSUME proc[s].todo # {} PROVE NextDay(s) \in Days /\ Group(s) # {}
  <2> DEFINE S == {DayOf[e] : e \in proc[s].todo}
             Next1(d) == /\ \E e \in proc[s].todo : DayOf[e] = d
                         /\ \A e \in proc[s].todo : d <= DayOf[e]
  <2>1. S \subseteq Nat /\ S # {} /\ S \subseteq Days
    BY <1>1, <1>4, BrainConstants DEF Days, Memory
  <2>2. PICK v \in S : \A w \in S : v <= w
    BY <2>1, LeastDay, Zenon
  <2>3. v \in Days /\ Next1(v)
    BY <2>1, <2>2
  <2>4. NextDay(s) = CHOOSE d \in Days : Next1(d)
    BY DEF NextDay
  <2> HIDE DEF Next1
  <2>5. NextDay(s) \in Days /\ Next1(NextDay(s))
    BY <2>3, <2>4
  <2> QED
    BY <2>5 DEF Next1, Group
<1> QED
  BY <1>1, <1>2, <1>3, <1>4

\* A sync's steps up to the journal's file.
LEMMA SyncTypes ==
    ASSUME TypeInv, NEW s \in Syncs,
           StartSync(s) \/ SelectEntries(s) \/ ReadDay(s) \/ WriteDay(s)
    PROVE  TypeInv'
<1>1. proc[s] \in Memory /\ Journaled(tree) \subseteq Entries
      /\ (proc[s].todo # {} => NextDay(s) \in Days)
  BY SyncMemory
<1>2. Resting \in Memory
  <2>1. <<>> \in Seq(Blocks)
    OBVIOUS
  <2> QED
    BY <2>1 DEF Resting, Memory
<1>3. CASE StartSync(s)
  <2> DEFINE m == [Resting EXCEPT !.pc = "select", !.known = JournaledIds]
  <2>1. m \in Memory /\ m.pc = "select"
    BY <1>1, <1>2 DEF Memory, JournaledIds
  <2>2. proc' = [proc EXCEPT ![s] = m]
    BY <1>3 DEF StartSync
  <2> HIDE DEF m
  <2>3. proc' \in [Processes -> Memory] /\ Busy'
    BY <2>1, <2>2, Remembers
  <2> QED
    BY <1>3, <2>3 DEF StartSync, TypeInv, TypeOK, files
<1>4. CASE SelectEntries(s)
  <2> DEFINE pending == entries \ proc[s].known
             pc == IF pending = {} THEN NothingNew ELSE "read"
             m == [proc[s] EXCEPT !.todo = pending, !.known = entries, !.pc = pc]
  <2>1. pc \in {"add", "read"} /\ (pc = "read" => pending # {}) /\ pending \subseteq Entries
        /\ entries \subseteq Entries
    BY DEF NothingNew, TypeInv, TypeOK
  <2>2. proc' = [proc EXCEPT ![s] = m]
    BY <1>4, <1>1 DEF SelectEntries, Unjournaled, TypeInv, TypeOK, Memory, Processes
  <2> HIDE DEF pc, pending
  <2>3. m \in Memory /\ m.pc = pc /\ m.todo = pending
    BY <1>1, <2>1 DEF Memory
  <2> HIDE DEF m
  <2>4. proc' \in [Processes -> Memory] /\ Busy'
    BY <2>1, <2>2, <2>3, Remembers
  <2> QED
    BY <1>4, <2>4 DEF SelectEntries, Unjournaled, TypeInv, TypeOK, files
<1>5. CASE ReadDay(s)
  <2> DEFINE file == tree.journal[NextDay(s)]
             m == [proc[s] EXCEPT !.pc = "write", !.file = file]
  <2>1. proc[s].todo # {}
    BY <1>5 DEF ReadDay, TypeInv, Busy
  <2>2. file \in Seq(Blocks)
    BY <1>1, <2>1 DEF TypeInv, TypeOK, Snapshots
  <2>3. proc' = [proc EXCEPT ![s] = m]
    BY <1>5, <1>1 DEF ReadDay, TypeInv, TypeOK, Memory, Processes
  <2> HIDE DEF file
  <2>4. m \in Memory /\ m.todo # {}
    BY <1>1, <2>1, <2>2 DEF Memory
  <2> HIDE DEF m
  <2>5. proc' \in [Processes -> Memory] /\ Busy'
    BY <2>3, <2>4, Remembers
  <2> QED
    BY <1>5, <2>5 DEF ReadDay, TypeInv, TypeOK, files
<1>6. CASE WriteDay(s)
  <2> DEFINE left == proc[s].todo \ Group(s)
             pc == IF left = {} THEN "add" ELSE "read"
             m == [proc[s] EXCEPT !.todo = left, !.file = <<>>, !.pc = pc]
  <2>1. proc[s].todo # {} /\ NextDay(s) \in Days
    BY <1>1, <1>6 DEF WriteDay, TypeInv, Busy
  <2>2. PICK file \in Rewritten(s) : tree' = Written(tree, NextDay(s), file)
    BY <1>6 DEF WriteDay, Written
  <2>3. Group(s) \subseteq Entries /\ proc[s].file \in Seq(Blocks)
    BY <1>1, SyncMemory DEF Memory
  <2>4. file \in Seq(Blocks)
    BY <2>3, RewrittenBlocks
  <2>5. tree' \in Snapshots
    BY <2>1, <2>2, <2>4, DayWritten DEF TypeInv, TypeOK
  <2>6. proc' = [proc EXCEPT ![s] = m]
    BY <1>6, <1>1 DEF WriteDay, TypeInv, TypeOK, Memory, Processes
  <2>7. left \subseteq Entries /\ pc \in {"add", "read"} /\ (pc = "read" => left # {})
        /\ <<>> \in Seq(Blocks)
    BY <1>1 DEF Memory
  <2> HIDE DEF left, pc
  <2>8. m \in Memory /\ m.pc = pc /\ m.todo = left
    BY <1>1, <2>7 DEF Memory
  <2> HIDE DEF m
  <2>9. proc' \in [Processes -> Memory] /\ Busy'
    BY <2>6, <2>7, <2>8, Remembers
  <2> QED
    BY <1>6, <2>5, <2>9 DEF WriteDay, TypeInv, TypeOK
<1> QED
  BY <1>3, <1>4, <1>5, <1>6

\* The commands of commit_paths.
LEMMA CommitPathsTypes ==
    ASSUME TypeInv, NEW p \in Processes, CommitPaths(p)
    PROVE  TypeInv'
<1>1. proc[p] \in Memory
  BY DEF TypeInv, TypeOK
<1>2. ASSUME Reports(p) PROVE vouched' \subseteq Entries
  BY <1>1, <1>2 DEF Reports, TypeInv, TypeOK, Memory
<1>3. CASE Add(p)
  <2>1. Staged(p) \in Snapshots
    BY DEF Staged, TypeInv, TypeOK, Snapshots, Processes
  <2>2. proc' \in [Processes -> Memory] /\ Busy'
    BY <1>3, GoesOn DEF Add, Pcs
  <2> QED
    BY <1>3, <2>1, <2>2 DEF Add, TypeInv, TypeOK
<1>4. CASE NothingStaged(p)
  BY <1>2, <1>4, EndsClean DEF NothingStaged, TypeInv, TypeOK, files
<1>5. CASE SomethingStaged(p)
  <2>1. proc' \in [Processes -> Memory] /\ Busy'
    BY <1>5, GoesOn DEF SomethingStaged, Pcs
  <2> QED
    BY <1>5, <2>1 DEF SomethingStaged, TypeInv, TypeOK, files
<1>6. CASE Commit(p)
  <2>1. proc' \in [Processes -> Memory] /\ Busy'
    BY <1>6, GoesOn DEF Commit, Pcs
  <2> QED
    BY <1>6, <2>1, CommitTyped DEF Commit, TypeInv, TypeOK
<1>7. CASE Record(p)
  <2>1. sha' \in [Nights -> Nat]
    BY <1>7 DEF Record, ReadHead, TypeInv, TypeOK
  <2> QED
    BY <1>2, <1>7, <2>1, EndsClean DEF Record, TypeInv, TypeOK, files
<1> QED
  BY <1>3, <1>4, <1>5, <1>6, <1>7 DEF CommitPaths

\* A night's note and the profile it revises.
LEMMA NightTypes ==
    ASSUME TypeInv, NEW n \in Nights, WriteNote(n) \/ ReadTopics(n) \/ WriteTopics(n)
    PROVE  TypeInv'
<1>1. n \in Processes /\ n \notin Syncs /\ proc[n] \in Memory /\ proc \in [Processes -> Memory]
  BY BrainConstants DEF TypeInv, TypeOK, Processes
<1>2. CASE WriteNote(n)
  <2>1. PICK pc \in {"readTopics", "add"} : Goes(n, pc)
    BY <1>2 DEF WriteNote, Proposals
  <2>2. proc' \in [Processes -> Memory] /\ Busy'
    BY <1>1, <2>1, GoesOn DEF Pcs
  <2>3. tree' \in Snapshots
    BY <1>2 DEF WriteNote, Proposals, TypeInv, TypeOK, Snapshots
  <2> QED
    BY <1>2, <2>2, <2>3 DEF WriteNote, Proposals, TypeInv, TypeOK
<1>3. CASE ReadTopics(n)
  <2> DEFINE m == [proc[n] EXCEPT !.pc = "writeTopics", !.lines = tree.profile]
  <2>1. proc' = [proc EXCEPT ![n] = m]
    BY <1>1, <1>3 DEF ReadTopics, TopicFiles, Memory
  <2>2. tree.profile \subseteq Lines \cup Nights
    BY DEF TypeInv, TypeOK, Snapshots
  <2>3. m \in Memory
    BY <1>1, <2>2 DEF Memory
  <2> HIDE DEF m
  <2>4. proc' \in [Processes -> Memory] /\ Busy'
    BY <1>1, <2>1, <2>3 DEF TypeInv, Busy, Processes
  <2> QED
    BY <1>3, <2>4 DEF ReadTopics, TopicFiles, TypeInv, TypeOK, files
<1>4. CASE WriteTopics(n)
  <2> DEFINE m == [proc[n] EXCEPT !.pc = "add", !.lines = {}, !.revised = TRUE]
  <2>1. proc' = [proc EXCEPT ![n] = m]
    BY <1>1, <1>4 DEF WriteTopics, Memory
  <2>2. m \in Memory
    BY <1>1 DEF Memory
  <2> HIDE DEF m
  <2>3. proc' \in [Processes -> Memory] /\ Busy'
    BY <1>1, <2>1, <2>2 DEF TypeInv, Busy, Processes
  <2>4. \A profile \in Revisions(n) : profile \subseteq Lines \cup Nights
    BY <1>1 DEF Revisions, Memory
  <2>5. tree' \in Snapshots
    BY <1>4, <2>4 DEF WriteTopics, TypeInv, TypeOK, Snapshots
  <2> QED
    BY <1>4, <2>3, <2>5 DEF WriteTopics, TypeInv, TypeOK
<1> QED
  BY <1>2, <1>3, <1>4

\* A person, and a capture.
LEMMA PersonTypes ==
    ASSUME TypeInv, Person \/ \E e \in Entries : Arrive(e)
    PROVE  TypeInv'
<1>1. ASSUME NEW l \in Lines, Edit(l) PROVE TypeInv'
  <2>1. tree' \in Snapshots
    BY <1>1 DEF Edit, TypeInv, TypeOK, Snapshots
  <2>2. hand' \in [Lines -> {"unwritten", "edited", "taken", "staged", "committed"}]
    BY <1>1 DEF Edit, TypeInv, TypeOK
  <2> QED
    BY <1>1, <2>1, <2>2 DEF Edit, TypeInv, TypeOK, Busy
<1>2. CASE Stage
  BY <1>2 DEF Stage, TypeInv, TypeOK, Snapshots, Busy
<1>3. CASE CommitByHand
  <2>1. hand' \in [Lines -> {"unwritten", "edited", "taken", "staged", "committed"}]
    BY <1>3 DEF CommitByHand, TypeInv, TypeOK
  <2> QED
    BY <1>3, <2>1, CommitTyped DEF CommitByHand, TypeInv, TypeOK, Busy
<1>4. ASSUME NEW e \in Entries, Arrive(e) PROVE TypeInv'
  BY <1>4 DEF Arrive, TypeInv, TypeOK, Busy
<1> QED
  BY <1>1, <1>2, <1>3, <1>4 DEF Person

\* What goes wrong.
LEMMA MishapTypes ==
    ASSUME TypeInv, Mishap
    PROVE  TypeInv'
<1>1. MishapOccurs => mishaps' \in Nat
  BY DEF MishapOccurs, TypeInv, TypeOK
<1>2. ASSUME NEW p \in Processes, Kill(p) PROVE TypeInv'
  BY <1>1, <1>2, EndsClean DEF Kill, TypeInv, TypeOK, files
<1>3. ASSUME NEW p \in Processes, GitRefuses(p) PROVE TypeInv'
  BY <1>1, <1>3, EndsClean DEF GitRefuses, GivesUp, TypeInv, TypeOK, files
<1>4. ASSUME NEW s \in Syncs, CutShort(s) PROVE TypeInv'
  <2>1. NextDay(s) \in Days /\ Group(s) \subseteq Entries /\ proc[s].file \in Seq(Blocks)
    BY <1>4, SyncMemory DEF CutShort, TypeInv, Busy, Memory
  <2>2. PICK file \in Rewritten(s) : \E left \in Leftovers(file) :
           tree' = Written(tree, NextDay(s), left)
    BY <1>4 DEF CutShort, Written
  <2>3. PICK left \in Leftovers(file) : tree' = Written(tree, NextDay(s), left)
    BY <2>2
  <2>4. left \in Seq(Blocks)
    BY <2>1, RewrittenBlocks, LeftoverBlocks
  <2>5. tree' \in Snapshots
    BY <2>1, <2>3, <2>4, DayWritten DEF TypeInv, TypeOK
  <2>6. proc' \in [Processes -> Memory] /\ Busy'
    BY <1>4, EndsClean DEF CutShort, Processes
  <2> QED
    BY <1>1, <1>4, <2>5, <2>6 DEF CutShort, TypeInv, TypeOK
<1> QED
  BY <1>2, <1>3, <1>4 DEF Mishap

LEMMA TypeInit == Init => TypeInv
<1> SUFFICES ASSUME Init PROVE TypeInv
  OBVIOUS
<1>1. <<>> \in Seq(Blocks)
  OBVIOUS
<1>2. Resting \in Memory /\ Resting.pc = "idle"
  BY <1>1 DEF Resting, Memory
<1>3. Empty \in Snapshots
  BY <1>1 DEF Empty, Snapshots
<1> QED
  BY <1>2, <1>3 DEF Init, TypeInv, TypeOK, Busy, Processes

LEMMA TypeStep == TypeInv /\ [Next]_vars => TypeInv'
<1> SUFFICES ASSUME TypeInv, [Next]_vars PROVE TypeInv'
  OBVIOUS
<1>1. CASE UNCHANGED vars
  BY <1>1 DEF vars, TypeInv, TypeOK, Busy
<1>2. ASSUME NEW s \in Syncs, SyncStep(s) PROVE TypeInv'
  <2>1. s \in Processes
    BY DEF Processes
  <2> QED
    BY <1>2, <2>1, SyncTypes, CommitPathsTypes DEF SyncStep
<1>3. ASSUME NEW n \in Nights, NightStep(n) PROVE TypeInv'
  <2>1. n \in Processes
    BY DEF Processes
  <2> QED
    BY <1>3, <2>1, NightTypes, CommitPathsTypes DEF NightStep
<1> QED
  BY <1>1, <1>2, <1>3, PersonTypes, MishapTypes DEF Next

\* Whatever is captured, edited, committed and killed, by syncs that overlap
\* too, the files, git's index and commits, and every process's memory hold
\* values of their types (brain/repo.py, brain/sync.py, night/output.py).
THEOREM BrainTypes == Spec => []TypeOK
<1>1. Spec => []TypeInv
  BY TypeInit, TypeStep, PTL DEF Spec
<1>2. TypeInv => TypeOK
  BY DEF TypeInv
<1> QED
  BY <1>1, <1>2, PTL

-----------------------------------------------------------------------------
(* A person's lines.                                                       *)

\* A line not yet written is nowhere, in no night's memory either; a line not
\* yet staged is neither in the index nor in HEAD.
HandsOff ==
    /\ \A l \in Lines : hand[l] = "unwritten" =>
          l \notin tree.profile /\ \A n \in Nights : l \notin proc[n].lines
    /\ \A l \in Lines : hand[l] \in {"unwritten", "edited"} =>
          l \notin index.profile /\ l \notin head.profile

LEMMA HandsInit == Init => HandsOff
BY DEF Init, HandsOff, Empty, Resting, Processes

\* What the commands of git and a kill leave of the topic files a night has read.
LEMMA LinesFrom ==
    ASSUME TypeInv, NEW p \in Processes, CommitPaths(p) \/ Kill(p) \/ GitRefuses(p)
    PROVE  \A n \in Nights : proc'[n].lines \subseteq proc[n].lines
<1>1. proc \in [Processes -> Memory]
  BY DEF TypeInv, TypeOK
<1>2. ASSUME NEW pc, Goes(p, pc) PROVE \A n \in Nights : proc'[n].lines = proc[n].lines
  <2> SUFFICES ASSUME NEW n \in Nights PROVE proc'[n].lines = proc[n].lines
    OBVIOUS
  <2>1. n \in Processes /\ proc[n] \in Memory
    BY <1>1 DEF Processes
  <2>2. [proc[p] EXCEPT !.pc = pc].lines = proc[p].lines
    BY <1>1 DEF Memory
  <2> QED
    BY <1>1, <1>2, <2>1, <2>2 DEF Goes
<1>3. ASSUME Ends(p) PROVE \A n \in Nights : proc'[n].lines \subseteq proc[n].lines
  <2>1. proc'[p].lines = {}
    BY <1>1, <1>3 DEF Ends, Resting
  <2> QED
    BY <1>3, <2>1, EndsClean DEF Processes
<1>4. \/ \E pc \in Pcs : Goes(p, pc)
      \/ Ends(p)
  BY DEF CommitPaths, Add, NothingStaged, SomethingStaged, Commit, Record, Kill, GitRefuses, Pcs
<1> QED
  BY <1>2, <1>3, <1>4

\* The profile a process stages is the tree's only when it revised it, and then
\* what a person had not staged in it is taken.
LEMMA AddTakes ==
    ASSUME TypeInv, NEW p \in Processes, Add(p)
    PROVE  /\ \/ index'.profile = index.profile
              \/ /\ index'.profile = tree.profile
                 /\ \A l \in tree.profile \cap Lines : hand'[l] # "edited"
           /\ \A l \in Lines : hand'[l] \in {"unwritten", "edited"} => hand'[l] = hand[l]
<1>1. hand' = [l \in Lines |-> IF l \in TakenWith(p) THEN "taken" ELSE hand[l]]
  BY DEF Add
<1>2. CASE p \in Nights /\ proc[p].revised
  <2>1. p \notin Syncs
    BY <1>2, BrainConstants
  <2>2. index'.profile = tree.profile
    BY <1>2, <2>1 DEF Add, Staged, TypeInv, TypeOK, Snapshots
  <2>3. \A l \in tree.profile \cap Lines : hand'[l] # "edited"
    BY <1>1, <1>2 DEF TakenWith
  <2> QED
    BY <1>1, <2>2, <2>3
<1>3. CASE ~ (p \in Nights /\ proc[p].revised)
  <2>1. index'.profile = index.profile
    BY <1>3 DEF Add, Staged, TypeInv, TypeOK, Snapshots, Processes
  <2> QED
    BY <1>1, <2>1
<1> QED
  BY <1>2, <1>3

LEMMA HandsStep == TypeInv /\ HandsOff /\ [Next]_vars => HandsOff'
<1> SUFFICES ASSUME TypeInv, HandsOff, [Next]_vars PROVE HandsOff'
  OBVIOUS
<1> DEFINE Kept == /\ tree'.profile = tree.profile /\ hand' = hand
                   /\ index'.profile = index.profile
                   /\ head'.profile \in {head.profile, index.profile}
                   /\ \A n \in Nights : proc'[n].lines \subseteq proc[n].lines
<1>1. Kept => HandsOff'
  BY DEF HandsOff
<1>2. CASE UNCHANGED vars
  BY <1>1, <1>2 DEF vars
<1>3. ASSUME NEW p \in Processes, CommitPaths(p) PROVE HandsOff'
  <2>1. tree' = tree /\ head' \in {head, index}
    BY <1>3, CommitTyped DEF CommitPaths, Add, NothingStaged, SomethingStaged, Commit, Record,
         files, TypeInv
  <2>2. \A n \in Nights : proc'[n].lines \subseteq proc[n].lines
    BY <1>3, LinesFrom
  <2>3. CASE Add(p)
    <3>1. head' = head
      BY <2>3 DEF Add
    <3> QED
      BY <2>1, <2>2, <2>3, <3>1, AddTakes DEF HandsOff
  <2>4. CASE ~ Add(p)
    <3>1. index' = index /\ hand' = hand
      BY <1>3, <2>4, CommitTyped DEF CommitPaths, NothingStaged, SomethingStaged, Commit, Record,
           files, TypeInv
    <3> QED
      BY <1>1, <2>1, <2>2, <3>1
  <2> QED
    BY <2>3, <2>4
<1>4. ASSUME NEW s \in Syncs, StartSync(s) \/ SelectEntries(s) \/ ReadDay(s) \/ WriteDay(s)
      PROVE  HandsOff'
  <2>1. index' = index /\ head' = head /\ hand' = hand
    BY <1>4 DEF StartSync, SelectEntries, Unjournaled, ReadDay, WriteDay, files
  <2>2. tree'.profile = tree.profile
    BY <1>4 DEF StartSync, SelectEntries, Unjournaled, ReadDay, WriteDay, files, TypeInv, TypeOK, Snapshots
  <2>3. \A q \in Processes \ {s} : proc'[q] = proc[q]
    BY <1>4 DEF StartSync, SelectEntries, Unjournaled, ReadDay, WriteDay, TypeInv, TypeOK
  <2>4. \A n \in Nights : proc'[n] = proc[n]
    BY <2>3, BrainConstants DEF Processes
  <2> QED
    BY <1>1, <2>1, <2>2, <2>4
<1>5. ASSUME NEW n \in Nights, WriteNote(n) \/ ReadTopics(n) PROVE HandsOff'
  <2>1. index' = index /\ head' = head /\ hand' = hand
    BY <1>5 DEF WriteNote, Proposals, ReadTopics, TopicFiles, files
  <2>2. tree'.profile = tree.profile
    BY <1>5 DEF WriteNote, Proposals, ReadTopics, TopicFiles, files, TypeInv, TypeOK, Snapshots
  <2>3. \A m \in Nights : proc'[m].lines \subseteq proc[m].lines \cup tree.profile
    <3> SUFFICES ASSUME NEW m \in Nights
                 PROVE  proc'[m].lines \subseteq proc[m].lines \cup tree.profile
      OBVIOUS
    <3>1. m \in Processes /\ proc \in [Processes -> Memory] /\ proc[n] \in Memory
      BY DEF TypeInv, TypeOK, Processes
    <3>2. CASE WriteNote(n)
      <4>1. PICK pc \in {"readTopics", "add"} : Goes(n, pc)
        BY <3>2 DEF WriteNote, Proposals
      <4>2. [proc[n] EXCEPT !.pc = pc].lines = proc[n].lines
        BY <3>1 DEF Memory
      <4> QED
        BY <3>1, <4>1, <4>2 DEF Goes
    <3>3. CASE ReadTopics(n)
      BY <3>1, <3>3 DEF ReadTopics, TopicFiles, Memory
    <3> QED
      BY <1>5, <3>2, <3>3
  <2> QED
    BY <2>1, <2>2, <2>3 DEF HandsOff
<1>6. ASSUME NEW n \in Nights, WriteTopics(n) PROVE HandsOff'
  <2>1. \A profile \in Revisions(n) : profile \subseteq proc[n].lines \cup {n}
    BY DEF Revisions
  <2>2. /\ tree'.profile \subseteq proc[n].lines \cup {n}
        /\ index' = index /\ head' = head /\ hand' = hand
    BY <1>6, <2>1 DEF WriteTopics, TypeInv, TypeOK, Snapshots
  <2>3. n \notin Lines
    BY BrainConstants
  <2>4. \A m \in Nights : proc'[m].lines \subseteq proc[m].lines
    BY <1>6 DEF WriteTopics, TypeInv, TypeOK, Processes, Memory
  <2> QED
    BY <2>2, <2>3, <2>4 DEF HandsOff
<1>7. ASSUME NEW l \in Lines, Edit(l) PROVE HandsOff'
  <2>1. /\ tree'.profile = tree.profile \cup {l} /\ hand[l] = "unwritten"
        /\ index' = index /\ head' = head /\ proc' = proc
        /\ \A k \in Lines : hand'[k] = IF k = l THEN "edited" ELSE hand[k]
    BY <1>7 DEF Edit, TypeInv, TypeOK, Snapshots
  <2> QED
    BY <2>1 DEF HandsOff
<1>8. CASE Stage
  <2>1. /\ tree' = tree /\ head' = head /\ proc' = proc /\ index'.profile = tree.profile
        /\ \A k \in Lines : hand'[k] = IF hand[k] = "edited" THEN "staged" ELSE hand[k]
    BY <1>8 DEF Stage, TypeInv, TypeOK, Snapshots
  <2> QED
    BY <2>1 DEF HandsOff
<1>9. CASE CommitByHand
  <2>1. /\ tree' = tree /\ head' = index /\ proc' = proc /\ index' = index
        /\ \A k \in Lines : hand'[k] = IF hand[k] = "staged" THEN "committed" ELSE hand[k]
    BY <1>9, CommitTyped DEF CommitByHand, TypeInv
  <2> QED
    BY <2>1 DEF HandsOff
<1>10. ASSUME NEW e \in Entries, Arrive(e) PROVE HandsOff'
  BY <1>1, <1>10 DEF Arrive
<1>11. ASSUME NEW p \in Processes, Kill(p) \/ GitRefuses(p) PROVE HandsOff'
  BY <1>1, <1>11, LinesFrom DEF Kill, GitRefuses, files
<1>12. ASSUME NEW s \in Syncs, CutShort(s) PROVE HandsOff'
  <2>1. tree'.profile = tree.profile /\ index' = index /\ head' = head /\ hand' = hand
    BY <1>12 DEF CutShort, TypeInv, TypeOK, Snapshots
  <2>2. \A n \in Nights : proc'[n] = proc[n]
    BY <1>12, EndsClean, BrainConstants DEF CutShort, Processes
  <2> QED
    BY <1>1, <2>1, <2>2
<1>13. Syncs \subseteq Processes /\ Nights \subseteq Processes
  BY DEF Processes
<1> QED
  BY <1>2, <1>3, <1>4, <1>5, <1>6, <1>7, <1>8, <1>9, <1>10, <1>11, <1>12, <1>13
     DEF Next, SyncStep, NightStep, Person, Mishap

\* A line its author has not staged is in no commit and in no index, but with
\* the file a night that revised it stages: not by a sync's doing, not by a night
\* that left the profile alone, whoever is killed or refused and however many
\* syncs overlap (sync.py `sync`; repo.py `commit_paths`).
THEOREM UnfinishedIsNotCommitted == Spec => []UnfinishedThoughtsStayOut
<1>1. Spec => [](TypeInv /\ HandsOff)
  BY TypeInit, TypeStep, HandsInit, HandsStep, PTL DEF Spec
<1>2. HandsOff => UnfinishedThoughtsStayOut
  BY DEF HandsOff, UnfinishedThoughtsStayOut
<1> QED
  BY <1>1, <1>2, PTL

-----------------------------------------------------------------------------
(* A night's note.                                                         *)

\* A note is staged before it is committed, committed before a night records
\* it, and once in HEAD stays there, born in a commit there was by then.
NoteOf(n) ==
    /\ n \in head.notes => n \in index.notes /\ born[n] \in 1 .. commits
    /\ proc[n].pc \in {"diff", "commit"} => n \in index.notes
    /\ proc[n].pc = "head" => n \in head.notes
    /\ sha[n] # 0 => n \in head.notes /\ born[n] <= sha[n]

NotesInv == \A n \in Nights : NoteOf(n)

LEMMA NotesInit == Init => NotesInv
BY DEF Init, NotesInv, NoteOf, Empty, Resting, Processes

\* A commit brings the notes the index has, and dates the new ones.
LEMMA CommitKeepsNotes ==
    ASSUME TypeInv, NotesInv, CommitIndex, NEW n \in Nights
    PROVE  /\ n \in head'.notes <=> n \in index'.notes
           /\ n \in head'.notes => born'[n] \in 1 .. commits'
           /\ n \in head.notes => n \in head'.notes /\ born'[n] = born[n]
           /\ index' = index
<1>1. head' = index /\ index' = index /\ commits' = commits + 1 /\ commits \in Nat
  BY DEF CommitIndex, TypeInv, TypeOK
<1>2. born'[n] = IF n \in index.notes \ head.notes THEN commits + 1 ELSE born[n]
  BY DEF CommitIndex
<1>3. NoteOf(n)
  BY DEF NotesInv
<1> QED
  BY <1>1, <1>2, <1>3 DEF NoteOf

LEMMA NotesStep == TypeInv /\ NotesInv /\ [Next]_vars => NotesInv'
<1> SUFFICES ASSUME TypeInv, NotesInv, [Next]_vars, NEW n \in Nights
             PROVE  NoteOf(n)'
  BY DEF NotesInv
<1>1. NoteOf(n) /\ n \in Processes /\ n \notin Syncs /\ proc \in [Processes -> Memory]
  BY BrainConstants DEF NotesInv, TypeInv, TypeOK, Processes
<1>2. Syncs \subseteq Processes /\ Nights \subseteq Processes
  BY DEF Processes
<1> DEFINE Quiet == /\ head' = head /\ born' = born /\ commits' = commits /\ sha' = sha
                    /\ index'.notes = index.notes
                    /\ proc'[n].pc \in {proc[n].pc, "idle", "over", "readTopics", "writeTopics", "add"}
<1>3. Quiet => NoteOf(n)'
  BY <1>1 DEF NoteOf
<1>4. CASE UNCHANGED vars
  BY <1>3, <1>4 DEF vars
<1>5. ASSUME NEW p \in Processes, NEW pc, Goes(p, pc)
      PROVE  proc'[n].pc = IF n = p THEN pc ELSE proc[n].pc
  BY <1>1, <1>5 DEF Goes, Memory
<1>6. ASSUME NEW p \in Processes, Ends(p)
      PROVE  proc'[n].pc \in {proc[n].pc, "over", "idle"}
  BY <1>1, <1>6, EndsClean
<1>7. ASSUME NEW p \in Processes, CommitPaths(p) PROVE NoteOf(n)'
  <2>1. CASE Add(p)
    <3>1. proc'[n].pc = IF n = p THEN "diff" ELSE proc[n].pc
      BY <1>5, <2>1 DEF Add
    <3>2. index.notes \subseteq index'.notes /\ (p \in Nights => p \in index'.notes)
      BY <2>1, <1>1, BrainConstants DEF Add, Staged, TypeInv, TypeOK, Snapshots
    <3>3. head' = head /\ born' = born /\ commits' = commits /\ sha' = sha
      BY <2>1 DEF Add
    <3> QED
      BY <1>1, <3>1, <3>2, <3>3 DEF NoteOf
  <2>2. CASE NothingStaged(p)
    BY <1>3, <1>6, <2>2 DEF NothingStaged, files
  <2>3. CASE SomethingStaged(p)
    <3>1. proc'[n].pc = IF n = p THEN "commit" ELSE proc[n].pc
      BY <1>5, <2>3 DEF SomethingStaged
    <3> QED
      BY <1>1, <2>3, <3>1 DEF SomethingStaged, NoteOf, files
  <2>4. CASE Commit(p)
    <3>1. proc'[n].pc = IF n = p THEN "head" ELSE proc[n].pc
      BY <1>5, <2>4 DEF Commit
    <3>2. CommitIndex /\ sha' = sha /\ proc[p].pc = "commit"
      BY <2>4 DEF Commit
    <3> QED
      BY <1>1, <3>1, <3>2, CommitKeepsNotes DEF NoteOf
  <2>5. CASE Record(p)
    <3>1. proc'[n].pc \in {proc[n].pc, "over", "idle"}
      BY <1>6, <2>5 DEF Record
    <3>2. head' = head /\ index' = index /\ born' = born /\ commits' = commits
      BY <2>5 DEF Record, files
    <3>3. sha'[n] = IF n = p THEN commits ELSE sha[n]
      BY <2>5, <1>1 DEF Record, ReadHead, TypeInv, TypeOK
    <3>4. n = p => proc[n].pc = "head"
      BY <2>5 DEF Record
    <3>5. born[n] \in Nat /\ commits \in Nat
      BY DEF TypeInv, TypeOK
    <3>6. n = p => n \in head.notes /\ born[n] <= commits
      BY <1>1, <3>4, <3>5 DEF NoteOf
    <3> QED
      BY <1>1, <3>1, <3>2, <3>3, <3>6 DEF NoteOf
  <2> QED
    BY <1>7, <2>1, <2>2, <2>3, <2>4, <2>5 DEF CommitPaths
<1>8. ASSUME NEW s \in Syncs, StartSync(s) \/ SelectEntries(s) \/ ReadDay(s) \/ WriteDay(s)
      PROVE  NoteOf(n)'
  <2>1. index' = index /\ head' = head /\ born' = born /\ commits' = commits /\ sha' = sha
    BY <1>8 DEF StartSync, SelectEntries, Unjournaled, ReadDay, WriteDay, files
  <2>2. proc'[n] = proc[n]
    BY <1>1, <1>8 DEF StartSync, SelectEntries, Unjournaled, ReadDay, WriteDay
  <2> QED
    BY <1>3, <2>1, <2>2
<1>9. ASSUME NEW m \in Nights, WriteNote(m) PROVE NoteOf(n)'
  <2>1. PICK pc \in {"readTopics", "add"} : Goes(m, pc)
    BY <1>9 DEF WriteNote, Proposals
  <2>2. proc'[n].pc \in {proc[n].pc, "readTopics", "add"}
    BY <1>2, <1>5, <2>1
  <2> QED
    BY <1>3, <1>9, <2>2 DEF WriteNote, Proposals
<1>10. ASSUME NEW m \in Nights, ReadTopics(m) \/ WriteTopics(m) PROVE NoteOf(n)'
  <2>1. proc'[n].pc \in {proc[n].pc, "writeTopics", "add"}
    BY <1>1, <1>2, <1>10 DEF ReadTopics, TopicFiles, WriteTopics, Memory
  <2> QED
    BY <1>3, <1>10, <2>1 DEF ReadTopics, TopicFiles, WriteTopics, files
<1>11. ASSUME NEW l \in Lines, Edit(l) PROVE NoteOf(n)'
  BY <1>3, <1>11 DEF Edit
<1>12. CASE Stage
  <2>1. index'.notes = index.notes
    BY <1>12 DEF Stage, TypeInv, TypeOK, Snapshots
  <2> QED
    BY <1>3, <1>12, <2>1 DEF Stage
<1>13. CASE CommitByHand
  <2>1. CommitIndex /\ sha' = sha /\ proc' = proc
    BY <1>13 DEF CommitByHand
  <2> QED
    BY <1>1, <2>1, CommitKeepsNotes DEF NoteOf
<1>14. ASSUME NEW e \in Entries, Arrive(e) PROVE NoteOf(n)'
  BY <1>3, <1>14 DEF Arrive
<1>15. ASSUME NEW p \in Processes, Kill(p) \/ GitRefuses(p) PROVE NoteOf(n)'
  BY <1>3, <1>6, <1>15 DEF Kill, GitRefuses, files
<1>16. ASSUME NEW s \in Syncs, CutShort(s) PROVE NoteOf(n)'
  BY <1>2, <1>3, <1>6, <1>16 DEF CutShort
<1> QED
  BY <1>2, <1>4, <1>7, <1>8, <1>9, <1>10, <1>11, <1>12, <1>13, <1>14, <1>15, <1>16
     DEF Next, SyncStep, NightStep, Person, Mishap

LEMMA RecordedHasTheNote == TypeInv /\ NotesInv => RecordedCommitHasTheNote
BY DEF TypeInv, TypeOK, NotesInv, NoteOf, RecordedCommitHasTheNote

-----------------------------------------------------------------------------
(* The journal, of syncs that do not overlap.                              *)

\* One sync at a time.
OneSync == \A s, t \in Syncs : proc[s].pc # "idle" /\ proc[t].pc # "idle" => s = t

\* In the tree, the index and HEAD a day's file has an entry of the day once.
FilesOnce ==
    \A d \in Days :
        OnceEach(tree.journal[d], d) /\ OnceEach(index.journal[d], d) /\ OnceEach(head.journal[d], d)

\* What good syncs had seen is staged, and committed.
VouchedKept ==
    vouched \subseteq entries /\ vouched \subseteq Journaled(index) /\ vouched \subseteq Journaled(head)

\* What the sync at work knows of the journal, from one of its steps to the next.
Knows(s) ==
    /\ proc[s].pc = "select" => proc[s].known = Journaled(tree)
    /\ proc[s].pc \in {"read", "write", "add", "diff", "commit", "head"} =>
          proc[s].known \subseteq entries
    /\ proc[s].pc \in {"read", "write"} =>
          /\ proc[s].todo \cap Journaled(tree) = {}
          /\ proc[s].known \subseteq Journaled(tree) \cup proc[s].todo
    /\ proc[s].pc \in {"read", "write", "add"} => vouched \subseteq proc[s].known
    /\ proc[s].pc = "write" => proc[s].file = tree.journal[NextDay(s)]
    /\ proc[s].pc = "add" => proc[s].known \subseteq Journaled(tree)
    /\ proc[s].pc \in {"diff", "commit", "head"} => proc[s].known \subseteq Journaled(index)
    /\ proc[s].pc = "head" => proc[s].known \subseteq Journaled(head)

JournalInv == OneSync /\ FilesOnce /\ VouchedKept /\ \A s \in Syncs : Knows(s)

\* What is journaled is in the journal's files and nowhere else.
LEMMA SameJournal ==
    ASSUME NEW a, NEW b, a.journal = b.journal
    PROVE  Journaled(a) = Journaled(b)
BY DEF Journaled

\* The day a sync takes next depends on what it has to do.
LEMMA SameDay ==
    ASSUME NEW s, proc'[s].todo = proc[s].todo
    PROVE  NextDay(s)' = NextDay(s)
BY DEF NextDay

\* A day's file written again, with more in it, leaves the other days alone.
LEMMA DayJournaled ==
    ASSUME NEW t \in Snapshots, NEW d \in Days, NEW file \in Seq(Blocks), NEW G,
           IdsIn(file) = IdsIn(t.journal[d]) \cup G
    PROVE  Journaled(Written(t, d, file)) = Journaled(t) \cup G
<1> DEFINE u == Written(t, d, file)
<1>1. u.journal[d] = file /\ \A c \in Days : c # d => u.journal[c] = t.journal[c]
  BY DayWritten
<1> HIDE DEF u
<1>2. \A c \in Days : IdsIn(u.journal[c]) \subseteq Journaled(t) \cup G
  BY <1>1 DEF Journaled
<1>3. \A c \in Days : IdsIn(t.journal[c]) \subseteq IdsIn(u.journal[c])
  BY <1>1
<1>4. G \subseteq IdsIn(u.journal[d])
  BY <1>1
<1> QED
  BY <1>2, <1>3, <1>4 DEF Journaled, u

LEMMA JournalInit == Init => JournalInv
<1> SUFFICES ASSUME Init PROVE JournalInv
  OBVIOUS
<1>1. \A s \in Syncs : proc[s].pc = "idle"
  BY DEF Init, Resting, Processes
<1>2. \A d \in Days : OnceEach(<<>>, d)
  BY DEF OnceEach
<1>3. \A d \in Days : tree.journal[d] = <<>> /\ index.journal[d] = <<>> /\ head.journal[d] = <<>>
  BY DEF Init, Empty
<1>4. FilesOnce
  BY <1>2, <1>3 DEF FilesOnce
<1> QED
  BY <1>1, <1>4 DEF Init, JournalInv, OneSync, VouchedKept, Knows

\* A step that leaves the journal alone, and whose commit is of the index, and
\* that moves a sync only to end it, leaves all this so.
LEMMA Untouched ==
    ASSUME TypeInv, JournalInv, tree'.journal = tree.journal, index'.journal = index.journal,
           head'.journal \in {head.journal, index.journal}, vouched' = vouched,
           entries \subseteq entries',
           \A s \in Syncs : proc'[s] = proc[s] \/ proc'[s].pc = "idle"
    PROVE  JournalInv'
<1>1. /\ Journaled(tree)' = Journaled(tree) /\ Journaled(index)' = Journaled(index)
      /\ Journaled(head)' \in {Journaled(head), Journaled(index)}
  BY SameJournal
<1>2. OneSync'
  BY DEF JournalInv, OneSync
<1>3. FilesOnce'
  BY DEF JournalInv, FilesOnce
<1>4. VouchedKept'
  BY <1>1 DEF JournalInv, VouchedKept
<1>5. ASSUME NEW s \in Syncs PROVE Knows(s)'
  <2>1. CASE proc'[s].pc = "idle"
    BY <2>1 DEF Knows
  <2>2. CASE proc'[s] = proc[s]
    <3>1. NextDay(s)' = NextDay(s)
      BY <2>2, SameDay
    <3>2. Knows(s) /\ VouchedKept
      BY DEF JournalInv
    <3> HIDE DEF NextDay
    <3> QED
      BY <1>1, <2>2, <3>1, <3>2 DEF Knows, VouchedKept
  <2> QED
    BY <2>1, <2>2
<1> QED
  BY <1>2, <1>3, <1>4, <1>5 DEF JournalInv

\* While one sync steps the others are idle.
LEMMA Alone ==
    ASSUME TypeInv, JournalInv, NEW s \in Syncs,
           proc[s].pc # "idle" \/ \A t \in Syncs : proc[t].pc = "idle",
           \A t \in Processes \ {s} : proc'[t] = proc[t]
    PROVE  OneSync' /\ \A t \in Syncs \ {s} : Knows(t)'
<1>1. \A t \in Syncs \ {s} : proc'[t].pc = "idle"
  BY DEF JournalInv, OneSync, Processes
<1> QED
  BY <1>1 DEF OneSync, Knows

\* A sync's steps up to the journal's file.
LEMMA SyncJournals ==
    ASSUME ~ Overlap, TypeInv, JournalInv, NEW s \in Syncs,
           StartSync(s) \/ SelectEntries(s) \/ ReadDay(s) \/ WriteDay(s)
    PROVE  JournalInv'
<1>1. /\ proc[s] \in Memory /\ s \in Processes /\ proc \in [Processes -> Memory]
      /\ Knows(s) /\ VouchedKept /\ FilesOnce
  BY DEF TypeInv, TypeOK, Processes, JournalInv
<1>2. /\ index' = index /\ head' = head /\ entries' = entries /\ vouched' = vouched
      /\ \A t \in Processes \ {s} : proc'[t] = proc[t]
      /\ proc[s].pc # "idle" \/ \A t \in Syncs : proc[t].pc = "idle"
  BY <1>1 DEF StartSync, SelectEntries, Unjournaled, ReadDay, WriteDay, files
<1>3. OneSync' /\ \A t \in Syncs \ {s} : Knows(t)'
  BY <1>2, Alone
<1>4. VouchedKept'
  BY <1>1, <1>2 DEF VouchedKept
<1>5. ASSUME FilesOnce', Knows(s)' PROVE JournalInv'
  BY <1>3, <1>4, <1>5 DEF JournalInv
<1>6. ASSUME tree' = tree PROVE FilesOnce'
  BY <1>1, <1>2, <1>6 DEF FilesOnce
<1>7. CASE StartSync(s)
  <2>1. tree' = tree /\ proc'[s].pc = "select" /\ proc'[s].known = Journaled(tree)
    BY <1>1, <1>7 DEF StartSync, files, Resting, JournaledIds
  <2>2. Knows(s)'
    BY <2>1 DEF Knows
  <2> QED
    BY <1>5, <1>6, <2>1, <2>2
<1>8. CASE SelectEntries(s)
  <2> DEFINE pending == entries \ proc[s].known
  <2>1. /\ tree' = tree /\ proc'[s].known = entries /\ proc'[s].todo = pending
        /\ proc'[s].pc = IF pending = {} THEN "add" ELSE "read"
        /\ proc[s].pc = "select"
    BY <1>1, <1>8 DEF SelectEntries, Unjournaled, files, NothingNew, Memory
  <2>2. proc[s].known = Journaled(tree) /\ vouched \subseteq entries
    BY <1>1, <2>1 DEF Knows, VouchedKept
  <2>3. Knows(s)'
    BY <1>2, <2>1, <2>2 DEF Knows
  <2> QED
    BY <1>5, <1>6, <2>1, <2>3
<1>9. CASE ReadDay(s)
  <2>1. /\ tree' = tree /\ proc'[s].known = proc[s].known /\ proc'[s].todo = proc[s].todo
        /\ proc'[s].pc = "write" /\ proc'[s].file = tree.journal[NextDay(s)]
        /\ proc[s].pc = "read"
    BY <1>1, <1>9 DEF ReadDay, files, Memory
  <2>2. NextDay(s)' = NextDay(s)
    BY <2>1, SameDay
  <2>3. Knows(s)'
    BY <1>1, <1>2, <2>1, <2>2 DEF Knows
  <2> QED
    BY <1>5, <1>6, <2>1, <2>3
<1>10. CASE WriteDay(s)
  <2> DEFINE left == proc[s].todo \ Group(s)
             d == NextDay(s)
  <2>1. /\ proc[s].pc = "write" /\ proc'[s].known = proc[s].known /\ proc'[s].todo = left
        /\ proc'[s].pc = IF left = {} THEN "add" ELSE "read"
    BY <1>1, <1>10 DEF WriteDay, Memory
  <2>2. proc[s].todo # {} /\ d \in Days /\ Group(s) \subseteq proc[s].todo
        /\ Group(s) \subseteq Entries
    BY <2>1, SyncMemory DEF TypeInv, Busy
  <2>3. PICK file \in Rewritten(s) : tree' = Written(tree, d, file)
    BY <1>10 DEF WriteDay, Written
  <2> HIDE DEF d
  <2>4. /\ proc[s].file = tree.journal[d] /\ OnceEach(tree.journal[d], d)
        /\ proc[s].todo \cap Journaled(tree) = {}
        /\ proc[s].known \subseteq Journaled(tree) \cup proc[s].todo
        /\ vouched \subseteq proc[s].known /\ proc[s].known \subseteq entries
    BY <1>1, <2>1, <2>2 DEF Knows, FilesOnce, d
  <2>5. Group(s) \cap IdsIn(tree.journal[d]) = {}
    BY <2>2, <2>4 DEF Journaled
  <2>6. \A e \in Group(s) : DayOf[e] = d
    BY DEF Group, d
  <2>7. OnceEach(file, d) /\ IdsIn(file) = IdsIn(tree.journal[d]) \cup Group(s)
    BY <2>2, <2>4, <2>5, <2>6, RewrittenOnce
  <2>8. tree \in Snapshots /\ file \in Seq(Blocks)
    BY <2>7 DEF TypeInv, TypeOK, OnceEach
  <2>9. Journaled(tree') = Journaled(tree) \cup Group(s)
    BY <2>2, <2>3, <2>7, <2>8, DayJournaled
  <2>10. FilesOnce'
    <3>1. tree'.journal[d] = file /\ \A c \in Days : c # d => tree'.journal[c] = tree.journal[c]
      BY <2>2, <2>3, <2>8, DayWritten
    <3> QED
      BY <1>1, <1>2, <2>7, <3>1 DEF FilesOnce
  <2>11. Knows(s)'
    BY <1>2, <2>1, <2>2, <2>4, <2>9 DEF Knows
  <2> QED
    BY <1>5, <2>10, <2>11
<1> QED
  BY <1>7, <1>8, <1>9, <1>10

\* A sync's commands of git.
LEMMA SyncCommits ==
    ASSUME TypeInv, JournalInv, NEW s \in Syncs, CommitPaths(s)
    PROVE  JournalInv'
<1>1. /\ proc[s] \in Memory /\ s \in Processes /\ proc \in [Processes -> Memory]
      /\ Knows(s) /\ VouchedKept /\ FilesOnce
  BY DEF TypeInv, TypeOK, Processes, JournalInv
<1>2. ASSUME NEW pc, Goes(s, pc)
      PROVE  /\ proc'[s].pc = pc /\ proc'[s].known = proc[s].known
             /\ \A t \in Processes \ {s} : proc'[t] = proc[t]
  BY <1>1, <1>2 DEF Goes, Memory
<1>3. ASSUME Ends(s)
      PROVE  \A t \in Syncs : proc'[t] = proc[t] \/ proc'[t].pc = "idle"
  <2>1. s \notin Nights
    BY BrainConstants
  <2> QED
    BY <1>1, <1>3, <2>1, EndsClean DEF Processes
<1>4. CASE Add(s)
  <2>1. /\ proc[s].pc = "add" /\ proc'[s].pc = "diff" /\ proc'[s].known = proc[s].known
        /\ \A t \in Processes \ {s} : proc'[t] = proc[t]
        /\ tree' = tree /\ head' = head /\ entries' = entries /\ vouched' = vouched
    BY <1>2, <1>4 DEF Add
  <2>2. index'.journal = tree.journal
    BY <1>4 DEF Add, Staged, TypeInv, TypeOK, Snapshots
  <2>3. Journaled(index') = Journaled(tree)
    BY <2>2, SameJournal
  <2>4. OneSync' /\ \A t \in Syncs \ {s} : Knows(t)'
    BY <2>1, Alone
  <2>5. FilesOnce'
    BY <1>1, <2>1, <2>2 DEF FilesOnce
  <2>6. VouchedKept' /\ Knows(s)'
    BY <1>1, <2>1, <2>3 DEF VouchedKept, Knows
  <2> QED
    BY <2>4, <2>5, <2>6 DEF JournalInv
<1>5. CASE SomethingStaged(s)
  <2>1. /\ proc[s].pc = "diff" /\ proc'[s].pc = "commit" /\ proc'[s].known = proc[s].known
        /\ \A t \in Processes \ {s} : proc'[t] = proc[t]
        /\ tree' = tree /\ index' = index /\ head' = head /\ entries' = entries
        /\ vouched' = vouched
    BY <1>2, <1>5 DEF SomethingStaged, files
  <2>2. OneSync' /\ \A t \in Syncs \ {s} : Knows(t)'
    BY <2>1, Alone
  <2>3. FilesOnce' /\ VouchedKept' /\ Knows(s)'
    BY <1>1, <2>1 DEF FilesOnce, VouchedKept, Knows
  <2> QED
    BY <2>2, <2>3 DEF JournalInv
<1>6. CASE Commit(s)
  <2>1. /\ proc[s].pc = "commit" /\ proc'[s].pc = "head" /\ proc'[s].known = proc[s].known
        /\ \A t \in Processes \ {s} : proc'[t] = proc[t]
        /\ tree' = tree /\ index' = index /\ head' = index /\ entries' = entries
        /\ vouched' = vouched
    BY <1>2, <1>6, CommitTyped DEF Commit, TypeInv
  <2>2. OneSync' /\ \A t \in Syncs \ {s} : Knows(t)'
    BY <2>1, Alone
  <2>3. FilesOnce' /\ VouchedKept' /\ Knows(s)'
    BY <1>1, <2>1 DEF FilesOnce, VouchedKept, Knows
  <2> QED
    BY <2>2, <2>3 DEF JournalInv
<1>7. CASE NothingStaged(s) \/ Record(s)
  <2>1. /\ tree' = tree /\ index' = index /\ head' = head /\ entries' = entries
        /\ vouched' = vouched \cup proc[s].known
        /\ \A t \in Syncs : proc'[t] = proc[t] \/ proc'[t].pc = "idle"
    BY <1>3, <1>7 DEF NothingStaged, Record, Reports, files
  <2>2. /\ proc[s].known \subseteq entries
        /\ proc[s].known \subseteq Journaled(index) /\ proc[s].known \subseteq Journaled(head)
    BY <1>1, <1>7 DEF NothingStaged, Record, Knows
  <2>3. VouchedKept'
    BY <1>1, <2>1, <2>2 DEF VouchedKept
  <2>4. \A t \in Syncs \ {s} : proc[t].pc = "idle"
    BY <1>7 DEF NothingStaged, Record, JournalInv, OneSync
  <2>5. proc'[s].pc = "idle"
    BY <1>1, <1>7, EndsClean, BrainConstants DEF NothingStaged, Record
  <2>6. \A t \in Syncs : proc'[t].pc = "idle"
    BY <2>1, <2>4, <2>5
  <2>7. FilesOnce'
    BY <1>1, <2>1 DEF FilesOnce
  <2> QED
    BY <2>3, <2>6, <2>7 DEF JournalInv, OneSync, Knows
<1> QED
  BY <1>4, <1>5, <1>6, <1>7 DEF CommitPaths

\* A night's steps, which leave the journal alone.
LEMMA NightJournals ==
    ASSUME TypeInv, JournalInv, NEW n \in Nights, NightStep(n)
    PROVE  JournalInv'
<1>1. n \in Processes /\ n \notin Syncs
  BY BrainConstants DEF Processes
<1>2. /\ tree'.journal = tree.journal /\ index'.journal = index.journal
      /\ head'.journal \in {head.journal, index.journal}
      /\ vouched' = vouched /\ entries' = entries
  <2>1. CASE WriteNote(n) \/ ReadTopics(n) \/ WriteTopics(n)
    BY <2>1 DEF WriteNote, Proposals, ReadTopics, TopicFiles, WriteTopics, files, TypeInv, TypeOK, Snapshots
  <2>2. CASE Add(n)
    BY <1>1, <2>2 DEF Add, Staged, TypeInv, TypeOK, Snapshots
  <2>3. CASE Commit(n)
    BY <2>3, CommitTyped DEF Commit, TypeInv
  <2>4. CASE NothingStaged(n) \/ SomethingStaged(n) \/ Record(n)
    BY <1>1, <2>4 DEF NothingStaged, SomethingStaged, Record, Reports, files
  <2> QED
    BY <2>1, <2>2, <2>3, <2>4 DEF NightStep, CommitPaths
<1>3. \A t \in Processes \ {n} : proc'[t] = proc[t]
  BY <1>1 DEF NightStep, CommitPaths, WriteNote, Proposals, ReadTopics, TopicFiles, WriteTopics, Add, NothingStaged,
     SomethingStaged, Commit, Record, Goes, Ends, TypeInv, TypeOK
<1>4. \A s \in Syncs : proc'[s] = proc[s]
  BY <1>1, <1>3 DEF Processes
<1> QED
  BY <1>2, <1>4, Untouched

LEMMA JournalStep == ~ Overlap /\ TypeInv /\ JournalInv /\ [Next]_vars => JournalInv'
<1> SUFFICES ASSUME ~ Overlap, TypeInv, JournalInv, [Next]_vars PROVE JournalInv'
  OBVIOUS
<1>1. CASE UNCHANGED vars
  BY <1>1, Untouched DEF vars
<1>2. ASSUME NEW s \in Syncs, SyncStep(s) PROVE JournalInv'
  BY <1>2, SyncJournals, SyncCommits DEF SyncStep
<1>3. CASE Person
  <2>1. /\ tree'.journal = tree.journal /\ index'.journal = index.journal
        /\ head'.journal \in {head.journal, index.journal}
        /\ vouched' = vouched /\ entries' = entries /\ proc' = proc
    BY <1>3, CommitTyped DEF Person, Edit, Stage, CommitByHand, TypeInv, TypeOK, Snapshots
  <2> QED
    BY <2>1, Untouched
<1>4. ASSUME NEW e \in Entries, Arrive(e) PROVE JournalInv'
  BY <1>4, Untouched DEF Arrive
<1>5. ASSUME NEW p \in Processes, Kill(p) \/ GitRefuses(p) PROVE JournalInv'
  <2>1. /\ tree' = tree /\ index' = index /\ head' = head /\ vouched' = vouched
        /\ entries' = entries
    BY <1>5 DEF Kill, GitRefuses, GivesUp, files
  <2>2. \A s \in Syncs : proc'[s] = proc[s] \/ proc'[s].pc = "idle"
    BY <1>5, EndsClean, BrainConstants DEF Kill, GitRefuses, Processes
  <2> QED
    BY <2>1, <2>2, Untouched
<1>6. ASSUME NEW s \in Syncs, CutShort(s) PROVE JournalInv'
  <2> DEFINE d == NextDay(s)
  <2>1. /\ s \in Processes /\ proc[s].pc = "write" /\ d \in Days
        /\ Group(s) \subseteq proc[s].todo /\ Group(s) \subseteq Entries
    BY <1>6, SyncMemory DEF CutShort, TypeInv, Busy, Processes
  <2>2. PICK file \in Rewritten(s) : \E left \in Leftovers(file) :
           tree' = Written(tree, d, left)
    BY <1>6 DEF CutShort, Written
  <2>3. PICK left \in Leftovers(file) : tree' = Written(tree, d, left)
    BY <2>2
  <2> HIDE DEF d
  <2>4. /\ Knows(s) /\ FilesOnce /\ VouchedKept
    BY DEF JournalInv
  <2>5. /\ proc[s].file = tree.journal[d] /\ OnceEach(tree.journal[d], d)
        /\ Group(s) \cap IdsIn(tree.journal[d]) = {} /\ \A e \in Group(s) : DayOf[e] = d
    BY <2>1, <2>4 DEF Knows, FilesOnce, d, Journaled, Group
  <2>6. OnceEach(left, d)
    BY <2>1, <2>5, RewrittenOnce, LeftoverOnce
  <2>7. tree'.journal[d] = left /\ \A c \in Days : c # d => tree'.journal[c] = tree.journal[c]
    <3>1. tree \in Snapshots /\ left \in Seq(Blocks)
      BY <2>6 DEF TypeInv, TypeOK, OnceEach
    <3> QED
      BY <2>1, <2>3, <3>1, DayWritten
  <2>8. /\ index' = index /\ head' = head /\ entries' = entries /\ vouched' = vouched
        /\ Ends(s)
    BY <1>6 DEF CutShort
  <2>9. proc'[s].pc = "idle" /\ \A t \in Processes \ {s} : proc'[t] = proc[t]
    BY <2>1, <2>8, EndsClean, BrainConstants
  <2>10. OneSync' /\ \A t \in Syncs \ {s} : Knows(t)'
    BY <2>1, <2>9, Alone
  <2>11. FilesOnce' /\ VouchedKept' /\ Knows(s)'
    BY <2>4, <2>6, <2>7, <2>8, <2>9 DEF FilesOnce, VouchedKept, Knows
  <2> QED
    BY <2>10, <2>11 DEF JournalInv
<1> QED
  BY <1>1, <1>2, <1>3, <1>4, <1>5, <1>6, NightJournals DEF Next, Mishap

\* Of syncs that do not overlap, each entry is journaled once and under its own
\* date, whatever is killed, cut short or refused and whoever commits: the
\* journal itself says what is in it (journal.py `journaled_ids`, sync.py).
THEOREM EntriesJournaledOnce ==
    ASSUME ~ Overlap
    PROVE  Spec => []JournaledOnce
<1>1. Spec => [](TypeInv /\ JournalInv)
  BY TypeInit, TypeStep, JournalInit, JournalStep, PTL DEF Spec
<1>2. JournalInv => JournaledOnce
  BY DEF JournalInv, FilesOnce, OnceEach, JournaledOnce
<1> QED
  BY <1>1, <1>2, PTL

\* And what syncs and nights say of commits is so: a good sync's entries are in
\* HEAD for good, and the commit a night records has its note in it, whoever
\* committed in between (sync.py `sync`, output.py `write_to_brain`).
THEOREM CommitRecordsAreTrue ==
    ASSUME ~ Overlap
    PROVE  Spec => []RecordsOfCommitsAreTrue
<1>1. Spec => [](TypeInv /\ NotesInv /\ JournalInv)
  BY TypeInit, TypeStep, NotesInit, NotesStep, JournalInit, JournalStep, PTL DEF Spec
<1>2. TypeInv /\ NotesInv /\ JournalInv => RecordsOfCommitsAreTrue
  BY RecordedHasTheNote DEF JournalInv, VouchedKept, RecordsOfCommitsAreTrue, ReportIsTrue
<1> QED
  BY <1>1, <1>2, PTL

=============================================================================
