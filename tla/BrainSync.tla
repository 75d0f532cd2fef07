----------------------------- MODULE BrainSync -----------------------------
(***************************************************************************)
(* The brain: a git repository that three parties write.  The sync         *)
(* (brain/sync.py, journal.py) rewrites a day's journal file and commits;  *)
(* a night's distillation (night/output.py, beliefs.py) writes a note, may *)
(* revise the profile, and commits; a person edits the profile, stages and *)
(* commits by hand.  They share one working tree and one index, and        *)
(* `commit_paths` (brain/repo.py) is several git commands.                 *)
(*                                                                         *)
(* A journal file is the sequence of its entries, the profile a set of     *)
(* lines, the nights directory the set of its notes.  An entry is a number *)
(* and entries are numbered in capture order.  Every action is one file    *)
(* read or write, one SELECT or one git command.  The style guide is       *)
(* treated as the profile is, and headings, times and messages are left    *)
(* out.                                                                    *)
(***************************************************************************)
EXTENDS Naturals, Sequences, FiniteSets, SequencesExt

CONSTANTS
    Entries,      \* what is captured, numbered in capture order
    DayOf,        \* the local date of each, a number
    Lines,        \* what a person may add to the profile
    Syncs,        \* sync processes: the timer's, and those started by hand
    Nights,       \* nights that distill, each once
    Overlap,      \* may two syncs run at once?
    MaxMishaps    \* how many kills, refused git commands and cut writes

ASSUME BrainConstants ==
    /\ Entries \subseteq Nat /\ IsFiniteSet(Entries)
    /\ DayOf \in [Entries -> Nat]
    /\ Syncs \cap Nights = {} /\ Lines \cap Nights = {}
    /\ Overlap \in BOOLEAN
    /\ MaxMishaps \in Nat

VARIABLES
    entries,   \* the entries table
    tree,      \* the working tree
    index,     \* git's index
    head,      \* the commit HEAD names
    commits,   \* how many commits there are
    born,      \* history: the commit each note is first in, 0 for none
    hand,      \* history: what became of each line of a person's
    proc,      \* what each process has in memory
    sha,       \* the commit each night recorded, 0 for null
    vouched,   \* history: the entries a sync that ended well had seen
    mishaps

vars == <<entries, tree, index, head, commits, born, hand, proc, sha, vouched, mishaps>>

files == <<entries, tree, index, head, commits, born, hand>>

Days == {DayOf[e] : e \in Entries}
Processes == Syncs \cup Nights

\* A block of a journal file: an entry's heading, with its text or cut off.
Block(e) == [entry |-> e, whole |-> TRUE]

IdsIn(file) == {file[i].entry : i \in DOMAIN file}
Journaled(snapshot) == UNION {IdsIn(snapshot.journal[d]) : d \in Days}

Empty == [journal |-> [d \in Days |-> <<>>], profile |-> {}, notes |-> {}]
Resting == [pc |-> "idle", known |-> {}, todo |-> {}, file |-> <<>>,
            lines |-> {}, revised |-> FALSE]

Init ==
    /\ entries = {}
    /\ tree = Empty /\ index = Empty /\ head = Empty
    /\ commits = 0
    /\ born = [n \in Nights |-> 0]
    /\ hand = [l \in Lines |-> "unwritten"]
    /\ proc = [p \in Processes |-> Resting]
    /\ sha = [n \in Nights |-> 0]
    /\ vouched = {}
    /\ mishaps = 0

Goes(p, pc) == proc' = [proc EXCEPT ![p].pc = pc]
Ends(p) == proc' = [proc EXCEPT ![p] = [Resting EXCEPT !.pc = IF p \in Nights THEN "over" ELSE "idle"]]

-----------------------------------------------------------------------------
(* The sync.                                                               *)

\* A capture, which never touches the brain.
Arrive(e) ==
    /\ e \notin entries
    /\ entries' = entries \cup {e}
    /\ UNCHANGED <<tree, index, head, commits, born, hand, proc, sha, vouched, mishaps>>

\* Mutant: what is journaled is read from the last commit.
JournaledInHead == Journaled(head)

\* What has been journaled is read from the journal's files, and from nothing else.
JournaledIds == Journaled(tree)

\* The timer's service is one unit, which systemd never starts twice; a sync
\* started by hand overlaps it.
StartSync(s) ==
    /\ proc[s].pc = "idle"
    /\ Overlap \/ \A t \in Syncs : proc[t].pc = "idle"
    /\ proc' = [proc EXCEPT ![s] = [Resting EXCEPT !.pc = "select", !.known = JournaledIds]]
    /\ UNCHANGED <<files, sha, vouched, mishaps>>

\* Mutant: with nothing new there is no work.
NoWork == "idle"

\* With nothing new an earlier journal may still be uncommitted.
NothingNew == "add"

\* Read after the journal was: a capture between the two is among them.
Unjournaled(s) == entries \ proc[s].known

SelectEntries(s) ==
    /\ proc[s].pc = "select"
    /\ proc' = [proc EXCEPT ![s].todo = Unjournaled(s), ![s].known = entries,
                            ![s].pc = IF Unjournaled(s) = {} THEN NothingNew ELSE "read"]
    /\ UNCHANGED <<files, sha, vouched, mishaps>>

NextDay(s) == CHOOSE d \in Days :
                /\ \E e \in proc[s].todo : DayOf[e] = d
                /\ \A e \in proc[s].todo : d <= DayOf[e]

Group(s) == {e \in proc[s].todo : DayOf[e] = NextDay(s)}

ReadDay(s) ==
    /\ proc[s].pc = "read"
    /\ proc' = [proc EXCEPT ![s].pc = "write", ![s].file = tree.journal[NextDay(s)]]
    /\ UNCHANGED <<files, sha, vouched, mishaps>>

\* The entries `S` in capture order: there is one such sequence.
InOrder(S) ==
    {q \in [1 .. Cardinality(S) -> S] : \A j, k \in DOMAIN q : j < k => q[j] < q[k]}

\* What is written: what was read, and the day's new entries.
Rewritten(s) ==
    {proc[s].file \o [k \in DOMAIN q |-> Block(q[k])] : q \in InOrder(Group(s))}

\* The whole file is written again.
WriteDay(s) ==
    /\ proc[s].pc = "write"
    /\ \E file \in Rewritten(s) : tree' = [tree EXCEPT !.journal[NextDay(s)] = file]
    /\ LET left == proc[s].todo \ Group(s)
       IN  proc' = [proc EXCEPT ![s].todo = left, ![s].file = <<>>,
                                ![s].pc = IF left = {} THEN "add" ELSE "read"]
    /\ UNCHANGED <<entries, index, head, commits, born, hand, sha, vouched, mishaps>>

-----------------------------------------------------------------------------
(* commit_paths, for a sync and for a night.                               *)

\* Mutant: the whole working tree is staged.
StageAll(p) == tree

\* Paths are staged and never the tree: the journal, or the night's note and
\* the files it revised.
Staged(p) ==
    IF p \in Syncs THEN [index EXCEPT !.journal = tree.journal]
    ELSE [index EXCEPT !.notes = @ \cup {p},
                       !.profile = IF proc[p].revised THEN tree.profile ELSE @]

\* What of a person's goes in with the profile a night revised: the whole file
\* is staged, edits in progress included.
TakenWith(p) ==
    {l \in Lines : p \in Nights /\ proc[p].revised /\ l \in tree.profile /\ hand[l] = "edited"}

Add(p) ==
    /\ proc[p].pc = "add"
    /\ index' = Staged(p)
    /\ hand' = [l \in Lines |-> IF l \in TakenWith(p) THEN "taken" ELSE hand[l]]
    /\ Goes(p, "diff")
    /\ UNCHANGED <<entries, tree, head, commits, born, sha, vouched, mishaps>>

Reports(p) == vouched' = IF p \in Syncs THEN vouched \cup proc[p].known ELSE vouched

\* `git diff --cached`: with nothing staged there is no commit to make.
NothingStaged(p) ==
    /\ proc[p].pc = "diff"
    /\ index = head
    /\ Reports(p)
    /\ Ends(p)
    /\ UNCHANGED <<files, sha, mishaps>>

SomethingStaged(p) ==
    /\ proc[p].pc = "diff"
    /\ index # head
    /\ Goes(p, "commit")
    /\ UNCHANGED <<files, sha, vouched, mishaps>>

\* `git commit` commits the index, whoever staged what is in it.
CommitIndex ==
    /\ index # head
    /\ head' = index
    /\ commits' = commits + 1
    /\ born' = [n \in Nights |->
                  IF n \in index.notes \ head.notes THEN commits + 1 ELSE born[n]]
    /\ UNCHANGED <<entries, tree, index>>

Commit(p) ==
    /\ proc[p].pc = "commit"
    /\ CommitIndex
    /\ Goes(p, "head")
    /\ UNCHANGED <<hand, sha, vouched, mishaps>>

\* Mutant: the commit is read before it is made.
RecordParent == IF commits = 0 THEN 0 ELSE commits - 1

\* The commit that is reported is read by a command of its own.
ReadHead == commits

Record(p) ==
    /\ proc[p].pc = "head"
    /\ sha' = IF p \in Nights THEN [sha EXCEPT ![p] = ReadHead] ELSE sha
    /\ Reports(p)
    /\ Ends(p)
    /\ UNCHANGED <<files, mishaps>>

MishapOccurs ==
    /\ mishaps < MaxMishaps
    /\ mishaps' = mishaps + 1

\* A sync that git refused fails and reports nothing; a night records no commit.
GivesUp(p) == UNCHANGED vouched

\* Another process holds git's lock, the disk is full, or there is nothing left
\* to commit because another commit took it (`git commit` then fails too).
GitRefuses(p) ==
    /\ proc[p].pc \in {"add", "diff", "commit"}
    /\ \/ proc[p].pc = "commit" /\ index = head /\ UNCHANGED mishaps
       \/ MishapOccurs
    /\ GivesUp(p)
    /\ Ends(p)
    /\ UNCHANGED <<files, sha>>

-----------------------------------------------------------------------------
(* A night's distillation.  The night holds a lock, so there is one.       *)

\* What a completion proposes: beliefs, to be read against the topic files, or
\* none, for an unreadable half or too many is none.
Proposals == {"readTopics", "add"}

WriteNote(n) ==
    /\ proc[n].pc = "idle"
    /\ \A m \in Nights : proc[m].pc \in {"idle", "over"}
    /\ tree' = [tree EXCEPT !.notes = @ \cup {n}]
    /\ \E pc \in Proposals : Goes(n, pc)
    /\ UNCHANGED <<entries, index, head, commits, born, hand, sha, vouched, mishaps>>

\* What the brain believes, as the working tree has it, edits in progress included.
TopicFiles == tree.profile

ReadTopics(n) ==
    /\ proc[n].pc = "readTopics"
    /\ proc' = [proc EXCEPT ![n].pc = "writeTopics", ![n].lines = TopicFiles]
    /\ UNCHANGED <<files, sha, vouched, mishaps>>

\* A belief is appended, or replaces the one line it names.
Revisions(n) == {proc[n].lines \cup {n}}
    \cup {(proc[n].lines \ {l}) \cup {n} : l \in proc[n].lines}

WriteTopics(n) ==
    /\ proc[n].pc = "writeTopics"
    /\ \E profile \in Revisions(n) : tree' = [tree EXCEPT !.profile = profile]
    /\ proc' = [proc EXCEPT ![n].pc = "add", ![n].lines = {}, ![n].revised = TRUE]
    /\ UNCHANGED <<entries, index, head, commits, born, hand, sha, vouched, mishaps>>

-----------------------------------------------------------------------------
(* A person.                                                               *)

Edit(l) ==
    /\ hand[l] = "unwritten"
    /\ tree' = [tree EXCEPT !.profile = @ \cup {l}]
    /\ hand' = [hand EXCEPT ![l] = "edited"]
    /\ UNCHANGED <<entries, index, head, commits, born, proc, sha, vouched, mishaps>>

Stage ==
    /\ index.profile # tree.profile
    /\ index' = [index EXCEPT !.profile = tree.profile]
    /\ hand' = [l \in Lines |-> IF hand[l] = "edited" THEN "staged" ELSE hand[l]]
    /\ UNCHANGED <<entries, tree, head, commits, born, proc, sha, vouched, mishaps>>

CommitByHand ==
    /\ \E l \in Lines : hand[l] = "staged"
    /\ CommitIndex
    /\ hand' = [l \in Lines |-> IF hand[l] = "staged" THEN "committed" ELSE hand[l]]
    /\ UNCHANGED <<proc, sha, vouched, mishaps>>

-----------------------------------------------------------------------------
(* What goes wrong.                                                        *)

Kill(p) ==
    /\ proc[p].pc \notin {"idle", "over"}
    /\ MishapOccurs
    /\ Ends(p)
    /\ UNCHANGED <<files, sha, vouched>>

\* `write_text` empties the file before it writes.  A kill, or a full disk,
\* leaves the first k blocks, and perhaps the heading alone of the next.
Leftovers(file) ==
    {SubSeq(file, 1, k) : k \in 0 .. Len(file) - 1} \cup
    {Append(SubSeq(file, 1, k), [file[k + 1] EXCEPT !.whole = FALSE]) : k \in 0 .. Len(file) - 1}

CutShort(s) ==
    /\ proc[s].pc = "write"
    /\ MishapOccurs
    /\ \E file \in Rewritten(s) : \E left \in Leftovers(file) :
         tree' = [tree EXCEPT !.journal[NextDay(s)] = left]
    /\ Ends(s)
    /\ UNCHANGED <<entries, index, head, commits, born, hand, sha, vouched>>

-----------------------------------------------------------------------------

CommitPaths(p) ==
    Add(p) \/ NothingStaged(p) \/ SomethingStaged(p) \/ Commit(p) \/ Record(p)

SyncStep(s) ==
    StartSync(s) \/ SelectEntries(s) \/ ReadDay(s) \/ WriteDay(s) \/ CommitPaths(s)

NightStep(n) == WriteNote(n) \/ ReadTopics(n) \/ WriteTopics(n) \/ CommitPaths(n)

Person == (\E l \in Lines : Edit(l)) \/ Stage \/ CommitByHand

Mishap == (\E p \in Processes : Kill(p) \/ GitRefuses(p)) \/ (\E s \in Syncs : CutShort(s))

Next ==
    \/ \E e \in Entries : Arrive(e)
    \/ \E s \in Syncs : SyncStep(s)
    \/ \E n \in Nights : NightStep(n)
    \/ Person
    \/ Mishap

Spec == Init /\ [][Next]_vars

\* second-shift-brain-sync.user.timer starts a sync every five minutes, and a
\* sync that is not killed goes on: git has no lock to wait for, it refuses.
\* Nothing is assumed of nights or of people.
FairSpec == Spec /\ WF_vars(\E s \in Syncs : SyncStep(s) \/ GitRefuses(s))

-----------------------------------------------------------------------------
(* What the brain promises.                                                *)

Blocks == [entry : Entries, whole : BOOLEAN]
Snapshots == [journal : [Days -> Seq(Blocks)], profile : SUBSET (Lines \cup Nights),
              notes : SUBSET Nights]
Memory == [pc : {"idle", "over", "select", "read", "write", "readTopics", "writeTopics",
                 "add", "diff", "commit", "head"},
           known : SUBSET Entries, todo : SUBSET Entries, file : Seq(Blocks),
           lines : SUBSET (Lines \cup Nights), revised : BOOLEAN]

\* Files, index, commits and memories hold values of their types.
TypeOK ==
    /\ entries \subseteq Entries
    /\ tree \in Snapshots /\ index \in Snapshots /\ head \in Snapshots
    /\ commits \in Nat
    /\ born \in [Nights -> Nat] /\ sha \in [Nights -> Nat]
    /\ hand \in [Lines -> {"unwritten", "edited", "taken", "staged", "committed"}]
    /\ proc \in [Processes -> Memory]
    /\ vouched \subseteq Entries
    /\ mishaps \in Nat

\* Every entry is journaled once and under its own date, in the working tree
\* and in HEAD, whatever was killed between the write and the commit: "Running
\* sync repeatedly MUST NOT duplicate an entry" (brain spec).  Of syncs that
\* do not overlap.
JournaledOnce ==
    \A snapshot \in {tree, head}, d \in Days :
        LET file == snapshot.journal[d]
        IN  /\ \A i \in DOMAIN file : DayOf[file[i].entry] = d
            /\ \A i, j \in DOMAIN file : file[i].entry = file[j].entry => i = j

\* What a sync that ended well had seen is in HEAD, then and for good: a failed
\* sync is loud, and a good one is true (sync.py, `sync`; __main__.py).
ReportIsTrue == vouched \subseteq Journaled(head)

\* A line its author has not staged reaches a commit in one way only: with the
\* file, when a night that revised that very file stages it.  No sync claims it,
\* no night that left the profile alone, and none that was killed before its
\* `git add`: "someone's unfinished thought is not the machine's to claim"
\* (sync.py), for `commit_paths` stages paths, never the tree (repo.py).
UnfinishedThoughtsStayOut ==
    \A l \in Lines : hand[l] = "edited" => l \notin index.profile \cup head.profile

\* The brain spec asks for more: "a topic file edited by hand and not yet
\* committed MUST be left untouched and uncommitted".  The code does not keep
\* it, for `git commit` without paths commits whatever the index holds: a line
\* its author has staged, or a night has, goes into the next sync's commit.
HandEditsStayUncommitted ==
    \A l \in Lines : hand[l] # "committed" => l \notin head.profile

\* The commit a night records has the night's note in it, whoever committed in
\* between: `commit_sha` is never "a claim nobody can check" (output.py).
RecordedCommitHasTheNote ==
    \A n \in Nights : sha[n] # 0 => born[n] # 0 /\ born[n] <= sha[n]

\* What a sync and a night say of the brain's commits is so (sync.py, output.py).
RecordsOfCommitsAreTrue == ReportIsTrue /\ RecordedCommitHasTheNote

\* What is captured reaches HEAD, whatever was killed or refused on the way and
\* whatever a person has lying about: "the next sync commits the existing
\* content", "Journaling is not blocked by an unfinished edit" (brain spec).
EveryEntryIsJournaled ==
    \A e \in Entries : e \in entries ~> e \in Journaled(head)
=============================================================================
