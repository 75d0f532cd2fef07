----------------------------- MODULE MorningProofs -----------------------------
(***************************************************************************)
(* Theorems about Morning, for any runs, questions and pages, any clock    *)
(* and any number of losses: a page holds every night nobody has acted     *)
(* after, and an answer is the one that was typed under its question.      *)
(*                                                                         *)
(* A page reads the tables statement by statement, so the argument is      *)
(* about what it has read so far: nothing a later statement of the night   *)
(* or of another page does makes it untrue.                                *)
(*                                                                         *)
(* And, at the end, about the scrubber of NightTimeline, for a night of    *)
(* any length: a mark is drawn as past exactly when its event has begun.   *)
(***************************************************************************)
EXTENDS Morning, NightTimeline, FiniteSetTheorems, SequenceTheorems, WellFoundedInduction, NaturalsInduction, TLAPS

\* A run started on the clock; a run that never did is not on it.
OnTheClock ==
    /\ \A r \in Runs : /\ run[r].started <= now
                       /\ run[r].at # "never" => run[r].started >= 1
    /\ \A q \in Questions : decision[q].at <= now

\* Somebody has answered a question at that instant or after it.
ActedSince(t) == \E q \in Answered : decision[q].at >= t

\* What a page has read of the nights so far: the runs it leaves out are runs
\* somebody has acted after, once it has read which.
LeavesOut(m) ==
    /\ m.left \subseteq Started
    /\ m.at = "closed" => m.left = {}
    /\ m.at = "runs" => m.since = 0 \/ ActedSince(m.since)
    /\ m.at \in {"questions", "error", "ready"} =>
         \A r \in m.left : ActedSince(run[r].started)

NightsInv ==
    /\ TypeOK
    /\ OnTheClock
    /\ \A p \in Pages : LeavesOut(page[p])

\* The interview a page is in: it has gone past the questions it sent an answer
\* to, and what is typed was typed under the question it shows.
Interviewed(m) ==
    /\ m.index = Len(m.sent) + 1
    /\ Len(m.sent) <= Len(m.questions)
    /\ \A k \in 1 .. Len(m.sent) :
         m.sent[k] # Open /\ decision[m.questions[k]].text = m.sent[k]
    /\ m.draft # Empty => m.index <= Len(m.questions) /\ m.draft = m.questions[m.index]
    /\ m.at # "ready" => m.sent = <<>> /\ m.draft = Empty

\* A request of that page is about the question it shows, and only once it is
\* recorded does the page hear so.
AsksFor(m, rq) ==
    rq.at # "none" =>
        /\ m.at = "ready" /\ m.index <= Len(m.questions)
        /\ rq.question = m.questions[m.index]
        /\ rq.text \in {rq.question, Empty}
        /\ rq.at = "recorded" => decision[rq.question].text = rq.text

AnswersInv ==
    /\ \A q \in Questions : decision[q].text \in {q, Empty, Open}
    /\ \A p \in Pages : Interviewed(page[p]) /\ AsksFor(page[p], request[p])
    /\ \A rq \in adrift : rq.text \in {rq.question, Empty}

-----------------------------------------------------------------------------
(* The clock and the order of the questions.                               *)

\* A set of numbers that is not empty has a least one.
LEMMA LeastInstant ==
    ASSUME NEW S, S \subseteq Nat, S # {}
    PROVE  \E v \in S : \A w \in S : v <= w
<1> DEFINE Below == {p \in Nat \X Nat : p[1] < p[2]}
<1>1. IsWellFoundedOn(Below, Nat)
  BY NatLessThanWellFounded DEF OpToRel
<1>2. \A v, w \in Nat : <<w, v>> \in Below <=> w < v
  OBVIOUS
<1> HIDE DEF Below
<1>3. PICK v \in S : \A w \in S : <<w, v>> \notin Below
  BY <1>1, WFMin, Zenon
<1>4. \A w \in S : ~ (w < v)
  BY <1>2, <1>3
<1>5. \A w \in S : v <= w
  BY <1>4
<1> QED
  BY <1>5

\* Some of the numbers up to `n` have a greatest one.
LEMMA LastOfThem ==
    ASSUME NEW n \in Nat, NEW S, S \subseteq 0 .. n, S # {}
    PROVE  \E v \in S : \A w \in S : w <= v
<1> DEFINE left == {n - w : w \in S}
<1>1. left \subseteq Nat /\ left # {}
  <2>1. \A w \in S : n - w \in Nat
    OBVIOUS
  <2>2. PICK w \in S : TRUE
    OBVIOUS
  <2>3. n - w \in left
    BY <2>2
  <2> QED
    BY <2>1, <2>3
<1>2. PICK d \in left : \A e \in left : d <= e
  BY <1>1, LeastInstant, Zenon
<1>3. PICK v \in S : d = n - v
  BY <1>2
<1>4. \A w \in S : n - v <= n - w
  BY <1>2, <1>3
<1> QED
  BY <1>4

\* Of instants up to `now`, the latest is one of them, or 0 if there is none.
LEMMA LatestInstant ==
    ASSUME NEW n \in Nat, NEW times, times \subseteq 0 .. n
    PROVE  MaxOf(times) \in times \cup {0}
<1>1. times \cup {0} \subseteq 0 .. n
  OBVIOUS
<1>2. \E t \in times \cup {0} : \A u \in times \cup {0} : u <= t
  BY <1>1, LastOfThem
<1>3. \E t \in times \cup {0} : \A u \in times : t >= u
  BY <1>1, <1>2
<1> QED
  BY <1>3 DEF MaxOf

\* The boundary of the briefing is 0 or the instant of an answer.
LEMMA BoundaryIsAnAnswer ==
    ASSUME TypeOK, OnTheClock
    PROVE  Boundary \in Nat /\ (Boundary = 0 \/ ActedSince(Boundary))
<1> DEFINE times == {decision[q].at : q \in Answered}
<1>1. \A q \in Answered : decision[q].at \in 0 .. now /\ q \in Questions
  BY MorningConstants DEF TypeOK, OnTheClock, Answered
<1>2. times \subseteq 0 .. now /\ now \in Nat
  BY <1>1, MorningConstants DEF TypeOK
<1>3. Boundary \in times \cup {0}
  BY <1>2, LatestInstant DEF Boundary
<1> QED
  BY <1>2, <1>3 DEF ActedSince

\* What lists the open questions is a sequence of questions.
LEMMA OrderIsASequence ==
    ASSUME TypeOK, NEW s \in InOrder(ToSet(asked) \ Answered)
    PROVE  s \in Seq(Questions)
<1> DEFINE open == ToSet(asked) \ Answered
<1>1. asked \in Seq(Questions) /\ DOMAIN asked = 1 .. Len(asked) /\ Len(asked) \in Nat
  BY DEF TypeOK
<1>2. IsFiniteSet(ToSet(asked)) /\ ToSet(asked) \subseteq Questions
  <2>1. ToSet(asked) = {asked[k] : k \in 1 .. Len(asked)}
    BY <1>1 DEF ToSet
  <2>2. asked \in Surjection(1 .. Len(asked), ToSet(asked))
    BY <1>1, <2>1 DEF Surjection
  <2>3. IsFiniteSet(1 .. Len(asked))
    BY <1>1, FS_Interval
  <2> QED
    BY <1>1, <2>1, <2>2, <2>3, FS_Surjection
<1>3. Cardinality(open) \in Nat /\ open \subseteq Questions
  BY <1>2, FS_Subset, FS_CardinalityType
<1>4. s \in [1 .. Cardinality(open) -> open]
  BY DEF InOrder
<1> HIDE DEF open
<1>5. s \in [1 .. Cardinality(open) -> Questions]
  BY <1>3, <1>4
<1> QED
  BY <1>3, <1>5, SeqDef

-----------------------------------------------------------------------------
(* The steps.                                                              *)

MorningInv == NightsInv /\ AnswersInv

\* The initial state satisfies the invariant.
LEMMA MorningInit == Init => MorningInv
<1> SUFFICES ASSUME Init PROVE MorningInv
  OBVIOUS
<1> USE MorningConstants DEF Init
<1>1. <<>> \in Seq(Questions) /\ <<>> \in Seq(Texts)
  OBVIOUS
<1>2. Closed \in PageMemory
  BY <1>1 DEF Closed, PageMemory, Texts
<1>3. TypeOK
  BY <1>1, <1>2 DEF TypeOK, RunMemory, Unanswered
<1>4. OnTheClock /\ \A p \in Pages : LeavesOut(page[p])
  BY DEF OnTheClock, LeavesOut, Closed, Unanswered
<1>5. AnswersInv
  BY DEF AnswersInv, Interviewed, AsksFor, Closed, Unanswered, NoRequest
<1> QED
  BY <1>3, <1>4, <1>5 DEF MorningInv, NightsInv

\* What the night does leaves every page with what it has read.
LEMMA NightSteps ==
    ASSUME MorningInv, NEW r \in Runs,
           \/ Tick \/ StartRun(r) \/ EndRun(r)
           \/ \E q \in Questions : RaiseQuestion(r, q)
           \/ \E failed \in BOOLEAN : InterviewDone(r, failed)
    PROVE  MorningInv'
<1> USE MorningConstants DEF MorningInv, NightsInv
<1>1. UNCHANGED <<decision, page, request, adrift>>
  BY DEF Tick, StartRun, EndRun, RaiseQuestion, InterviewDone
<1>2. TypeOK'
  <2>1. CASE Tick
    BY <2>1 DEF Tick, TypeOK
  <2>2. CASE StartRun(r)
    <3>1. run' = [run EXCEPT ![r] = [run[r] EXCEPT !.at = "running", !.started = now]]
      BY <2>2 DEF StartRun, TypeOK
    <3> now \in Nat
      BY DEF TypeOK
    <3>2. run' \in [Runs -> RunMemory]
      BY <3>1 DEF TypeOK, RunMemory
    <3> QED
      BY <2>2, <3>2 DEF StartRun, TypeOK
  <2>3. CASE EndRun(r)
    BY <2>3 DEF EndRun, TypeOK, RunMemory
  <2>4. CASE \E q \in Questions : RaiseQuestion(r, q)
    BY <2>4 DEF RaiseQuestion, TypeOK
  <2>5. ASSUME NEW failed \in BOOLEAN, InterviewDone(r, failed) PROVE TypeOK'
    <3>1. run' = [run EXCEPT ![r] = [run[r] EXCEPT !.at = "done", !.failed = failed]]
      BY <2>5 DEF InterviewDone, TypeOK
    <3>2. run' \in [Runs -> RunMemory]
      BY <3>1 DEF TypeOK, RunMemory
    <3> QED
      BY <2>5, <3>2 DEF InterviewDone, TypeOK
  <2> QED
    BY <2>1, <2>2, <2>3, <2>4, <2>5
<1>3. OnTheClock' /\ Started \subseteq Started'
      /\ \A s \in Started : run'[s].started = run[s].started
  <2> USE DEF TypeOK, OnTheClock, Started
  <2>1. CASE Tick
    BY <2>1 DEF Tick, RunMemory
  <2>2. CASE StartRun(r)
    BY <2>2 DEF StartRun, RunMemory
  <2>3. CASE EndRun(r)
    BY <2>3 DEF EndRun, RunMemory
  <2>4. CASE \E q \in Questions : RaiseQuestion(r, q)
    BY <2>4 DEF RaiseQuestion
  <2>5. ASSUME NEW failed \in BOOLEAN, InterviewDone(r, failed)
        PROVE  OnTheClock' /\ Started \subseteq Started'
               /\ \A s \in Started : run'[s].started = run[s].started
    <3>1. run' = [run EXCEPT ![r] = [run[r] EXCEPT !.at = "done", !.failed = failed]]
      BY <2>5 DEF InterviewDone
    <3>2. \A s \in Runs : run'[s].started = run[s].started /\ (run[s].at # "never" => run'[s].at # "never")
                          /\ (run'[s].at # "never" => run[s].at # "never")
      <4>1. run[r].at = "interview"
        BY <2>5 DEF InterviewDone
      <4> QED
        BY <3>1, <4>1 DEF RunMemory
    <3> QED
      BY <2>5, <3>2 DEF InterviewDone
  <2> QED
    BY <2>1, <2>2, <2>3, <2>4, <2>5
<1>4. \A t : ActedSince(t)' = ActedSince(t)
  BY <1>1 DEF ActedSince, Answered
<1>5. \A p \in Pages : LeavesOut(page[p])'
  BY <1>1, <1>3, <1>4 DEF LeavesOut
<1>6. AnswersInv'
  BY <1>1 DEF AnswersInv, Interviewed, AsksFor
<1> QED
  BY <1>2, <1>3, <1>5, <1>6

\* A page that becomes m, with the request rq, where m and rq are as they have
\* to be, disturbs no other page.
LEMMA OnePage ==
    ASSUME MorningInv, NEW p \in Pages,
           NEW m \in PageMemory, NEW rq \in {NoRequest} \cup RequestMemory,
           LeavesOut(m), Interviewed(m), AsksFor(m, rq),
           page' = [page EXCEPT ![p] = m], request' = [request EXCEPT ![p] = rq],
           adrift' \subseteq adrift \cup {a \in {request[p]} : a.at = "there"},
           losses' \in 0 .. MaxLosses, UNCHANGED <<now, run, decision, asked>>
    PROVE  MorningInv'
<1> USE DEF MorningInv, NightsInv
<1>1. \A q \in Pages : /\ page'[q] = IF q = p THEN m ELSE page[q]
                       /\ request'[q] = IF q = p THEN rq ELSE request[q]
  BY DEF TypeOK
<1>2. TypeOK'
  <2>1. adrift' \subseteq RequestMemory
    BY DEF TypeOK, NoRequest
  <2> QED
    BY <2>1 DEF TypeOK
<1>3. OnTheClock' /\ Started' = Started /\ Answered' = Answered
  BY DEF OnTheClock, Started, Answered
<1>4. \A q \in Pages : LeavesOut(page[q])'
  BY <1>1, <1>3 DEF LeavesOut, ActedSince
<1>5. AnswersInv'
  <2>1. \A a \in adrift' : a.text \in {a.question, Empty}
    BY DEF AnswersInv, AsksFor
  <2> QED
    BY <1>1, <2>1 DEF AnswersInv, Interviewed, AsksFor
<1> QED
  BY <1>2, <1>3, <1>4, <1>5

\* Every statement of the briefing, read at whatever moment, leaves the page with
\* a part of a briefing that is still true.
LEMMA ReadSteps ==
    ASSUME MorningInv, NEW p \in Pages,
           \/ Load(p) \/ ReadBoundary(p) \/ ReadRuns(p) \/ ReadQuestions(p)
           \/ ReadError(p) \/ LoadFails(p)
    PROVE  MorningInv'
<1> USE MorningConstants
<1> DEFINE m == page[p]
           new == page'[p]
<1>1. /\ TypeOK /\ OnTheClock
      /\ m \in PageMemory /\ request[p] \in {NoRequest} \cup RequestMemory
      /\ LeavesOut(m) /\ Interviewed(m) /\ AsksFor(m, request[p])
  BY DEF MorningInv, NightsInv, AnswersInv, TypeOK
<1>2. /\ page' = [page EXCEPT ![p] = new]
      /\ ReadBoundary(p) \/ ReadRuns(p) \/ ReadQuestions(p) \/ ReadError(p) \/ LoadFails(p) =>
           request' = [request EXCEPT ![p] = request[p]] /\ UNCHANGED adrift
      /\ losses' \in 0 .. MaxLosses /\ UNCHANGED <<now, run, decision, asked>>
  <2>1. \/ \E v : page' = [page EXCEPT ![p] = v]
        \/ UNCHANGED page
    BY DEF Load, ReadBoundary, ReadRuns, ReadQuestions, ReadError, LoadFails
  <2>2. page' = [page EXCEPT ![p] = new]
    BY <1>1, <2>1 DEF TypeOK
  <2>3. /\ ReadBoundary(p) \/ ReadRuns(p) \/ ReadQuestions(p) \/ ReadError(p) \/ LoadFails(p) =>
             UNCHANGED <<request, adrift>>
        /\ losses' \in {losses, losses + 1} /\ UNCHANGED <<now, run, decision, asked>>
        /\ losses' # losses => losses < MaxLosses
    BY DEF Load, ReadBoundary, ReadRuns, ReadQuestions, ReadError, LoadFails, Reading
  <2> QED
    BY <1>1, <2>2, <2>3 DEF TypeOK
<1>3. m.at # "ready" => request[p].at = "none" /\ m.sent = <<>> /\ m.draft = Empty
  BY <1>1 DEF AsksFor, Interviewed
<1>4. <<>> \in Seq(Questions) /\ <<>> \in Seq(Texts) /\ Len(<<>>) = 0
  OBVIOUS
<1>5. CASE Load(p)
  <2>1. /\ new = [Closed EXCEPT !.at = "boundary", !.left = Started]
        /\ request' = [request EXCEPT ![p] = NoRequest]
        /\ adrift' = adrift \cup {rq \in {request[p]} : rq.at = "there"}
    BY <1>1, <1>5 DEF Load, TypeOK
  <2>2. /\ new.at = "boundary" /\ new.left = Started /\ new.index = 1
        /\ new.sent = <<>> /\ new.draft = Empty /\ new.questions = <<>>
        /\ new \in PageMemory
    <3>1. Started \subseteq Runs
      BY DEF Started
    <3> HIDE DEF new
    <3> QED
      BY <2>1, <3>1, <1>4 DEF Closed, PageMemory, Texts
  <2>3. LeavesOut(new) /\ Interviewed(new) /\ AsksFor(new, NoRequest)
    BY <2>1, <2>2, <1>4 DEF LeavesOut, Interviewed, AsksFor, NoRequest
  <2> HIDE DEF new, m
  <2> QED
    BY <1>1, <1>2, <2>1, <2>2, <2>3, OnePage
<1>6. CASE ReadBoundary(p)
  <2>1. new = [m EXCEPT !.at = "runs", !.since = Boundary] /\ m.at = "boundary"
    BY <1>1, <1>6 DEF ReadBoundary, Reading, TypeOK
  <2>2. Boundary \in Nat /\ (Boundary = 0 \/ ActedSince(Boundary))
    BY <1>1, BoundaryIsAnAnswer
  <2>3. /\ new.at = "runs" /\ new.since = Boundary /\ new.left = m.left /\ new.index = m.index
        /\ new.sent = m.sent /\ new.draft = m.draft /\ new.questions = m.questions
        /\ new \in PageMemory
    BY <2>1, <2>2, <1>1 DEF PageMemory
  <2>4. LeavesOut(new) /\ Interviewed(new) /\ AsksFor(new, request[p])
    BY <1>1, <1>3, <2>1, <2>2, <2>3 DEF LeavesOut, Interviewed, AsksFor
  <2> QED
    BY <1>1, <1>2, <1>6, <2>3, <2>4, OnePage
<1>7. CASE ReadRuns(p)
  <2> DEFINE shown == {r \in Started : run[r].started > m.since}
  <2>1. /\ new = [m EXCEPT !.at = "questions", !.since = 0, !.nights = shown, !.left = @ \ shown]
        /\ m.at = "runs"
    BY <1>1, <1>7 DEF ReadRuns, Reading, TypeOK
  <2>2. /\ new.at = "questions" /\ new.left = m.left \ shown /\ new.index = m.index
        /\ new.sent = m.sent /\ new.draft = m.draft /\ new.questions = m.questions
        /\ new \in PageMemory
    <3>1. shown \subseteq Runs
      BY DEF Started
    <3> HIDE DEF shown, new, m
    <3> QED
      BY <2>1, <3>1, <1>1 DEF PageMemory
  <2>3. ASSUME NEW r \in m.left \ shown PROVE ActedSince(run[r].started)
    <3>1. r \in Started /\ r \in Runs /\ run[r].started <= m.since /\ run[r].started >= 1
      BY <1>1, <2>3 DEF LeavesOut, PageMemory, TypeOK, RunMemory, OnTheClock, Started
    <3>2. m.since # 0 /\ ActedSince(m.since)
      BY <1>1, <2>1, <3>1 DEF LeavesOut, PageMemory, TypeOK, RunMemory
    <3> QED
      BY <1>1, <3>1, <3>2 DEF ActedSince, Answered, TypeOK, RunMemory, PageMemory
  <2>4. LeavesOut(new) /\ Interviewed(new) /\ AsksFor(new, request[p])
    BY <1>1, <1>3, <2>1, <2>2, <2>3 DEF LeavesOut, Interviewed, AsksFor
  <2> QED
    BY <1>1, <1>2, <1>7, <2>2, <2>4, OnePage
<1>8. CASE ReadQuestions(p)
  <2>1. PICK s \in InOrder(ToSet(asked) \ Answered) :
          new = [m EXCEPT !.at = "error", !.questions = s]
    BY <1>1, <1>8 DEF ReadQuestions, TypeOK
  <2>2. m.at = "questions"
    BY <1>8 DEF ReadQuestions, Reading
  <2>3. s \in Seq(Questions)
    BY <1>1, OrderIsASequence
  <2>4. /\ new.at = "error" /\ new.left = m.left /\ new.index = m.index
        /\ new.sent = m.sent /\ new.draft = m.draft /\ new.questions = s
        /\ new \in PageMemory
    BY <2>1, <2>3, <1>1 DEF PageMemory
  <2>5. LeavesOut(new) /\ Interviewed(new) /\ AsksFor(new, request[p])
    BY <1>1, <1>3, <1>4, <2>2, <2>3, <2>4 DEF LeavesOut, Interviewed, AsksFor
  <2> QED
    BY <1>1, <1>2, <1>8, <2>4, <2>5, OnePage
<1>9. CASE ReadError(p)
  <2>1. /\ new = [m EXCEPT !.at = "ready", !.nights = {}, !.error = InterviewerError(m.nights)]
        /\ m.at = "error"
    BY <1>1, <1>9 DEF ReadError, Reading, TypeOK
  <2>2. /\ new.at = "ready" /\ new.left = m.left /\ new.index = m.index
        /\ new.sent = m.sent /\ new.draft = m.draft /\ new.questions = m.questions
        /\ new \in PageMemory
    BY <2>1, <1>1 DEF PageMemory, InterviewerError
  <2>3. LeavesOut(new) /\ Interviewed(new) /\ AsksFor(new, request[p])
    BY <1>1, <1>3, <2>1, <2>2 DEF LeavesOut, Interviewed, AsksFor
  <2> QED
    BY <1>1, <1>2, <1>9, <2>2, <2>3, OnePage
<1>10. CASE LoadFails(p)
  <2>1. new = Closed /\ m.at # "ready"
    BY <1>1, <1>10 DEF LoadFails, TypeOK
  <2>2. new \in PageMemory /\ LeavesOut(new) /\ Interviewed(new) /\ AsksFor(new, request[p])
    BY <1>3, <1>4, <2>1 DEF Closed, PageMemory, Texts, Started, LeavesOut, Interviewed, AsksFor
  <2> QED
    BY <1>1, <1>2, <1>10, <2>2, OnePage
<1> QED
  BY <1>5, <1>6, <1>7, <1>8, <1>9, <1>10

\* An answer is stored by itself: whoever had acted has, no other answer is
\* touched, and none once recorded is.
LEMMA StoredByItself ==
    ASSUME MorningInv, NEW rq \in RequestMemory, rq.text \in {rq.question, Empty},
           decision' = Stored(rq), UNCHANGED <<now, run, asked, page>>
    PROVE  /\ decision' \in [Questions -> [text : Texts \cup {Open}, at : Nat]]
           /\ OnTheClock'
           /\ \A s \in Pages : LeavesOut(page[s])' /\ Interviewed(page[s])'
           /\ \A x \in Questions : decision'[x].text \in {x, Empty, Open}
           /\ \A x \in Answered : decision'[x] = decision[x]
           /\ Reply(rq.question, rq.text) = "recorded" => decision'[rq.question].text = rq.text
<1> USE MorningConstants
<1> DEFINE q == rq.question
<1>1. TypeOK /\ OnTheClock /\ now \in Nat
  BY DEF MorningInv, NightsInv, TypeOK
<1>2. q \in Questions /\ rq.text \in Texts /\ rq.text # Open
  BY DEF RequestMemory, Texts
<1>3. /\ decision' \in [Questions -> [text : Texts \cup {Open}, at : Nat]]
      /\ \A x \in Questions : /\ x \in Answered => decision'[x] = decision[x]
                              /\ decision'[x] # decision[x] => decision'[x] = [text |-> rq.text, at |-> now]
                              /\ decision'[x] # decision[x] => x = q
  BY <1>1, <1>2 DEF TypeOK, Stored
<1>4. \A x \in Answered : x \in Answered' /\ decision'[x] = decision[x]
  BY <1>3 DEF Answered
<1>5. Reply(q, rq.text) = "recorded" => decision'[q].text = rq.text
  <2>1. CASE q \in Answered
    BY <2>1 DEF Reply, Answered, Stored
  <2>2. CASE q \notin Answered
    BY <1>1, <1>2, <2>2 DEF TypeOK, Stored
  <2> QED
    BY <2>1, <2>2
<1>6. OnTheClock'
  <2>1. ASSUME NEW x \in Questions PROVE decision'[x].at <= now
    <3>1. CASE decision'[x] = decision[x]
      BY <1>1, <3>1 DEF OnTheClock
    <3>2. CASE decision'[x] # decision[x]
      BY <1>1, <1>3, <3>2
    <3> QED
      BY <3>1, <3>2
  <2> QED
    BY <1>1, <2>1 DEF OnTheClock
<1>7. \A s \in Pages : LeavesOut(page[s])'
  <2>1. \A t : ActedSince(t) => ActedSince(t)'
    BY <1>4 DEF ActedSince
  <2>2. Started' = Started
    BY DEF Started
  <2> QED
    BY <2>1, <2>2 DEF LeavesOut, MorningInv, NightsInv
<1>8. \A x \in Questions : decision'[x].text \in {x, Empty, Open}
  BY <1>2, <1>3 DEF MorningInv, AnswersInv
<1>9. ASSUME NEW s \in Pages PROVE Interviewed(page[s])'
  <2>1. page[s] \in PageMemory /\ Interviewed(page[s])
    BY DEF MorningInv, NightsInv, AnswersInv, TypeOK
  <2>2. ASSUME NEW k \in 1 .. Len(page[s].sent)
        PROVE  decision'[page[s].questions[k]].text = page[s].sent[k]
    <3>1. page[s].questions[k] \in Questions /\ decision[page[s].questions[k]].text # Open
      BY <2>1 DEF Interviewed, PageMemory
    <3> QED
      BY <2>1, <3>1, <1>4 DEF Interviewed, Answered
  <2> QED
    BY <2>1, <2>2 DEF Interviewed
<1> QED
  BY <1>3, <1>4, <1>5, <1>6, <1>7, <1>8, <1>9

\* What a page heard to be recorded still is once another answer is stored.
LEMMA HeardStaysTrue ==
    ASSUME MorningInv, NEW s \in Pages, UNCHANGED page,
           \A x \in Answered : decision'[x] = decision[x]
    PROVE  AsksFor(page[s], request[s])
           /\ (request[s].at = "recorded" => decision'[request[s].question].text = request[s].text)
<1>1. AsksFor(page[s], request[s]) /\ request[s] \in {NoRequest} \cup RequestMemory
  BY DEF MorningInv, NightsInv, AnswersInv, TypeOK
<1>2. request[s].at = "recorded" =>
        request[s].question \in Questions /\ request[s].text # Open
        /\ decision[request[s].question].text = request[s].text
  BY <1>1, MorningConstants DEF AsksFor, RequestMemory, Texts, NoRequest
<1> QED
  BY <1>1, <1>2 DEF Answered

\* The server stores an answer, and the page it came from hears of it.
LEMMA HandleStep ==
    ASSUME MorningInv, NEW p \in Pages, Handle(p)
    PROVE  MorningInv'
<1> DEFINE rq == request[p]
           answered == [rq EXCEPT !.at = Reply(rq.question, rq.text)]
<1>1. /\ TypeOK /\ rq.at = "there" /\ rq \in RequestMemory /\ AsksFor(page[p], rq)
      /\ UNCHANGED <<now, run, asked, page, adrift, losses>> /\ decision' = Stored(rq)
  BY DEF MorningInv, NightsInv, AnswersInv, TypeOK, Handle, NoRequest
<1>2. rq.text \in {rq.question, Empty}
  BY <1>1 DEF AsksFor
<1>3. /\ decision' \in [Questions -> [text : Texts \cup {Open}, at : Nat]]
      /\ OnTheClock'
      /\ \A s \in Pages : LeavesOut(page[s])' /\ Interviewed(page[s])'
      /\ \A x \in Questions : decision'[x].text \in {x, Empty, Open}
      /\ \A x \in Answered : decision'[x] = decision[x]
      /\ Reply(rq.question, rq.text) = "recorded" => decision'[rq.question].text = rq.text
  BY <1>1, <1>2, StoredByItself
<1>4. \A s \in Pages : request'[s] = IF s = p THEN answered ELSE request[s]
  BY <1>1 DEF Handle, TypeOK
<1>5. /\ answered \in RequestMemory /\ answered.question = rq.question /\ answered.text = rq.text
      /\ answered.at = Reply(rq.question, rq.text) /\ answered.at \in {"recorded", "refused"}
  <2>1. Reply(rq.question, rq.text) \in {"recorded", "refused"}
    BY DEF Reply
  <2> HIDE DEF rq
  <2> QED
    BY <1>1, <2>1 DEF RequestMemory
<1>6. TypeOK'
  <2>1. request' \in [Pages -> {NoRequest} \cup RequestMemory]
    <3>1. request' = [s \in Pages |-> request'[s]]
      BY <1>1 DEF Handle, TypeOK
    <3> QED
      BY <1>1, <1>4, <1>5, <3>1 DEF TypeOK
  <2> QED
    BY <1>1, <1>3, <2>1 DEF TypeOK
<1>7. ASSUME NEW s \in Pages PROVE AsksFor(page[s], request[s])'
  <2>1. CASE s = p
    <3> HIDE DEF answered
    <3> QED
      BY <1>1, <1>3, <1>4, <1>5, <2>1 DEF AsksFor
  <2>2. CASE s # p
    <3>1. AsksFor(page[s], request[s])
          /\ (request[s].at = "recorded" => decision'[request[s].question].text = request[s].text)
      BY <1>1, <1>3, HeardStaysTrue
    <3>2. request'[s] = request[s] /\ page' = page
      BY <1>1, <1>4, <2>2
    <3> QED
      BY <3>1, <3>2 DEF AsksFor
  <2> QED
    BY <2>1, <2>2
<1>8. \A a \in adrift' : a.text \in {a.question, Empty}
  BY <1>1 DEF MorningInv, AnswersInv
<1> QED
  BY <1>3, <1>6, <1>7, <1>8 DEF MorningInv, NightsInv, AnswersInv

\* The server stores an answer nobody waits for.
LEMMA AdriftStep ==
    ASSUME MorningInv, NEW rq \in adrift, HandleAdrift(rq)
    PROVE  MorningInv'
<1>1. /\ TypeOK /\ rq \in RequestMemory /\ rq.text \in {rq.question, Empty}
      /\ UNCHANGED <<now, run, asked, page, request, losses>>
      /\ adrift' \subseteq adrift /\ decision' = Stored(rq)
  BY DEF MorningInv, NightsInv, AnswersInv, TypeOK, HandleAdrift
<1>2. /\ decision' \in [Questions -> [text : Texts \cup {Open}, at : Nat]]
      /\ OnTheClock'
      /\ \A s \in Pages : LeavesOut(page[s])' /\ Interviewed(page[s])'
      /\ \A x \in Questions : decision'[x].text \in {x, Empty, Open}
      /\ \A x \in Answered : decision'[x] = decision[x]
  BY <1>1, StoredByItself
<1>3. TypeOK'
  BY <1>1, <1>2 DEF TypeOK
<1>4. ASSUME NEW s \in Pages PROVE AsksFor(page[s], request[s])'
  <2>1. AsksFor(page[s], request[s])
        /\ (request[s].at = "recorded" => decision'[request[s].question].text = request[s].text)
    BY <1>1, <1>2, HeardStaysTrue
  <2> QED
    BY <1>1, <2>1 DEF AsksFor
<1>5. \A a \in adrift' : a.text \in {a.question, Empty}
  BY <1>1 DEF MorningInv, AnswersInv
<1> QED
  BY <1>2, <1>3, <1>4, <1>5 DEF MorningInv, NightsInv, AnswersInv

\* What a person does on a page, and what the page makes of a reply.
LEMMA InterviewSteps ==
    ASSUME MorningInv, NEW p \in Pages,
           Type(p) \/ Dispose(p) \/ Lose(p) \/ Recorded(p) \/ Unrecorded(p)
    PROVE  MorningInv'
<1> USE MorningConstants
<1> DEFINE m == page[p]
           rq == request[p]
           new == page'[p]
<1>1. /\ TypeOK /\ m \in PageMemory /\ rq \in {NoRequest} \cup RequestMemory
      /\ LeavesOut(m) /\ Interviewed(m) /\ AsksFor(m, rq)
      /\ page' = [page EXCEPT ![p] = m] \/ page' # page
      /\ request = [request EXCEPT ![p] = rq]
  BY DEF MorningInv, NightsInv, AnswersInv, TypeOK
<1>2. Len(m.questions) \in Nat /\ m.questions \in Seq(Questions) /\ m.index \in Nat \ {0}
      /\ m.sent \in Seq(Texts) /\ Len(m.sent) \in Nat
  BY <1>1 DEF PageMemory, Interviewed
<1>3. page = [page EXCEPT ![p] = m]
  BY <1>1 DEF TypeOK
<1>4. CASE Type(p)
  <2>1. /\ page' = [page EXCEPT ![p] = [m EXCEPT !.draft = Current(p)]]
        /\ m.at = "ready" /\ m.index <= Len(m.questions)
        /\ request' = request /\ UNCHANGED <<now, run, decision, asked, adrift, losses>>
    BY <1>4 DEF Type, Asking
  <2> DEFINE n == [m EXCEPT !.draft = Current(p)]
  <2>2. Current(p) \in Questions /\ Current(p) = m.questions[m.index]
    BY <1>2, <2>1 DEF Current
  <2>3. /\ n \in PageMemory /\ n.at = "ready" /\ n.left = m.left /\ n.index = m.index
        /\ n.sent = m.sent /\ n.draft = Current(p) /\ n.questions = m.questions
    <3> HIDE DEF m
    <3> QED
      BY <1>1, <2>1, <2>2 DEF PageMemory, Texts
  <2> HIDE DEF n
  <2>4. LeavesOut(n) /\ Interviewed(n) /\ AsksFor(n, rq)
    BY <1>1, <2>1, <2>2, <2>3 DEF LeavesOut, Interviewed, AsksFor
  <2>5. page' = [page EXCEPT ![p] = n] /\ request' = [request EXCEPT ![p] = rq]
    BY <1>1, <2>1 DEF n
  <2> QED
    BY <1>1, <2>1, <2>3, <2>4, <2>5, OnePage DEF TypeOK
<1>5. CASE Dispose(p)
  <2> DEFINE s == [at |-> "there", question |-> Current(p), text |-> m.draft]
  <2>1. /\ request' = [request EXCEPT ![p] = s]
        /\ m.at = "ready" /\ m.index <= Len(m.questions)
        /\ page' = page /\ UNCHANGED <<now, run, decision, asked, adrift, losses>>
    BY <1>5 DEF Dispose, Asking
  <2>2. Current(p) \in Questions /\ Current(p) = m.questions[m.index] /\ m.draft \in Texts
        /\ m.draft \in {Current(p), Empty}
    BY <1>1, <1>2, <2>1 DEF Current, PageMemory, Interviewed
  <2>3. s \in RequestMemory
    BY <2>2 DEF RequestMemory
  <2>4. AsksFor(m, s)
    BY <1>1, <2>1, <2>2 DEF AsksFor
  <2> QED
    BY <1>1, <1>3, <2>1, <2>3, <2>4, OnePage DEF TypeOK
<1>6. CASE Lose(p)
  <2> DEFINE s == [rq EXCEPT !.at = "lost"]
  <2>1. /\ request' = [request EXCEPT ![p] = s]
        /\ rq.at \in {"there", "recorded", "refused"} /\ losses' \in 0 .. MaxLosses
        /\ page' = page /\ UNCHANGED <<now, run, decision, asked, adrift>>
    BY <1>1, <1>6 DEF Lose, TypeOK
  <2>2. s \in RequestMemory /\ s.at = "lost" /\ s.question = rq.question /\ s.text = rq.text
    BY <1>1, <2>1 DEF RequestMemory, NoRequest
  <2>3. AsksFor(m, s)
    BY <1>1, <2>1, <2>2 DEF AsksFor
  <2> QED
    BY <1>1, <1>3, <2>1, <2>2, <2>3, OnePage
<1>7. CASE Unrecorded(p)
  <2>1. /\ request' = [request EXCEPT ![p] = NoRequest]
        /\ page' = page /\ UNCHANGED <<now, run, decision, asked, adrift, losses>>
    BY <1>7 DEF Unrecorded
  <2>2. AsksFor(m, NoRequest)
    BY DEF AsksFor, NoRequest
  <2> QED
    BY <1>1, <1>3, <2>1, <2>2, OnePage DEF TypeOK
<1>8. CASE Recorded(p)
  <2> DEFINE sent == Append(m.sent, rq.text)
             n == [m EXCEPT !.sent = sent, !.index = m.index + 1, !.draft = Empty]
  <2>1. /\ new = Advanced([m EXCEPT !.sent = Append(m.sent, rq.text)])
        /\ page' = [page EXCEPT ![p] = new]
        /\ request' = [request EXCEPT ![p] = NoRequest] /\ rq.at = "recorded"
        /\ UNCHANGED <<now, run, decision, asked, adrift, losses>>
    BY <1>1, <1>8 DEF Recorded, TypeOK
  <2>2. /\ m.at = "ready" /\ m.index <= Len(m.questions) /\ rq.text \in Texts /\ rq.text # Open
        /\ decision[m.questions[m.index]].text = rq.text
    BY <1>1, <2>1 DEF AsksFor, RequestMemory, Texts, NoRequest
  <2>3. /\ n \in PageMemory /\ n.at = "ready" /\ n.left = m.left /\ n.index = m.index + 1
        /\ n.sent = Append(m.sent, rq.text) /\ n.draft = Empty /\ n.questions = m.questions
    <3>1. sent \in Seq(Texts)
      BY <1>2, <2>2
    <3> HIDE DEF m, rq, sent
    <3>2. Empty \in Texts /\ m.index + 1 \in Nat /\ m \in PageMemory /\ m.at = "ready"
      BY <1>1, <1>2, <2>2 DEF Texts
    <3>3. n \in PageMemory /\ n.at = "ready" /\ n.left = m.left /\ n.index = m.index + 1
          /\ n.sent = sent /\ n.draft = Empty /\ n.questions = m.questions
      BY <3>1, <3>2 DEF PageMemory
    <3> QED
      BY <3>3 DEF sent
  <2>4. Advanced([m EXCEPT !.sent = Append(m.sent, rq.text)]) = n
    <3> HIDE DEF m, rq
    <3> QED
      BY <1>1 DEF Advanced, PageMemory
  <2> HIDE DEF n
  <2>5. /\ Len(n.sent) = Len(m.sent) + 1
        /\ \A k \in 1 .. Len(n.sent) : n.sent[k] = IF k = m.index THEN rq.text ELSE m.sent[k]
    BY <1>1, <1>2, <2>2, <2>3 DEF Interviewed
  <2>6. Interviewed(n)
    <3>1. \A k \in 1 .. Len(n.sent) :
            n.sent[k] # Open /\ decision[n.questions[k]].text = n.sent[k]
      BY <1>1, <1>2, <2>2, <2>3, <2>5 DEF Interviewed
    <3> QED
      BY <1>1, <1>2, <2>2, <2>3, <2>5, <3>1 DEF Interviewed
  <2>7. LeavesOut(n) /\ AsksFor(n, NoRequest)
    BY <1>1, <2>2, <2>3 DEF LeavesOut, AsksFor, NoRequest
  <2> QED
    BY <1>1, <2>1, <2>3, <2>4, <2>6, <2>7, OnePage DEF TypeOK
<1> QED
  BY <1>4, <1>5, <1>6, <1>7, <1>8

\* Every step of the morning keeps the invariant.
LEMMA MorningStep == MorningInv /\ [Next]_vars => MorningInv'
<1> SUFFICES ASSUME MorningInv, [Next]_vars PROVE MorningInv'
  OBVIOUS
<1>1. ASSUME NEW r \in Runs,
             \/ StartRun(r) \/ EndRun(r)
             \/ \E q \in Questions : RaiseQuestion(r, q)
             \/ \E failed \in BOOLEAN : InterviewDone(r, failed)
      PROVE  MorningInv'
  BY <1>1, NightSteps
<1>2. CASE Tick
  <2>1. TypeOK' /\ OnTheClock'
    BY <1>2, MorningConstants DEF Tick, MorningInv, NightsInv, TypeOK, OnTheClock, RunMemory
  <2>2. UNCHANGED <<run, decision, page, request, adrift>>
    BY <1>2 DEF Tick
  <2>3. \A p \in Pages : LeavesOut(page[p])'
    BY <2>2 DEF MorningInv, NightsInv, LeavesOut, Started, ActedSince, Answered
  <2>4. AnswersInv'
    BY <2>2 DEF MorningInv, AnswersInv, Interviewed, AsksFor
  <2> QED
    BY <2>1, <2>3, <2>4 DEF MorningInv, NightsInv
<1>3. ASSUME NEW p \in Pages,
             \/ Load(p) \/ ReadBoundary(p) \/ ReadRuns(p) \/ ReadQuestions(p)
             \/ ReadError(p) \/ LoadFails(p)
      PROVE  MorningInv'
  BY <1>3, ReadSteps
<1>4. ASSUME NEW p \in Pages,
             Type(p) \/ Dispose(p) \/ Lose(p) \/ Recorded(p) \/ Unrecorded(p)
      PROVE  MorningInv'
  BY <1>4, InterviewSteps
<1>5. ASSUME NEW p \in Pages, Handle(p) PROVE MorningInv'
  BY <1>5, HandleStep
<1>6. ASSUME NEW rq \in adrift, HandleAdrift(rq) PROVE MorningInv'
  BY <1>6, AdriftStep
<1>7. CASE UNCHANGED vars
  BY <1>7 DEF vars, MorningInv, NightsInv, AnswersInv, TypeOK, OnTheClock, LeavesOut,
     Interviewed, AsksFor, Started, ActedSince, Answered
<1> QED
  BY <1>1, <1>2, <1>3, <1>4, <1>5, <1>6, <1>7 DEF Next

\* The invariant holds in every reachable state.
LEMMA MorningInvariant == Spec => []MorningInv
BY MorningInit, MorningStep, PTL DEF Spec

\* The clock, the tables and every page hold values of their types.
THEOREM MorningTypes == Spec => []TypeOK
<1>1. MorningInv => TypeOK
  BY DEF MorningInv, NightsInv
<1> QED
  BY <1>1, MorningInvariant, PTL

\* A briefing leaves out no run but those somebody has acted after, however the
\* night's writes fall between the statements that read it (briefing.py, "The
\* delta boundary").
THEOREM NoNightLost == Spec => []NoNightIsDropped
<1>1. MorningInv => NoNightIsDropped
  BY DEF MorningInv, NightsInv, LeavesOut, NoNightIsDropped, ActedSince
<1> QED
  BY <1>1, MorningInvariant, PTL

\* What is recorded for a question was typed under it, and a page goes past a
\* question only when what it sent is what is recorded (page.tsx, dispose).
THEOREM AnswersStayTheirOwn == Spec => []AnswersAreTheirOwn
<1>1. MorningInv => AnswersAreTheirOwn
  BY DEF MorningInv, AnswersInv, Interviewed, AnswersAreTheirOwn
<1> QED
  BY <1>1, MorningInvariant, PTL

-----------------------------------------------------------------------------
(* The night laid out, and the playhead over it (NightTimeline).           *)

\* Of the places where one may stop, the first from `k` on, and the last up to it.
NextStop(stops, k, j) == j \in stops /\ k <= j /\ \A i \in k .. j - 1 : i \notin stops
LastStop(stops, k, j) == j \in stops /\ j <= k /\ \A i \in j + 1 .. k : i \notin stops

\* There is one such place, and what there is from a place where one may not stop is
\* what there is from the next.
LEMMA NextStopIsOne ==
    ASSUME NEW n \in Nat, NEW stops, stops \subseteq Nat, n \in stops, NEW k \in 0 .. n
    PROVE  /\ \E j : NextStop(stops, k, j)
           /\ \A i, j : NextStop(stops, k, i) /\ NextStop(stops, k, j) => i = j
           /\ k \in stops => NextStop(stops, k, k)
           /\ k \notin stops => k + 1 \in 0 .. n
           /\ \A j : k \notin stops /\ NextStop(stops, k + 1, j) => NextStop(stops, k, j)
<1> DEFINE side == {j \in stops : k <= j}
<1>1. n \in side /\ \A j \in side : j \in Nat
  OBVIOUS
<1>2. PICK j \in side : \A i \in side : j <= i
  <2>1. side \subseteq Nat
    BY <1>1
  <2> HIDE DEF side
  <2> QED
    BY <1>1, <2>1, LeastInstant, Zenon
<1>3. NextStop(stops, k, j)
  BY <1>2 DEF NextStop
<1>4. \A i, m : NextStop(stops, k, i) /\ NextStop(stops, k, m) => i = m
  BY DEF NextStop
<1>5. k \in stops => NextStop(stops, k, k)
  BY DEF NextStop
<1>6. k \notin stops => k + 1 \in 0 .. n
  OBVIOUS
<1>7. \A i : k \notin stops /\ NextStop(stops, k + 1, i) => NextStop(stops, k, i)
  BY DEF NextStop
<1> QED
  BY <1>3, <1>4, <1>5, <1>6, <1>7

\* A loop that goes forwards from place to place ends at that one.
LEMMA GoesForwards ==
    ASSUME NEW n \in Nat, NEW stops, stops \subseteq Nat, n \in stops
    PROVE  /\ \E w : w = [k \in 0 .. n |-> IF k \in stops THEN k ELSE w[k + 1]]
           /\ \A w : w = [k \in 0 .. n |-> IF k \in stops THEN k ELSE w[k + 1]] =>
                \A k \in 0 .. n : NextStop(stops, k, w[k])
<1>1. \E w : w = [k \in 0 .. n |-> IF k \in stops THEN k ELSE w[k + 1]]
  <2> DEFINE w == [k \in 0 .. n |-> CHOOSE j : NextStop(stops, k, j)]
  <2>0. w = [k \in 0 .. n |-> w[k]]
    OBVIOUS
  <2>1. ASSUME NEW k \in 0 .. n PROVE NextStop(stops, k, w[k])
    BY NextStopIsOne
  <2> HIDE DEF w
  <2>2. ASSUME NEW k \in 0 .. n PROVE w[k] = IF k \in stops THEN k ELSE w[k + 1]
    <3>1. CASE k \in stops
      BY <2>1, <3>1, NextStopIsOne
    <3>2. CASE k \notin stops
      <4>1. k + 1 \in 0 .. n
        BY <3>2, NextStopIsOne
      <4>2. NextStop(stops, k + 1, w[k + 1])
        BY <2>1, <4>1
      <4>3. NextStop(stops, k, w[k + 1])
        BY <3>2, <4>2, NextStopIsOne
      <4>4. w[k] = w[k + 1]
        <5>1. \A i, j : NextStop(stops, k, i) /\ NextStop(stops, k, j) => i = j
          BY NextStopIsOne
        <5> QED
          BY <2>1, <4>3, <5>1, Zenon
      <4> QED
        BY <3>2, <4>4
    <3> QED
      BY <3>1, <3>2
  <2>3. w = [k \in 0 .. n |-> IF k \in stops THEN k ELSE w[k + 1]]
    BY <2>0, <2>2
  <2> QED
    BY <2>3, Zenon
<1>2. ASSUME NEW w, w = [k \in 0 .. n |-> IF k \in stops THEN k ELSE w[k + 1]]
      PROVE  \A k \in 0 .. n : NextStop(stops, k, w[k])
  <2>1. \A k \in 0 .. n : w[k] = IF k \in stops THEN k ELSE w[k + 1]
    BY <1>2
  <2> DEFINE bad == {k \in 0 .. n : ~NextStop(stops, k, w[k])}
  <2>2. SUFFICES ASSUME bad # {} PROVE FALSE
    OBVIOUS
  <2>3. PICK k \in bad : \A j \in bad : j <= k
    <3>1. bad \subseteq 0 .. n
      OBVIOUS
    <3> HIDE DEF bad
    <3> QED
      BY <2>2, <3>1, LastOfThem
  <2>4. k \in 0 .. n /\ ~NextStop(stops, k, w[k]) /\ k + 1 \notin bad
    BY <2>3
  <2>5. CASE k \in stops
    <3>1. w[k] = k
      BY <2>1, <2>4, <2>5
    <3> QED
      BY <2>4, <2>5, <3>1, NextStopIsOne
  <2>6. CASE k \notin stops
    <3>1. k + 1 \in 0 .. n /\ w[k] = w[k + 1]
      BY <2>1, <2>4, <2>6, NextStopIsOne
    <3>2. NextStop(stops, k + 1, w[k + 1])
      BY <2>4, <3>1
    <3>3. NextStop(stops, k, w[k + 1])
      <4>1. \A j : NextStop(stops, k + 1, j) => NextStop(stops, k, j)
        BY <2>4, <2>6, NextStopIsOne
      <4> QED
        BY <3>2, <4>1, Zenon
    <3> QED
      BY <2>4, <3>1, <3>3
  <2> QED
    BY <2>5, <2>6
<1> QED
  BY <1>1, <1>2, Zenon

\* The same of the last up to a place.
LEMMA LastStopIsOne ==
    ASSUME NEW n \in Nat, NEW stops, stops \subseteq Nat, 0 \in stops, NEW k \in 0 .. n
    PROVE  /\ \E j : LastStop(stops, k, j)
           /\ \A i, j : LastStop(stops, k, i) /\ LastStop(stops, k, j) => i = j
           /\ k \in stops => LastStop(stops, k, k)
           /\ k \notin stops => k - 1 \in 0 .. n
           /\ \A j : k \notin stops /\ LastStop(stops, k - 1, j) => LastStop(stops, k, j)
<1> DEFINE side == {j \in stops : j <= k}
<1>1. 0 \in side /\ \A j \in side : j \in Nat /\ j \in 0 .. n
  OBVIOUS
<1>2. PICK j \in side : \A i \in side : i <= j
  <2>1. side \subseteq 0 .. n
    BY <1>1
  <2> HIDE DEF side
  <2> QED
    BY <1>1, <2>1, LastOfThem
<1>3. LastStop(stops, k, j)
  BY <1>2 DEF LastStop
<1>4. \A i, m : LastStop(stops, k, i) /\ LastStop(stops, k, m) => i = m
  BY DEF LastStop
<1>5. k \in stops => LastStop(stops, k, k)
  BY DEF LastStop
<1>6. k \notin stops => k - 1 \in 0 .. n
  OBVIOUS
<1>7. \A i : k \notin stops /\ LastStop(stops, k - 1, i) => LastStop(stops, k, i)
  BY DEF LastStop
<1> QED
  BY <1>3, <1>4, <1>5, <1>6, <1>7

\* A loop that goes backwards ends at that one.
LEMMA GoesBackwards ==
    ASSUME NEW n \in Nat, NEW stops, stops \subseteq Nat, 0 \in stops
    PROVE  /\ \E w : w = [k \in 0 .. n |-> IF k \in stops THEN k ELSE w[k - 1]]
           /\ \A w : w = [k \in 0 .. n |-> IF k \in stops THEN k ELSE w[k - 1]] =>
                \A k \in 0 .. n : LastStop(stops, k, w[k])
<1>1. \E w : w = [k \in 0 .. n |-> IF k \in stops THEN k ELSE w[k - 1]]
  <2> DEFINE w == [k \in 0 .. n |-> CHOOSE j : LastStop(stops, k, j)]
  <2>0. w = [k \in 0 .. n |-> w[k]]
    OBVIOUS
  <2>1. ASSUME NEW k \in 0 .. n PROVE LastStop(stops, k, w[k])
    BY LastStopIsOne
  <2> HIDE DEF w
  <2>2. ASSUME NEW k \in 0 .. n PROVE w[k] = IF k \in stops THEN k ELSE w[k - 1]
    <3>1. CASE k \in stops
      BY <2>1, <3>1, LastStopIsOne
    <3>2. CASE k \notin stops
      <4>1. k - 1 \in 0 .. n
        BY <3>2, LastStopIsOne
      <4>2. LastStop(stops, k - 1, w[k - 1])
        BY <2>1, <4>1
      <4>3. LastStop(stops, k, w[k - 1])
        BY <3>2, <4>2, LastStopIsOne
      <4>4. w[k] = w[k - 1]
        <5>1. \A i, j : LastStop(stops, k, i) /\ LastStop(stops, k, j) => i = j
          BY LastStopIsOne
        <5> QED
          BY <2>1, <4>3, <5>1, Zenon
      <4> QED
        BY <3>2, <4>4
    <3> QED
      BY <3>1, <3>2
  <2>3. w = [k \in 0 .. n |-> IF k \in stops THEN k ELSE w[k - 1]]
    BY <2>0, <2>2
  <2> QED
    BY <2>3, Zenon
<1>2. ASSUME NEW w, w = [k \in 0 .. n |-> IF k \in stops THEN k ELSE w[k - 1]]
      PROVE  \A k \in 0 .. n : LastStop(stops, k, w[k])
  <2>1. \A k \in 0 .. n : w[k] = IF k \in stops THEN k ELSE w[k - 1]
    BY <1>2
  <2> DEFINE bad == {k \in 0 .. n : ~LastStop(stops, k, w[k])}
  <2>2. SUFFICES ASSUME bad # {} PROVE FALSE
    OBVIOUS
  <2>3. PICK k \in bad : \A j \in bad : k <= j
    <3>1. bad \subseteq Nat
      OBVIOUS
    <3> HIDE DEF bad
    <3> QED
      BY <2>2, <3>1, LeastInstant, Zenon
  <2>4. k \in 0 .. n /\ ~LastStop(stops, k, w[k]) /\ k - 1 \notin bad
    BY <2>3
  <2>5. CASE k \in stops
    <3>1. w[k] = k
      BY <2>1, <2>4, <2>5
    <3> QED
      BY <2>4, <2>5, <3>1, LastStopIsOne
  <2>6. CASE k \notin stops
    <3>1. k - 1 \in 0 .. n /\ w[k] = w[k - 1]
      BY <2>1, <2>4, <2>6, LastStopIsOne
    <3>2. LastStop(stops, k - 1, w[k - 1])
      BY <2>4, <3>1
    <3>3. LastStop(stops, k, w[k - 1])
      <4>1. \A j : LastStop(stops, k - 1, j) => LastStop(stops, k, j)
        BY <2>4, <2>6, LastStopIsOne
      <4> QED
        BY <3>2, <4>1, Zenon
    <3> QED
      BY <2>4, <3>1, <3>3
  <2> QED
    BY <2>5, <2>6
<1> QED
  BY <1>1, <1>2, Zenon

\* What the playhead has marked is what it has crossed.
Drawn(night, head) ==
    /\ head.crossed \in 0 .. Len(night.marks)
    /\ DOMAIN head.past = 1 .. Len(night.marks)
    /\ \A i \in 1 .. Len(night.marks) : head.past[i] <=> i <= head.crossed

\* A night whose marks are in the order of their instants.
InTheirOrder(night) ==
    /\ Len(night.marks) \in Nat /\ DOMAIN night.marks = 1 .. Len(night.marks)
    /\ night.from \in Int /\ night.span \in Nat \ {0}
    /\ \A i \in DOMAIN night.marks : night.marks[i].ts \in Int
    /\ \A i, j \in DOMAIN night.marks : i < j => night.marks[i].ts <= night.marks[j].ts

\* The event of a mark has begun by that instant.
Begun(night, i, instant) == Grid * night.marks[i].ts <= instant

\* The first loop of moveTo crosses the marks up to the first that has not begun.
LEMMA MovesForwards ==
    ASSUME NEW night, InTheirOrder(night), NEW head, Drawn(night, head), NEW instant \in Int
    PROVE  LET to == Forwards(night, head, instant)
           IN  /\ Drawn(night, to) /\ head.crossed <= to.crossed
               /\ to.crossed = Len(night.marks) \/ ~Begun(night, to.crossed + 1, instant)
<1> DEFINE n == Len(night.marks)
           stops == {k \in 0 .. n : k = n \/ ~Begun(night, k + 1, instant)}
           Walk[k \in 0 .. n] ==
             IF k = n \/ Grid * night.marks[k + 1].ts > instant THEN k ELSE Walk[k + 1]
           to == Walk[head.crossed]
<1>1. n \in Nat /\ stops \subseteq Nat /\ n \in stops /\ head.crossed \in 0 .. n
  BY DEF InTheirOrder, Drawn
<1>2. ASSUME NEW k \in 0 .. n
      PROVE  k \in stops <=> k = n \/ Grid * night.marks[k + 1].ts > instant
  <2>1. k # n => night.marks[k + 1].ts \in Int
    BY <1>1 DEF InTheirOrder
  <2> QED
    BY <2>1 DEF Begun, Grid
<1> DEFINE Unrolled(w) == [k \in 0 .. n |-> IF k \in stops THEN k ELSE w[k + 1]]
<1>3. \A w : Unrolled(w) = [k \in 0 .. n |->
              IF k = n \/ Grid * night.marks[k + 1].ts > instant THEN k ELSE w[k + 1]]
  BY <1>2
<1>4. Forwards(night, head, instant) =
        [crossed |-> to, past |-> [i \in DOMAIN head.past |-> head.past[i] \/ i \in head.crossed + 1 .. to]]
  BY DEF Forwards
<1>5. NextStop(stops, head.crossed, to)
  <2>1. \E w : w = Unrolled(w)
    BY <1>1, GoesForwards
  <2>2. Walk = Unrolled(Walk)
    <3> HIDE DEF Unrolled
    <3> QED
      BY <1>3, <2>1, Zenon DEF Walk
  <2> HIDE DEF Walk, stops, n
  <2> QED
    BY <1>1, <2>2, GoesForwards
<1> HIDE DEF Walk, to
<1>6. /\ to \in 0 .. n /\ head.crossed <= to
      /\ to = n \/ ~Begun(night, to + 1, instant)
  BY <1>1, <1>5 DEF NextStop
<1>7. DOMAIN head.past = 1 .. n /\ \A i \in 1 .. n : head.past[i] <=> i <= head.crossed
  BY DEF Drawn
<1> HIDE DEF n, stops
<1>8. ASSUME NEW i \in 1 .. n
      PROVE  (head.past[i] \/ i \in head.crossed + 1 .. to) <=> i <= to
  <2>1. head.past[i] <=> i <= head.crossed
    BY <1>7
  <2> QED
    BY <1>1, <1>6, <2>1
<1>9. /\ Forwards(night, head, instant).crossed = to
      /\ DOMAIN Forwards(night, head, instant).past = 1 .. n
      /\ \A i \in 1 .. n : Forwards(night, head, instant).past[i] <=> i <= to
  <2>1. [i \in 1 .. n |-> head.past[i] \/ i \in head.crossed + 1 .. to] = [i \in 1 .. n |-> i <= to]
    BY <1>8
  <2>2. /\ Forwards(night, head, instant).crossed = to
        /\ Forwards(night, head, instant).past = [i \in 1 .. n |-> i <= to]
    BY <1>4, <1>7, <2>1
  <2> QED
    BY <2>2
<1> QED
  BY <1>6, <1>9 DEF Drawn, n

\* The second goes back over those that have not.
LEMMA MovesBackwards ==
    ASSUME NEW night, InTheirOrder(night), NEW head, Drawn(night, head), NEW instant \in Int
    PROVE  LET to == Backwards(night, head, instant)
           IN  /\ Drawn(night, to) /\ to.crossed <= head.crossed
               /\ to.crossed = 0 \/ Begun(night, to.crossed, instant)
               /\ \A i \in to.crossed + 1 .. head.crossed : ~Begun(night, i, instant)
<1> DEFINE n == Len(night.marks)
           stops == {k \in 0 .. n : k = 0 \/ Begun(night, k, instant)}
           Walk[k \in 0 .. n] ==
             IF k = 0 \/ Grid * night.marks[k].ts <= instant THEN k ELSE Walk[k - 1]
           to == Walk[head.crossed]
<1>1. n \in Nat /\ stops \subseteq Nat /\ 0 \in stops /\ head.crossed \in 0 .. n
  BY DEF InTheirOrder, Drawn
<1>2. ASSUME NEW k \in 0 .. n
      PROVE  k \in stops <=> k = 0 \/ Grid * night.marks[k].ts <= instant
  BY DEF Begun
<1> DEFINE Unrolled(w) == [k \in 0 .. n |-> IF k \in stops THEN k ELSE w[k - 1]]
<1>3. \A w : Unrolled(w) = [k \in 0 .. n |->
              IF k = 0 \/ Grid * night.marks[k].ts <= instant THEN k ELSE w[k - 1]]
  BY <1>2
<1>4. Backwards(night, head, instant) =
        [crossed |-> to,
         past |-> [i \in DOMAIN head.past |-> head.past[i] /\ i \notin to + 1 .. head.crossed]]
  BY DEF Backwards
<1>5. LastStop(stops, head.crossed, to)
  <2>1. \E w : w = Unrolled(w)
    BY <1>1, GoesBackwards
  <2>2. Walk = Unrolled(Walk)
    <3> HIDE DEF Unrolled
    <3> QED
      BY <1>3, <2>1, Zenon DEF Walk
  <2> HIDE DEF Walk, stops, n
  <2> QED
    BY <1>1, <2>2, GoesBackwards
<1> HIDE DEF Walk, to
<1>6. /\ to \in 0 .. n /\ to <= head.crossed
      /\ to = 0 \/ Begun(night, to, instant)
      /\ \A i \in to + 1 .. head.crossed : ~Begun(night, i, instant)
  BY <1>1, <1>5 DEF LastStop
<1>7. DOMAIN head.past = 1 .. n /\ \A i \in 1 .. n : head.past[i] <=> i <= head.crossed
  BY DEF Drawn
<1> HIDE DEF n, stops
<1>8. ASSUME NEW i \in 1 .. n
      PROVE  (head.past[i] /\ i \notin to + 1 .. head.crossed) <=> i <= to
  <2>1. head.past[i] <=> i <= head.crossed
    BY <1>7
  <2> QED
    BY <1>1, <1>6, <2>1
<1>9. /\ Backwards(night, head, instant).crossed = to
      /\ DOMAIN Backwards(night, head, instant).past = 1 .. n
      /\ \A i \in 1 .. n : Backwards(night, head, instant).past[i] <=> i <= to
  <2>1. [i \in 1 .. n |-> head.past[i] /\ i \notin to + 1 .. head.crossed] = [i \in 1 .. n |-> i <= to]
    BY <1>8
  <2>2. /\ Backwards(night, head, instant).crossed = to
        /\ Backwards(night, head, instant).past = [i \in 1 .. n |-> i <= to]
    BY <1>4, <1>7, <2>1
  <2> QED
    BY <2>2
<1> QED
  BY <1>6, <1>9 DEF Drawn, n

\* At rest the playhead has crossed nothing.
LEMMA DrawnAtRest ==
    ASSUME NEW night, InTheirOrder(night)
    PROVE  Drawn(night, AtRest(night))
<1> DEFINE n == Len(night.marks)
<1>1. n \in Nat /\ \A i \in 1 .. n : ~ (i <= 0)
  BY DEF InTheirOrder
<1> HIDE DEF n
<1> QED
  BY <1>1 DEF Drawn, AtRest, n

\* Wherever the playhead was, and however far it is moved, a mark is drawn as past
\* afterwards exactly when its event has begun by where the playhead is, though only
\* the marks it crosses are touched (Scrubber.tsx, moveTo).
THEOREM PastMeansItHasBegun ==
    ASSUME NEW night, InTheirOrder(night), NEW head, Drawn(night, head), NEW position \in Int
    PROVE  LET to == MoveTo(night, head, position)
           IN  /\ Drawn(night, to)
               /\ \A i \in DOMAIN night.marks :
                    to.past[i] <=> Grid * night.marks[i].ts <= InstantAt(night, position)
<1> DEFINE n == Len(night.marks)
           instant == InstantAt(night, position)
           there == Forwards(night, head, instant)
           to == Backwards(night, there, instant)
<1>1. instant \in Int
  <2>1. Clamp(position, 0, Grid) \in Int
    BY DEF Clamp, Grid
  <2> QED
    BY <2>1 DEF InstantAt, InTheirOrder, Grid
<1>2. MoveTo(night, head, position) = to
  BY DEF MoveTo
<1> HIDE DEF instant
<1>3. /\ Drawn(night, there)
      /\ there.crossed = n \/ ~Begun(night, there.crossed + 1, instant)
  BY <1>1, MovesForwards
<1> HIDE DEF there
<1>4. /\ Drawn(night, to) /\ to.crossed <= there.crossed
      /\ to.crossed = 0 \/ Begun(night, to.crossed, instant)
      /\ \A i \in to.crossed + 1 .. there.crossed : ~Begun(night, i, instant)
  BY <1>1, <1>3, MovesBackwards
<1> HIDE DEF to
<1>5. n \in Nat /\ there.crossed \in 0 .. n /\ to.crossed \in 0 .. n /\ DOMAIN night.marks = 1 .. n
  BY <1>3, <1>4 DEF Drawn, InTheirOrder
<1>6. \A i, j \in 1 .. n : i <= j /\ Begun(night, j, instant) => Begun(night, i, instant)
  <2>1. \A i, j \in 1 .. n : i < j => night.marks[i].ts <= night.marks[j].ts
    BY <1>5 DEF InTheirOrder
  <2>2. \A i \in 1 .. n : night.marks[i].ts \in Int
    BY <1>5 DEF InTheirOrder
  <2> HIDE DEF n
  <2> SUFFICES ASSUME NEW i \in 1 .. n, NEW j \in 1 .. n, i <= j, Begun(night, j, instant)
               PROVE  Begun(night, i, instant)
    OBVIOUS
  <2>3. night.marks[i].ts <= night.marks[j].ts
    BY <1>5, <2>1, <2>2
  <2> QED
    BY <1>1, <2>2, <2>3 DEF Begun, Grid
<1>7. ASSUME NEW i \in 1 .. n PROVE to.past[i] <=> Begun(night, i, instant)
  <2>1. to.past[i] <=> i <= to.crossed
    BY <1>4 DEF Drawn
  <2>2. i <= to.crossed => Begun(night, i, instant)
    BY <1>4, <1>5, <1>6
  <2>3. i > there.crossed => ~Begun(night, i, instant)
    <3> SUFFICES ASSUME i > there.crossed, Begun(night, i, instant) PROVE FALSE
      OBVIOUS
    <3>1. there.crossed + 1 \in 1 .. n /\ there.crossed + 1 <= i
      BY <1>5
    <3> QED
      BY <1>3, <1>5, <1>6, <3>1
  <2>4. i > to.crossed /\ i <= there.crossed => ~Begun(night, i, instant)
    BY <1>4, <1>5
  <2> QED
    BY <1>5, <2>1, <2>2, <2>3, <2>4
<1> QED
  BY <1>2, <1>4, <1>5, <1>7 DEF Begun, instant

\* The same of a playhead that starts at rest, after each of any number of moves to
\* any positions: that a move touches only what it crosses never shows.
THEOREM PastMeansBegunAfterAnyMoves ==
    ASSUME NEW night, InTheirOrder(night), NEW n \in Nat, NEW positions \in [1 .. n -> Int],
           NEW heads, heads[0] = AtRest(night),
           \A k \in 1 .. n : heads[k] = MoveTo(night, heads[k - 1], positions[k])
    PROVE  \A k \in 1 .. n : \A i \in DOMAIN night.marks :
             heads[k].past[i] <=> Grid * night.marks[i].ts <= InstantAt(night, positions[k])
<1> DEFINE wrong == {k \in 0 .. n : ~Drawn(night, heads[k])}
<1>1. ASSUME NEW k \in 1 .. n, Drawn(night, heads[k - 1])
      PROVE  /\ Drawn(night, heads[k])
             /\ \A i \in DOMAIN night.marks :
                  heads[k].past[i] <=> Grid * night.marks[i].ts <= InstantAt(night, positions[k])
  <2>1. positions[k] \in Int /\ heads[k] = MoveTo(night, heads[k - 1], positions[k])
    OBVIOUS
  <2> QED
    BY <1>1, <2>1, PastMeansItHasBegun
<1>2. Drawn(night, heads[0])
  BY DrawnAtRest
<1>3. wrong = {}
  <2> SUFFICES ASSUME wrong # {} PROVE FALSE
    OBVIOUS
  <2>1. wrong \subseteq Nat
    OBVIOUS
  <2>2. PICK k \in wrong : \A j \in wrong : k <= j
    <3> HIDE DEF wrong
    <3> QED
      BY <2>1, LeastInstant
  <2>3. k # 0 /\ k \in 1 .. n /\ k - 1 \in 0 .. n
    BY <1>2, <2>2
  <2>4. Drawn(night, heads[k - 1])
    BY <2>1, <2>2, <2>3
  <2> QED
    BY <1>1, <2>2, <2>3, <2>4
<1>4. ASSUME NEW k \in 1 .. n PROVE Drawn(night, heads[k - 1])
  <2>1. k - 1 \in 0 .. n
    OBVIOUS
  <2> QED
    BY <1>3, <2>1
<1> QED
  BY <1>1, <1>4

\* The position of an instant is where that instant was found, in a night of any
\* length (Scrubber.tsx, instantAt; timeline.ts).
THEOREM PositionsComeBack ==
    ASSUME NEW night, night.from \in Int, night.span \in Nat \ {0}, NEW position \in 0 .. Grid
    PROVE  PositionOf(night, InstantAt(night, position)) = position
<1> DEFINE span == night.span
           along == position * span
<1>1. position \in Nat /\ span \in Nat /\ span > 0 /\ along \in Nat
  BY DEF Grid
<1>2. InstantAt(night, position) - Grid * night.from = along
  <2>1. Clamp(position, 0, Grid) = position
    BY DEF Clamp, Grid
  <2> HIDE DEF along
  <2>2. InstantAt(night, position) = Grid * night.from + along
    BY <2>1 DEF InstantAt, along
  <2> QED
    BY <1>1, <2>2 DEF Grid
<1>3. along \div span = position
  BY <1>1
<1> HIDE DEF along
<1> QED
  BY <1>2, <1>3 DEF PositionOf, Clamp, Grid
=============================================================================
