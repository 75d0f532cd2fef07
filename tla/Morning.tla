------------------------------- MODULE Morning ------------------------------
(***************************************************************************)
(* The morning: the briefing the API assembles (morning/briefing.py) and   *)
(* the page that interviews a person over it (web/app/morning/page.tsx),   *)
(* open in several places at once.  The briefing is read statement by      *)
(* statement while a night may be writing, and a request or its response   *)
(* may be lost.                                                            *)
(*                                                                         *)
(* A text is named by the question it was typed under.  The outcome a      *)
(* person picks is part of the answer: all four are acted on alike.        *)
(***************************************************************************)
EXTENDS Naturals, Sequences, FiniteSets, SequencesExt

CONSTANTS
    Runs, Questions, Pages,
    Empty,       \* no text
    Open,        \* no answer
    MaxTime,     \* bound on the clock, in milliseconds
    MaxLosses    \* bound on what is lost: requests, responses, a page's interest

ASSUME MorningConstants ==
    /\ {Empty, Open} \cap Questions = {} /\ Empty # Open
    /\ MaxTime \in Nat \ {0} /\ MaxLosses \in Nat

Texts == Questions \cup {Empty}

VARIABLES
    now,       \* the clock
    run,       \* the runs and their interviews
    decision,  \* the questions, with what was answered
    asked,     \* the questions in the order they were raised
    page,      \* the open pages; "left": runs there were, not in the briefing
    request,   \* each page's answer on its way, there and back
    adrift,    \* answers on their way whose page was loaded again
    losses

vars == <<now, run, decision, asked, page, request, adrift, losses>>

Unanswered == [text |-> Open, at |-> 0]

NoRequest == [at |-> "none"]

Closed == [at |-> "closed", since |-> 0, left |-> {}, nights |-> {}, questions |-> <<>>,
           error |-> FALSE, index |-> 1, draft |-> Empty, sent |-> <<>>]

Init ==
    /\ now = 1
    /\ run = [r \in Runs |-> [at |-> "never", started |-> 0, failed |-> FALSE]]
    /\ decision = [q \in Questions |-> Unanswered]
    /\ asked = <<>>
    /\ page = [p \in Pages |-> Closed]
    /\ request = [p \in Pages |-> NoRequest]
    /\ adrift = {} /\ losses = 0

-----------------------------------------------------------------------------
(* The night.                                                              *)

Tick ==
    /\ now < MaxTime
    /\ now' = now + 1
    /\ UNCHANGED <<run, decision, asked, page, request, adrift, losses>>

Working == {r \in Runs : run[r].at \in {"running", "interview"}}

StartRun(r) ==
    /\ run[r].at = "never" /\ Working = {}
    /\ run' = [run EXCEPT ![r].at = "running", ![r].started = now]
    /\ UNCHANGED <<now, decision, asked, page, request, adrift, losses>>

EndRun(r) ==
    /\ run[r].at = "running"
    /\ run' = [run EXCEPT ![r].at = "interview"]
    /\ UNCHANGED <<now, decision, asked, page, request, adrift, losses>>

\* One insert per question.
RaiseQuestion(r, q) ==
    /\ run[r].at = "interview"
    /\ q \notin ToSet(asked)
    /\ asked' = Append(asked, q)
    /\ UNCHANGED <<now, run, decision, page, request, adrift, losses>>

\* The interviewer returns, or raises and its failure is recorded; an insert
\* may have gone through already.
InterviewDone(r, failed) ==
    /\ run[r].at = "interview"
    /\ run' = [run EXCEPT ![r].at = "done", ![r].failed = failed]
    /\ UNCHANGED <<now, decision, asked, page, request, adrift, losses>>

-----------------------------------------------------------------------------
(* Reading the briefing.                                                   *)

Started == {r \in Runs : run[r].at # "never"}

Answered == {q \in Questions : decision[q].text # Open}

MaxOf(times) == CHOOSE t \in times \cup {0} : \A u \in times : t >= u

\* Mutant: the delta a person reads is since the last night.
LastNight == MaxOf({run[r].started : r \in {s \in Runs : run[s].at = "done"}})

\* The delta a person reads is since somebody acted.
Boundary == MaxOf({decision[q].at : q \in Answered})

\* A page that loads, or loads again: whatever it held is gone, and of an answer
\* on its way it will never hear.
Load(p) ==
    /\ page[p].at \in {"closed", "ready"}
    /\ request[p] # NoRequest => losses < MaxLosses
    /\ page' = [page EXCEPT ![p] = [Closed EXCEPT !.at = "boundary", !.left = Started]]
    /\ request' = [request EXCEPT ![p] = NoRequest]
    /\ adrift' = adrift \cup {rq \in {request[p]} : rq.at = "there"}
    /\ losses' = IF request[p] = NoRequest THEN losses ELSE losses + 1
    /\ UNCHANGED <<now, run, decision, asked>>

Reading(p, from, to) ==
    /\ page[p].at = from
    /\ UNCHANGED <<now, run, decision, asked, request, adrift, losses>>

ReadBoundary(p) ==
    /\ Reading(p, "boundary", "runs")
    /\ page' = [page EXCEPT ![p].at = "runs", ![p].since = Boundary]

ReadRuns(p) ==
    /\ Reading(p, "runs", "questions")
    /\ LET shown == {r \in Started : run[r].started > page[p].since}
       IN page' = [page EXCEPT ![p].at = "questions", ![p].since = 0,
                               ![p].nights = shown, ![p].left = @ \ shown]

\* One question was raised before the other.
Earlier(q, r) == \E j, k \in DOMAIN asked : j < k /\ asked[j] = q /\ asked[k] = r

\* The sequences that list the questions `open` in the order they were raised:
\* there is one.
InOrder(open) ==
    {s \in [1 .. Cardinality(open) -> open] :
        \A j, k \in DOMAIN s : j < k => Earlier(s[j], s[k])}

ReadQuestions(p) ==
    /\ Reading(p, "questions", "error")
    /\ \E s \in InOrder(ToSet(asked) \ Answered) :
         page' = [page EXCEPT ![p].at = "error", ![p].questions = s]

\* A failed interview of any night in the briefing.
InterviewerError(nights) == \E r \in nights : run[r].failed

\* The nights are shown and not looked at again: they are let go.
ReadError(p) ==
    /\ Reading(p, "error", "ready")
    /\ page' = [page EXCEPT ![p].at = "ready", ![p].nights = {},
                            ![p].error = InterviewerError(page[p].nights)]

LoadFails(p) ==
    /\ page[p].at \in {"boundary", "runs", "questions", "error"} /\ losses < MaxLosses
    /\ page' = [page EXCEPT ![p] = Closed]
    /\ losses' = losses + 1
    /\ UNCHANGED <<now, run, decision, asked, request, adrift>>

-----------------------------------------------------------------------------
(* The interview.                                                          *)

Current(p) == page[p].questions[page[p].index]

\* With an interviewer error the page shows its line in place of the questions.
Asking(p) ==
    /\ page[p].at = "ready" /\ ~page[p].error
    /\ page[p].index <= Len(page[p].questions)

\* The text box stays open while an answer is on its way.
Type(p) ==
    /\ Asking(p)
    /\ page[p].draft = Empty
    /\ page' = [page EXCEPT ![p].draft = Current(p)]
    /\ UNCHANGED <<now, run, decision, asked, request, adrift, losses>>

Dispose(p) ==
    /\ Asking(p) /\ request[p].at = "none"
    /\ request' = [request EXCEPT ![p] = [at |-> "there", question |-> Current(p),
                                          text |-> page[p].draft]]
    /\ UNCHANGED <<now, run, decision, asked, page, adrift, losses>>

\* Stored once; the same answer again is the answer it was; another is refused.
Reply(q, text) == IF decision[q].text \in {Open, text} THEN "recorded" ELSE "refused"

\* The decisions once a request is handled: the first answer is kept.
Stored(rq) ==
    IF rq.question \in Answered THEN decision
    ELSE [decision EXCEPT ![rq.question] = [text |-> rq.text, at |-> now]]

Handle(p) ==
    /\ request[p].at = "there"
    /\ decision' = Stored(request[p])
    /\ request' = [request EXCEPT ![p].at = Reply(request[p].question, request[p].text)]
    /\ UNCHANGED <<now, run, asked, page, adrift, losses>>

\* An answer nobody waits for is stored all the same.
HandleAdrift(rq) ==
    /\ decision' = Stored(rq)
    /\ adrift' = adrift \ {rq}
    /\ UNCHANGED <<now, run, asked, page, request, losses>>

Lose(p) ==
    /\ request[p].at \in {"there", "recorded", "refused"} /\ losses < MaxLosses
    /\ request' = [request EXCEPT ![p].at = "lost"]
    /\ losses' = losses + 1
    /\ UNCHANGED <<now, run, decision, asked, page, adrift>>

\* Mutant: the next question, with what was typed under this one.
AdvancedWithItsDraft(q) == [q EXCEPT !.index = @ + 1]

Advanced(q) == [q EXCEPT !.index = @ + 1, !.draft = Empty]

\* Only a recorded answer advances.
Recorded(p) ==
    /\ request[p].at = "recorded"
    /\ page' = [page EXCEPT ![p] = Advanced([page[p] EXCEPT !.sent = Append(@, request[p].text)])]
    /\ request' = [request EXCEPT ![p] = NoRequest]
    /\ UNCHANGED <<now, run, decision, asked, adrift, losses>>

\* The page says it was not recorded, and keeps what was typed.
Unrecorded(p) ==
    /\ request[p].at \in {"refused", "lost"}
    /\ request' = [request EXCEPT ![p] = NoRequest]
    /\ UNCHANGED <<now, run, decision, asked, page, adrift, losses>>

Next ==
    \/ Tick
    \/ \E r \in Runs : \/ StartRun(r) \/ EndRun(r)
                       \/ \E q \in Questions : RaiseQuestion(r, q)
                       \/ \E failed \in BOOLEAN : InterviewDone(r, failed)
    \/ \E p \in Pages : \/ Load(p) \/ ReadBoundary(p) \/ ReadRuns(p) \/ ReadQuestions(p)
                        \/ ReadError(p) \/ LoadFails(p)
                        \/ Type(p) \/ Handle(p) \/ Lose(p) \/ Recorded(p) \/ Unrecorded(p)
                        \/ Dispose(p)
    \/ \E rq \in adrift : HandleAdrift(rq)

Spec == Init /\ [][Next]_vars

-----------------------------------------------------------------------------

RunMemory ==
    [at : {"never", "running", "interview", "done"}, started : Nat, failed : BOOLEAN]

PageMemory ==
    [at : {"closed", "boundary", "runs", "questions", "error", "ready"}, since : Nat,
     left : SUBSET Runs, nights : SUBSET Runs, questions : Seq(Questions), error : BOOLEAN,
     index : Nat, draft : Texts, sent : Seq(Texts)]

RequestMemory ==
    [at : {"there", "recorded", "refused", "lost"}, question : Questions, text : Texts]

\* The clock, the tables and every page hold values of their types.
TypeOK ==
    /\ now \in 1 .. MaxTime /\ losses \in 0 .. MaxLosses
    /\ run \in [Runs -> RunMemory]
    /\ decision \in [Questions -> [text : Texts \cup {Open}, at : Nat]]
    /\ asked \in Seq(Questions)
    /\ page \in [Pages -> PageMemory]
    /\ request \in [Pages -> {NoRequest} \cup RequestMemory]
    /\ adrift \subseteq RequestMemory

\* What is recorded for a question was typed under it; and what a page has gone
\* past is recorded as that page sent it, whatever was lost, sent again, arrives
\* after its page was loaded again, or is answered from another page (page.tsx,
\* dispose: "Advance only on a recorded answer").
AnswersAreTheirOwn ==
    /\ \A q \in Questions : decision[q].text \in {q, Empty, Open}
    /\ \A p \in Pages : \A k \in 1 .. Len(page[p].sent) :
         decision[page[p].questions[k]].text = page[p].sent[k]

\* A briefing holds every run there was when it was asked for, except those
\* somebody has acted after: reading one, and being away for nights, loses no
\* night (briefing.py, "The delta boundary").
NoNightIsDropped ==
    \A p \in Pages : page[p].at = "ready" =>
        \A r \in page[p].left :
            \E q \in Answered : decision[q].at >= run[r].started

\* "The interviewer could not run, so there are no questions this morning"
\* (page.tsx:162-169) is said only of a briefing without questions.  It does not
\* hold (README, section 6).
SaysNoneOnlyWhenNone ==
    \A p \in Pages : page[p].at = "ready" /\ page[p].error => page[p].questions = <<>>
=============================================================================
