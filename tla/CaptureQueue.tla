---------------------------- MODULE CaptureQueue ----------------------------
(***************************************************************************)
(* An idea on its way from a phone to the entries table: the capture page  *)
(* (web/app/page.tsx), its offline queue in IndexedDB (web/lib/queue.ts)   *)
(* and the API's handler (api/routes/capture.py, Recorder.record_entry).   *)
(*                                                                         *)
(* A drain runs when the page opens, when the browser comes online and     *)
(* after each capture, and nothing keeps two from running at once.  Each   *)
(* reads the queue once and posts what it read, item by item; an `await`   *)
(* is where another drain comes between.  The handler serves each request  *)
(* on a thread of its own: the lookup and the insert are two statements.   *)
(*                                                                         *)
(* Closing the page ends its drains and not the requests they have sent.   *)
(* What is shown besides the count, and timezones, titles and policies,    *)
(* are left out.                                                           *)
(***************************************************************************)
EXTENDS Naturals, FiniteSets

CONSTANTS
    Ideas,        \* what a person may capture
    Acceptable,   \* the ideas the server accepts; it answers 4xx to the rest
    Drains,       \* drains that may run at once: a bound
    Posts,        \* requests that may be on their way at once: a bound
    NoDrain, NoIdea,
    MaxLosses,    \* how many requests or responses are lost
    MaxFaults,    \* how many statements of the API raise
    MaxCloses     \* how many times the page is closed

ASSUME QueueConstants ==
    /\ IsFiniteSet(Ideas)
    /\ Acceptable \subseteq Ideas
    /\ NoDrain \notin Drains
    /\ NoIdea \notin Ideas
    /\ MaxLosses \in Nat
    /\ MaxFaults \in Nat
    /\ MaxCloses \in Nat

VARIABLES
    captured,   \* history: the ideas put in the queue so far
    pending,    \* the object store `pending` on the device
    stored,     \* the entries table, by id
    page,       \* "open" or "closed"
    shown,      \* the count the page shows
    busy,       \* the drain the capture in progress waits for
    drain,      \* what each drain has in memory
    post,       \* requests on their way
    mishaps

vars == <<captured, pending, stored, page, shown, busy, drain, post, mishaps>>

Resting == [pc |-> "idle", items |-> {}, idea |-> NoIdea]
NoPost  == [pc |-> "none", idea |-> NoIdea, by |-> NoDrain, reply |-> "none"]

Init ==
    /\ captured = {}
    /\ pending = {}
    /\ stored = {}
    /\ page = "closed"
    /\ shown = 0
    /\ busy = NoDrain
    /\ drain = [w \in Drains |-> Resting]
    /\ post = [p \in Posts |-> NoPost]
    /\ mishaps = [loss |-> 0, fault |-> 0, close |-> 0]

-----------------------------------------------------------------------------
(* The page.                                                               *)

Begin(w, pc) ==
    /\ drain[w].pc = "idle"
    /\ drain' = [drain EXCEPT ![w] = [Resting EXCEPT !.pc = pc]]

\* Mounting the page shows the count and drains.
OpenPage(w) ==
    /\ page = "closed"
    /\ page' = "open"
    /\ shown' = Cardinality(pending)
    /\ Begin(w, "list")
    /\ UNCHANGED <<captured, pending, stored, busy, post, mishaps>>

\* The browser's `online` event.
ComeOnline(w) ==
    /\ page = "open"
    /\ Begin(w, "list")
    /\ UNCHANGED <<captured, pending, stored, page, shown, busy, post, mishaps>>

\* The form is submitted: `busy` refuses a second one, the entry is written to
\* the queue whole, and only then is anything sent.
Capture(w, i) ==
    /\ page = "open"
    /\ busy = NoDrain
    /\ i \notin captured
    /\ captured' = captured \cup {i}
    /\ pending' = pending \cup {i}
    /\ busy' = w
    /\ Begin(w, "refresh")
    /\ UNCHANGED <<stored, page, shown, post, mishaps>>

\* The first refreshCount of a capture.
RefreshCount(w) ==
    /\ drain[w].pc = "refresh"
    /\ shown' = Cardinality(pending)
    /\ drain' = [drain EXCEPT ![w].pc = "list"]
    /\ UNCHANGED <<captured, pending, stored, page, busy, post, mishaps>>

\* The page is closed, reloaded or killed.
ClosePage ==
    /\ page = "open"
    /\ mishaps.close < MaxCloses
    /\ mishaps' = [mishaps EXCEPT !.close = @ + 1]
    /\ page' = "closed"
    /\ busy' = NoDrain
    /\ drain' = [w \in Drains |-> Resting]
    /\ post' = [p \in Posts |-> [post[p] EXCEPT !.by = NoDrain]]
    /\ UNCHANGED <<captured, pending, stored, shown>>

-----------------------------------------------------------------------------
(* A drain.                                                                *)

List(w) ==
    /\ drain[w].pc = "list"
    /\ drain' = [drain EXCEPT ![w] =
                   [pc |-> "loop", items |-> pending, idea |-> NoIdea]]
    /\ UNCHANGED <<captured, pending, stored, page, shown, busy, post, mishaps>>

Send(w, p, i) ==
    /\ drain[w].pc = "loop"
    /\ i \in drain[w].items
    /\ post[p].pc = "none"
    /\ drain' = [drain EXCEPT ![w] =
                   [pc |-> "await", items |-> drain[w].items \ {i}, idea |-> i]]
    /\ post' = [post EXCEPT ![p] =
                   [pc |-> "sent", idea |-> i, by |-> w, reply |-> "none"]]
    /\ UNCHANGED <<captured, pending, stored, page, shown, busy, mishaps>>

\* Mutants: whatever was answered ends it; only a success does.
AnyAnswer(reply) == TRUE
SuccessOnly(reply) == reply = "ok"

\* Which answers take the item out of the queue: 2xx, and 4xx but 429.
Final(reply) == reply \in {"ok", "refused"}

\* The response arrives.  Nobody waits for one whose page was closed.
Receive(p) ==
    /\ post[p].pc = "replied"
    /\ post' = [post EXCEPT ![p] = NoPost]
    /\ drain' = IF post[p].by = NoDrain THEN drain
                ELSE [drain EXCEPT ![post[p].by].pc =
                        IF Final(post[p].reply) THEN "remove" ELSE "loop"]
    /\ UNCHANGED <<captured, pending, stored, page, shown, busy, mishaps>>

Remove(w) ==
    /\ drain[w].pc = "remove"
    /\ pending' = pending \ {drain[w].idea}
    /\ drain' = [drain EXCEPT ![w].pc = "loop"]
    /\ UNCHANGED <<captured, stored, page, shown, busy, post, mishaps>>

\* Mutant: the count is left as it was when the drain began.
CountAsItWas(w) == shown

CountAfter(w) == Cardinality(pending)

\* The loop is over, or a fetch failed and ended it (pc "count").
EndDrain(w) ==
    /\ \/ drain[w].pc = "loop" /\ drain[w].items = {}
       \/ drain[w].pc = "count"
    /\ shown' = CountAfter(w)
    /\ drain' = [drain EXCEPT ![w] = Resting]
    /\ busy' = IF busy = w THEN NoDrain ELSE busy
    /\ UNCHANGED <<captured, pending, stored, page, post, mishaps>>

-----------------------------------------------------------------------------
(* The handler.                                                            *)

Replies(p, reply) ==
    post' = [post EXCEPT ![p] = [pc |-> "replied", idea |-> post[p].idea,
                                 by |-> post[p].by, reply |-> reply]]

\* Mutant: a replay is a conflict.
ConflictOnReplay(i) == CASE i \notin Acceptable -> "refused"
                         [] i \in stored        -> "conflict"
                         [] OTHER               -> "none"

\* A replay is answered with the row there is; what can never be stored (the
\* schema of the body, an unknown policy, an id that disagrees with its
\* instant) with 422; anything else goes on to the insert.
AnswerAtOnce(i) == CASE i \notin Acceptable -> "refused"
                     [] i \in stored        -> "ok"
                     [] OTHER               -> "none"

LookUp(p) ==
    /\ post[p].pc = "sent"
    /\ LET reply == AnswerAtOnce(post[p].idea)
       IN  IF reply = "none" THEN post' = [post EXCEPT ![p].pc = "insert"]
                             ELSE Replies(p, reply)
    /\ UNCHANGED <<captured, pending, stored, page, shown, busy, drain, mishaps>>

Insert(p) ==
    /\ post[p].pc = "insert"
    /\ post[p].idea \notin stored
    /\ stored' = stored \cup {post[p].idea}
    /\ post' = [post EXCEPT ![p].pc = "event"]
    /\ UNCHANGED <<captured, pending, page, shown, busy, drain, mishaps>>

\* Another request has inserted it since the lookup: the primary key refuses,
\* IntegrityError is no ValueError, and the client is told 500.
InsertCollides(p) ==
    /\ post[p].pc = "insert"
    /\ post[p].idea \in stored
    /\ Replies(p, "error")
    /\ UNCHANGED <<captured, pending, stored, page, shown, busy, drain, mishaps>>

\* The capture's timeline event, and the answer.
RecordEvent(p) ==
    /\ post[p].pc = "event"
    /\ Replies(p, "ok")
    /\ UNCHANGED <<captured, pending, stored, page, shown, busy, drain, mishaps>>

-----------------------------------------------------------------------------
(* What goes wrong.                                                        *)

\* A statement raises (the database is locked by the night, say): 500.
HandlerFails(p) ==
    /\ post[p].pc \in {"sent", "insert", "event"}
    /\ mishaps.fault < MaxFaults
    /\ mishaps' = [mishaps EXCEPT !.fault = @ + 1]
    /\ Replies(p, "error")
    /\ UNCHANGED <<captured, pending, stored, page, shown, busy, drain>>

Lost ==
    /\ mishaps.loss < MaxLosses
    /\ mishaps' = [mishaps EXCEPT !.loss = @ + 1]

\* fetch rejects, and the drain's loop ends.
Rejected(p) ==
    drain' = IF post[p].by = NoDrain THEN drain
             ELSE [drain EXCEPT ![post[p].by].pc = "count"]

\* The device loses the network while the server works on.
Disconnect(p) ==
    /\ post[p].pc # "none"
    /\ post[p].by # NoDrain
    /\ Lost
    /\ Rejected(p)
    /\ post' = [post EXCEPT ![p].by = NoDrain]
    /\ UNCHANGED <<captured, pending, stored, page, shown, busy>>

\* The request never arrives, its response does not, or the API dies under it.
Vanish(p) ==
    /\ post[p].pc # "none"
    /\ Lost
    /\ Rejected(p)
    /\ post' = [post EXCEPT ![p] = NoPost]
    /\ UNCHANGED <<captured, pending, stored, page, shown, busy>>

-----------------------------------------------------------------------------

DrainStep(w) ==
    \/ RefreshCount(w) \/ List(w) \/ Remove(w) \/ EndDrain(w)
    \/ \E p \in Posts, i \in Ideas : Send(w, p, i)

PostStep(p) ==
    LookUp(p) \/ Insert(p) \/ InsertCollides(p) \/ RecordEvent(p) \/ Receive(p)

Resume == \E w \in Drains : OpenPage(w) \/ ComeOnline(w)

Mishap == ClosePage \/ \E p \in Posts : HandlerFails(p) \/ Disconnect(p) \/ Vanish(p)

Next ==
    \/ Resume
    \/ \E w \in Drains : DrainStep(w) \/ \E i \in Ideas : Capture(w, i)
    \/ \E p \in Posts : PostStep(p)
    \/ Mishap

Spec == Init /\ [][Next]_vars

\* A drain that runs goes on, a request is served or fails, and the page is
\* opened, or comes online, again and again: the queue has no timer of its
\* own.  Nobody is obliged to capture.
FairSpec ==
    /\ Spec
    /\ WF_vars(Resume)
    /\ \A w \in Drains : WF_vars(DrainStep(w))
    /\ \A p \in Posts : WF_vars(PostStep(p))

-----------------------------------------------------------------------------
(* What capture promises.                                                  *)

DrainMemory ==
    [pc : {"idle", "refresh", "list", "loop", "await", "remove", "count"},
     items : SUBSET Ideas, idea : Ideas \cup {NoIdea}]

PostMemory ==
    [pc : {"none", "sent", "insert", "event", "replied"},
     idea : Ideas \cup {NoIdea}, by : Drains \cup {NoDrain},
     reply : {"none", "ok", "refused", "error"}]

\* The device, the table and everything in between hold values of their types.
TypeOK ==
    /\ captured \subseteq Ideas
    /\ pending \subseteq Ideas
    /\ stored \subseteq Ideas
    /\ page \in {"open", "closed"}
    /\ shown \in Nat
    /\ busy \in Drains \cup {NoDrain}
    /\ drain \in [Drains -> DrainMemory]
    /\ post \in [Posts -> PostMemory]
    /\ mishaps \in [loss : Nat, fault : Nat, close : Nat]

\* An idea the server would accept is never on neither side: it leaves the
\* device only once the server holds it, whatever is lost, raised or closed
\* (queue.ts, drain: "both mean the server holds it").
NothingIsDropped == captured \cap Acceptable \subseteq pending \cup stored

\* When the page is at rest its count is that of the queue, though several
\* drains counted in the meantime (capture spec, "Entries awaiting sync").
CountIsHonest ==
    (page = "open" /\ \A w \in Drains : drain[w].pc = "idle")
        => shown = Cardinality(pending)

\* The queue, the network and the handler together are an implementation of
\* what a person is promised (module Inbox).
Promise == INSTANCE Inbox WITH
    idea <- [i \in Ideas |->
               IF i \in stored THEN "stored"
               ELSE IF i \in pending THEN "captured"
               ELSE IF i \in captured THEN "refused" ELSE "unsaid"]

KeepsThePromise == Promise!Spec

\* The same entry posted twice succeeds twice: "both requests succeed", and a
\* replay "MUST NOT return an error" (openspec/specs/capture/spec.md).
DuplicateSucceeds ==
    mishaps.fault = 0 =>
        \A p \in Posts : post[p].idea \in Acceptable => post[p].reply # "error"
=============================================================================
