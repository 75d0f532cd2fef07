------------------------- MODULE CaptureQueueProofs -------------------------
(***************************************************************************)
(* Theorems about CaptureQueue, for any finite set of ideas, any number of *)
(* drains and requests at once, and any number of mishaps: nothing the     *)
(* server would accept is dropped, the count a page at rest shows is the   *)
(* queue's, and every step is one of the Inbox.                            *)
(*                                                                         *)
(* The argument is about knowledge: a request knows whether its idea is    *)
(* stored or refused by the time it has a reply, and a drain removes only  *)
(* what the one request it waits for has told it.                          *)
(***************************************************************************)
EXTENDS CaptureQueue, FiniteSetTheorems, TLAPS

\* The server holds the idea, or will never accept it.
Settled(i) == i \in stored \/ i \notin Acceptable

\* What is stored or queued was captured, and what is stored was acceptable.
TablesAgree ==
    /\ stored \subseteq captured \cap Acceptable
    /\ pending \subseteq captured

\* What a request at each step of the handler says about its idea.
PostKnows(m) ==
    /\ m.pc # "none" => m.idea \in captured
    /\ m.pc \in {"insert", "event"} => m.idea \in Acceptable
    /\ m.pc = "event" => m.idea \in stored
    /\ m.reply = "ok" => m.idea \in stored
    /\ m.reply = "refused" => m.idea \notin Acceptable
    /\ m.by # NoDrain => /\ m.pc # "none"
                         /\ drain[m.by].pc = "await"
                         /\ drain[m.by].idea = m.idea

\* What a drain holds was captured, and what it is about to remove is settled.
DrainKnows(m) ==
    /\ m.items \subseteq captured
    /\ m.pc = "await" => m.idea \in captured
    /\ m.pc = "remove" => m.idea \in captured /\ Settled(m.idea)

\* A drain waits for one request at a time.
OnePostEach ==
    \A p, q \in Posts : post[p].by = post[q].by /\ post[p].by # NoDrain => p = q

QueueInv ==
    /\ TypeOK
    /\ TablesAgree
    /\ NothingIsDropped
    /\ \A p \in Posts : PostKnows(post[p])
    /\ \A w \in Drains : DrainKnows(drain[w])
    /\ OnePostEach
-----------------------------------------------------------------------------

\* The count that is shown is a number.
LEMMA CountIsANumber == ASSUME pending \subseteq Ideas PROVE Cardinality(pending) \in Nat
BY QueueConstants, FS_Subset, FS_CardinalityType

\* The initial state satisfies the invariant.
LEMMA QueueInit == Init => QueueInv
BY QueueConstants DEF Init, QueueInv, TypeOK, DrainMemory, PostMemory, TablesAgree, NothingIsDropped,
   PostKnows, DrainKnows, OnePostEach, NoPost, Resting

\* What the page does keeps the invariant.
LEMMA PageSteps ==
    ASSUME QueueInv, NEW w \in Drains,
           \/ OpenPage(w) \/ ComeOnline(w) \/ RefreshCount(w)
           \/ \E i \in Ideas : Capture(w, i)
    PROVE  QueueInv'
<1> USE QueueConstants, CountIsANumber
        DEF QueueInv, TypeOK, DrainMemory, PostMemory, TablesAgree, NothingIsDropped, PostKnows, DrainKnows,
            OnePostEach, Settled, Begin, Resting
<1>1. CASE OpenPage(w)
  BY <1>1 DEF OpenPage
<1>2. CASE ComeOnline(w)
  BY <1>2 DEF ComeOnline
<1>3. CASE RefreshCount(w)
  BY <1>3 DEF RefreshCount
<1>4. ASSUME NEW i \in Ideas, Capture(w, i) PROVE QueueInv'
  BY <1>4 DEF Capture
<1> QED
  BY <1>1, <1>2, <1>3, <1>4

\* Closing the page forgets the drains and leaves the requests on their way.
LEMMA CloseStep == ASSUME QueueInv, ClosePage PROVE QueueInv'
<1> USE QueueConstants DEF QueueInv, TypeOK, ClosePage
<1>1. ASSUME NEW p \in Posts
      PROVE  /\ post'[p] \in PostMemory
             /\ post'[p].pc = post[p].pc /\ post'[p].idea = post[p].idea
             /\ post'[p].by = NoDrain /\ post'[p].reply = post[p].reply
  <2>1. post'[p] = [post[p] EXCEPT !.by = NoDrain]
    OBVIOUS
  <2> QED
    BY <2>1 DEF PostMemory
<1>2. TypeOK'
  BY <1>1 DEF DrainMemory, Resting
<1>3. TablesAgree' /\ NothingIsDropped'
  BY DEF TablesAgree, NothingIsDropped
<1>4. \A p \in Posts : PostKnows(post[p])'
  BY <1>1 DEF PostKnows
<1>5. \A w \in Drains : DrainKnows(drain[w])'
  BY DEF DrainKnows, Resting
<1>6. OnePostEach'
  BY <1>1 DEF OnePostEach
<1> QED
  BY <1>2, <1>3, <1>4, <1>5, <1>6

\* What a drain does keeps the invariant.
LEMMA DrainSteps ==
    ASSUME QueueInv, NEW w \in Drains,
           \/ List(w) \/ Remove(w) \/ EndDrain(w)
           \/ \E p \in Posts, i \in Ideas : Send(w, p, i)
    PROVE  QueueInv'
<1> USE QueueConstants, CountIsANumber
        DEF QueueInv, TypeOK, DrainMemory, PostMemory, TablesAgree, NothingIsDropped, PostKnows, DrainKnows,
            OnePostEach, Settled
<1>1. CASE List(w)
  BY <1>1 DEF List
<1>2. CASE Remove(w)
  BY <1>2 DEF Remove
<1>3. CASE EndDrain(w)
  BY <1>3 DEF EndDrain, CountAfter, Resting
<1>4. ASSUME NEW p \in Posts, NEW i \in Ideas, Send(w, p, i) PROVE QueueInv'
  BY <1>4 DEF Send
<1> QED
  BY <1>1, <1>2, <1>3, <1>4

\* What the handler and the network do to a request keeps the invariant.
LEMMA PostSteps ==
    ASSUME QueueInv, NEW p \in Posts,
           PostStep(p) \/ HandlerFails(p) \/ Disconnect(p) \/ Vanish(p)
    PROVE  QueueInv'
<1> USE QueueConstants
        DEF QueueInv, TypeOK, DrainMemory, PostMemory, TablesAgree, NothingIsDropped, PostKnows, DrainKnows,
            OnePostEach, Settled, Replies, NoPost, Lost, Rejected
<1>1. CASE LookUp(p)
  BY <1>1 DEF LookUp, AnswerAtOnce
<1>2. CASE Insert(p)
  BY <1>2 DEF Insert
<1>3. CASE InsertCollides(p)
  BY <1>3 DEF InsertCollides
<1>4. CASE RecordEvent(p)
  BY <1>4 DEF RecordEvent
<1>5. CASE Receive(p)
  BY <1>5 DEF Receive, Final
<1>6. CASE HandlerFails(p)
  BY <1>6 DEF HandlerFails
<1>7. CASE Disconnect(p)
  BY <1>7 DEF Disconnect
<1>8. CASE Vanish(p)
  BY <1>8 DEF Vanish
<1> QED
  BY <1>1, <1>2, <1>3, <1>4, <1>5, <1>6, <1>7, <1>8 DEF PostStep

\* Every step of the queue keeps the invariant.
LEMMA QueueStep == QueueInv /\ [Next]_vars => QueueInv'
<1> SUFFICES ASSUME QueueInv, [Next]_vars PROVE QueueInv'
  OBVIOUS
<1>1. CASE Resume
  BY <1>1, PageSteps DEF Resume
<1>2. ASSUME NEW w \in Drains, DrainStep(w) \/ \E i \in Ideas : Capture(w, i)
      PROVE  QueueInv'
  BY <1>2, PageSteps, DrainSteps DEF DrainStep
<1>3. ASSUME NEW p \in Posts, PostStep(p) PROVE QueueInv'
  BY <1>3, PostSteps
<1>4. CASE ClosePage
  BY <1>4, CloseStep
<1>5. CASE \E p \in Posts : HandlerFails(p) \/ Disconnect(p) \/ Vanish(p)
  BY <1>5, PostSteps
<1>6. CASE UNCHANGED vars
  BY <1>6 DEF vars, QueueInv, TypeOK, TablesAgree, NothingIsDropped, PostKnows,
     DrainKnows, OnePostEach, Settled
<1> QED
  BY <1>1, <1>2, <1>3, <1>4, <1>5, <1>6 DEF Next, Mishap

\* The invariant holds in every reachable state.
LEMMA QueueInvariant == Spec => []QueueInv
BY QueueInit, QueueStep, PTL DEF Spec

\* The device, the table and everything in between hold values of their types.
THEOREM QueueTypes == Spec => []TypeOK
<1>1. QueueInv => TypeOK
  BY DEF QueueInv
<1> QED
  BY <1>1, QueueInvariant, PTL

\* An idea the server would accept leaves the device only once the server has
\* it, whatever is lost, raises or is closed.
THEOREM NothingLost == Spec => []NothingIsDropped
<1>1. QueueInv => NothingIsDropped
  BY DEF QueueInv
<1> QED
  BY <1>1, QueueInvariant, PTL

-----------------------------------------------------------------------------
(* The count the page shows.                                               *)

\* A closed page runs no drain; an open one at rest shows the queue's count.
CountInv ==
    /\ page = "closed" => \A w \in Drains : drain[w].pc = "idle"
    /\ CountIsHonest

\* The step leaves every drain that rests at rest, and every other one at work.
RestsAsBefore == \A w \in Drains : (drain'[w].pc = "idle") = (drain[w].pc = "idle")

\* A step that wakes nobody, sends nobody to rest and touches neither the queue
\* nor what is shown keeps the count honest.
LEMMA CountKept ==
    ASSUME CountInv, RestsAsBefore, UNCHANGED <<pending, page, shown>>
    PROVE  CountInv'
BY DEF CountInv, CountIsHonest, RestsAsBefore

\* A request that is answered or lost disturbs only a drain that waits for it.
LEMMA PostsLeaveRest ==
    ASSUME QueueInv, NEW p \in Posts,
           PostStep(p) \/ HandlerFails(p) \/ Disconnect(p) \/ Vanish(p)
    PROVE  RestsAsBefore /\ UNCHANGED <<pending, page, shown>>
<1>1. post[p].by # NoDrain => post[p].by \in Drains /\ drain[post[p].by].pc = "await"
  BY DEF QueueInv, PostKnows, TypeOK, PostMemory
<1>2. drain \in [Drains -> DrainMemory]
  BY DEF QueueInv, TypeOK
<1>3. CASE LookUp(p) \/ Insert(p) \/ InsertCollides(p) \/ RecordEvent(p) \/ HandlerFails(p)
  BY <1>3 DEF LookUp, Insert, InsertCollides, RecordEvent, HandlerFails, RestsAsBefore
<1>4. CASE Receive(p)
  BY <1>1, <1>2, <1>4 DEF Receive, RestsAsBefore, DrainMemory
<1>5. CASE Disconnect(p) \/ Vanish(p)
  BY <1>1, <1>2, <1>5 DEF Disconnect, Vanish, Rejected, RestsAsBefore, DrainMemory
<1> QED
  BY <1>3, <1>4, <1>5 DEF PostStep

\* What the page and its drains do keeps the count honest: whoever changes the
\* queue is at work, and is counted before it rests.
LEMMA DrainsCount ==
    ASSUME QueueInv, CountInv, NEW w \in Drains,
           \/ OpenPage(w) \/ ComeOnline(w) \/ DrainStep(w)
           \/ \E i \in Ideas : Capture(w, i)
    PROVE  CountInv'
<1> USE DEF CountInv, CountIsHonest
<1>1. drain \in [Drains -> DrainMemory]
  BY DEF QueueInv, TypeOK
<1>2. CASE OpenPage(w) \/ ComeOnline(w) \/ \E i \in Ideas : Capture(w, i)
  <2>1. drain'[w].pc # "idle" /\ page' = "open"
    BY <1>1, <1>2 DEF OpenPage, ComeOnline, Capture, Begin, Resting
  <2> QED
    BY <2>1
<1>3. CASE RefreshCount(w) \/ List(w) \/ Remove(w) \/ \E p \in Posts, i \in Ideas : Send(w, p, i)
  <2>1. drain[w].pc # "idle" /\ drain'[w].pc # "idle" /\ page' = page
    BY <1>1, <1>3 DEF RefreshCount, List, Remove, Send, DrainMemory
  <2> QED
    BY <2>1
<1>4. CASE EndDrain(w)
  <2>1. /\ drain[w].pc # "idle" /\ page' = page
        /\ shown' = Cardinality(pending) /\ pending' = pending
    BY <1>4 DEF EndDrain, CountAfter
  <2> QED
    BY <2>1
<1> QED
  BY <1>2, <1>3, <1>4 DEF DrainStep

\* Every step keeps the count honest.
LEMMA CountStep == QueueInv /\ CountInv /\ [Next]_vars => CountInv'
<1> SUFFICES ASSUME QueueInv, CountInv, [Next]_vars PROVE CountInv'
  OBVIOUS
<1>1. CASE Resume
  BY <1>1, DrainsCount DEF Resume
<1>2. ASSUME NEW w \in Drains, DrainStep(w) \/ \E i \in Ideas : Capture(w, i)
      PROVE  CountInv'
  BY <1>2, DrainsCount
<1>3. ASSUME NEW p \in Posts,
             PostStep(p) \/ HandlerFails(p) \/ Disconnect(p) \/ Vanish(p)
      PROVE  CountInv'
  BY <1>3, PostsLeaveRest, CountKept
<1>4. CASE ClosePage
  BY <1>4 DEF ClosePage, CountInv, CountIsHonest, Resting
<1>5. CASE UNCHANGED vars
  BY <1>5 DEF vars, CountInv, CountIsHonest
<1> QED
  BY <1>1, <1>2, <1>3, <1>4, <1>5 DEF Next, Mishap

\* However many drains ran at once, and whatever was lost or closed, a page that
\* has come to rest shows the number of entries that wait (page.tsx,
\* refreshCount).
THEOREM CountStaysHonest == Spec => []CountIsHonest
<1>1. Init => CountInv
  BY DEF Init, CountInv, CountIsHonest, Resting
<1>2. CountInv => CountIsHonest
  BY DEF CountInv
<1> QED
  BY <1>1, <1>2, CountStep, QueueInvariant, PTL DEF Spec

-----------------------------------------------------------------------------
(* The queue implements the inbox.                                         *)

\* The state of an idea, as the inbox has it.
StateOf(i) == IF i \in stored THEN "stored"
              ELSE IF i \in pending THEN "captured"
              ELSE IF i \in captured THEN "refused" ELSE "unsaid"

\* The initial state of the queue is the inbox's.
LEMMA InboxInit == Init => Promise!Init
BY DEF Init, Promise!Init

\* A step that moves one idea, as the inbox lets it, is a step of the inbox.
LEMMA OneIdeaMoves ==
    ASSUME NEW i \in Ideas,
           \A j \in Ideas \ {i} : StateOf(j)' = StateOf(j),
           \/ StateOf(i) = "unsaid" /\ StateOf(i)' = "captured"
           \/ i \in Acceptable /\ StateOf(i) = "captured" /\ StateOf(i)' = "stored"
           \/ i \notin Acceptable /\ StateOf(i) = "captured" /\ StateOf(i)' = "refused"
    PROVE  Promise!Next
BY DEF StateOf, Promise!Next, Promise!Capture, Promise!Settle, Promise!Store,
   Promise!Refuse, Promise!Becomes

\* Capturing, inserting and removing are steps of the inbox, or move nothing.
LEMMA InboxMoves ==
    ASSUME QueueInv,
           \/ \E w \in Drains : Remove(w) \/ \E i \in Ideas : Capture(w, i)
           \/ \E p \in Posts : Insert(p)
    PROVE  Promise!Next \/ \A i \in Ideas : StateOf(i)' = StateOf(i)
<1>1. ASSUME NEW w \in Drains, NEW i \in Ideas, Capture(w, i) PROVE Promise!Next
  BY <1>1, OneIdeaMoves DEF Capture, StateOf, QueueInv, TablesAgree
<1>2. ASSUME NEW w \in Drains, Remove(w)
      PROVE  Promise!Next \/ \A i \in Ideas : StateOf(i)' = StateOf(i)
  <2> DEFINE i == drain[w].idea
  <2>1. i \in captured /\ Settled(i) /\ i \in Ideas
    BY <1>2 DEF Remove, QueueInv, DrainKnows, TypeOK
  <2>2. /\ captured' = captured /\ stored' = stored
        /\ pending' = pending \ {i}
    BY <1>2 DEF Remove
  <2>3. CASE i \in stored \/ i \notin pending
    BY <2>2, <2>3 DEF StateOf
  <2>4. CASE i \notin stored /\ i \in pending
    BY <2>1, <2>2, <2>4, OneIdeaMoves DEF StateOf, Settled
  <2> QED
    BY <2>3, <2>4
<1>3. ASSUME NEW p \in Posts, Insert(p)
      PROVE  Promise!Next \/ \A i \in Ideas : StateOf(i)' = StateOf(i)
  <2> DEFINE i == post[p].idea
  <2>1. i \in captured \cap Acceptable /\ i \notin stored /\ i \in Ideas
    BY <1>3 DEF Insert, QueueInv, PostKnows, TypeOK
  <2>2. i \in pending
    BY <2>1 DEF QueueInv, NothingIsDropped
  <2>3. /\ captured' = captured /\ pending' = pending
        /\ stored' = stored \cup {i}
    BY <1>3 DEF Insert
  <2> QED
    BY <2>1, <2>2, <2>3, OneIdeaMoves DEF StateOf
<1> QED
  BY <1>1, <1>2, <1>3

\* Every other step leaves the device's store and the table as they are.
LEMMA OthersMoveNothing ==
    ASSUME [Next]_vars,
           \A w \in Drains : ~Remove(w) /\ \A i \in Ideas : ~Capture(w, i),
           \A p \in Posts : ~Insert(p)
    PROVE  UNCHANGED <<captured, pending, stored>>
BY DEF Next, vars, Resume, OpenPage, ComeOnline, DrainStep, RefreshCount, List,
   EndDrain, Send, PostStep, LookUp, InsertCollides, RecordEvent, Receive,
   Mishap, ClosePage, HandlerFails, Disconnect, Vanish

\* Every step of the queue is a step of the inbox, or moves nothing there.
LEMMA InboxStep == QueueInv /\ [Next]_vars =>
    [Promise!Next]_([i \in Ideas |-> StateOf(i)])
<1> SUFFICES ASSUME QueueInv, [Next]_vars
             PROVE  Promise!Next \/ \A i \in Ideas : StateOf(i)' = StateOf(i)
  OBVIOUS
<1>1. CASE UNCHANGED <<captured, pending, stored>>
  BY <1>1 DEF StateOf
<1> QED
  BY <1>1, InboxMoves, OthersMoveNothing

\* The queue, the network and the handler implement the safety of the inbox:
\* an idea is stored once and only if acceptable, and refused only if not.
THEOREM ImplementsTheInbox == Spec => Promise!SafeSpec
<1>1. QueueInv /\ [Next]_vars =>
        [Promise!Next]_([i \in Ideas |->
               IF i \in stored THEN "stored"
               ELSE IF i \in pending THEN "captured"
               ELSE IF i \in captured THEN "refused" ELSE "unsaid"])
  BY InboxStep DEF StateOf
<1> QED
  BY <1>1, InboxInit, QueueInvariant, PTL DEF Spec, Promise!SafeSpec
=============================================================================
