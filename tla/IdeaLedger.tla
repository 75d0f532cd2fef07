----------------------------- MODULE IdeaLedger -----------------------------
(***************************************************************************)
(* What the tables `runs` and `decisions` tell a person about an idea,     *)
(* with no process, lock, entry status or crash in sight: an idea has one  *)
(* run in flight at a time; a run is handed answers that were given about  *)
(* its own idea and that no run has consumed; it ends once; only a run     *)
(* that worked consumes an answer, and only one it was handed; an answer   *)
(* is given once and consumed once.                                        *)
(*                                                                         *)
(* NightLoop implements this specification with the same two tables.       *)
(***************************************************************************)
CONSTANTS Entries, Runs, Decisions, NoEntry, NoRun

VARIABLES run, decision

ledger == <<run, decision>>

Init ==
    /\ run = [r \in Runs |-> [entry |-> NoEntry, outcome |-> "none", used |-> {}]]
    /\ decision = [d \in Decisions |->
                     [entry |-> NoEntry, status |-> "unasked", consumedBy |-> NoRun]]

InFlight(e) == {r \in Runs : run[r].entry = e /\ run[r].outcome = "open"}

Waiting(e) ==
    {d \in Decisions : /\ decision[d].entry = e
                       /\ decision[d].status = "queued-for-tonight"
                       /\ decision[d].consumedBy = NoRun}

Start(r, e) ==
    /\ run[r].outcome = "none"
    /\ InFlight(e) = {}
    /\ run' = [run EXCEPT ![r] = [entry |-> e, outcome |-> "open", used |-> {}]]
    /\ UNCHANGED decision

HandAnswers(r) ==
    /\ run[r].outcome = "open"
    /\ run[r].used = {}
    /\ run' = [run EXCEPT ![r].used = Waiting(run[r].entry)]
    /\ UNCHANGED decision

End(r, outcome) ==
    /\ run[r].outcome = "open"
    /\ run' = [run EXCEPT ![r].outcome = outcome]
    /\ UNCHANGED decision

Ask(d, e) ==
    /\ decision[d].status = "unasked"
    /\ decision' = [decision EXCEPT ![d] =
                      [entry |-> e, status |-> "open", consumedBy |-> NoRun]]
    /\ UNCHANGED run

Answer(d, status) ==
    /\ decision[d].status = "open"
    /\ decision' = [decision EXCEPT ![d].status = status]
    /\ UNCHANGED run

Consume(d, r) ==
    /\ run[r].outcome = "worked"
    /\ d \in run[r].used
    /\ d \in Waiting(run[r].entry)
    /\ decision' = [decision EXCEPT ![d].consumedBy = r]
    /\ UNCHANGED run

Next ==
    \/ \E r \in Runs :
          \/ \E e \in Entries : Start(r, e)
          \/ HandAnswers(r)
          \/ \E o \in {"failed", "worked"} : End(r, o)
          \/ \E d \in Decisions : Consume(d, r)
    \/ \E d \in Decisions :
          \/ \E e \in Entries : Ask(d, e)
          \/ \E s \in {"queued-for-tonight", "settled"} : Answer(d, s)

Spec == Init /\ [][Next]_ledger
=============================================================================
