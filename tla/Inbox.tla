------------------------------- MODULE Inbox -------------------------------
(***************************************************************************)
(* What capture promises a person, with no device, network or server in    *)
(* sight: an idea that was captured is stored, in the end and once; one    *)
(* the server will never accept is refused, and only such a one.           *)
(*                                                                         *)
(* CaptureQueue implements this specification, liveness included.          *)
(***************************************************************************)
CONSTANTS Ideas, Acceptable

VARIABLE idea

Init == idea = [i \in Ideas |-> "unsaid"]

Becomes(i, from, to) ==
    /\ idea[i] = from
    /\ idea' = [idea EXCEPT ![i] = to]

Capture(i) == Becomes(i, "unsaid", "captured")
Store(i)   == i \in Acceptable /\ Becomes(i, "captured", "stored")
Refuse(i)  == i \notin Acceptable /\ Becomes(i, "captured", "refused")

Settle(i) == Store(i) \/ Refuse(i)

Next == \E i \in Ideas : Capture(i) \/ Settle(i)

SafeSpec == Init /\ [][Next]_idea

Spec == SafeSpec /\ \A i \in Ideas : WF_idea(Settle(i))
=============================================================================
