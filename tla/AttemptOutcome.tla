--------------------------- MODULE AttemptOutcome ---------------------------
(***************************************************************************)
(* What the attempt directories of a job promise to a reader that only     *)
(* looks at one attempt at a time, whatever processes, crashes and retries *)
(* produced them (runtime/repair.py verify_publication is that reader).    *)
(*                                                                         *)
(*   open       no handoff yet                                             *)
(*   sealed     handoff.json is linked and its publisher is still at work  *)
(*   committed  verify_publication accepts the attempt                     *)
(*   torn       the publisher of the linked handoff is gone, uncommitted   *)
(*   failed     status.json says FAILED                                    *)
(*                                                                         *)
(* Only the publisher that linked the handoff can commit it: a torn        *)
(* attempt is never completed by a later retry, and a failed one never     *)
(* comes back.                                                             *)
(***************************************************************************)
CONSTANT Attempts
VARIABLE outcome

Outcomes == {"open", "sealed", "committed", "torn", "failed"}

Init == outcome = [a \in Attempts |-> "open"]

Becomes(a, from, to) ==
    /\ outcome[a] \in from
    /\ outcome' = [outcome EXCEPT ![a] = to]

Seal(a) == Becomes(a, {"open"}, "sealed")
Commit(a) == Becomes(a, {"sealed"}, "committed")
Abandon(a) == Becomes(a, {"sealed"}, "torn")
Fail(a) == Becomes(a, Outcomes \ {"failed", "sealed"}, "failed")

Next == \E a \in Attempts : Seal(a) \/ Commit(a) \/ Abandon(a) \/ Fail(a)

Spec == Init /\ [][Next]_outcome
=============================================================================
