--------------------------- MODULE LaneAllocation ---------------------------
(***************************************************************************)
(* review/teams.py, FairShareScheduler, as lane_allocation of              *)
(* jobs/job_inference_security_review/teams.py runs it: each lane's        *)
(* process computes, from the declared queue lengths alone, how many team  *)
(* packages the two lanes launch, and run_lane deals the active-claim      *)
(* limit out over them.  The share is the rational share / Den; floating   *)
(* point rounding is left out.                                             *)
(***************************************************************************)
EXTENDS Integers, FiniteSetsExt

CONSTANTS Den,       \* denominator of lead_share
          MaxTotal,  \* bound: budget_team_packages
          MaxQueue,  \* bound: packages of a lane
          MaxClaims  \* bound: rounds.max_active_claims

ASSUME AllocationAssumption ==
    /\ Den \in Nat \ {0}
    /\ {MaxTotal, MaxQueue, MaxClaims} \subseteq Nat

VARIABLES share,     \* lead_share * Den
          total,     \* budget_team_packages, or the claim limit
          queue,     \* declared packages of a lane
          consumed,  \* packages the loop has launched
          claims     \* rounds.max_active_claims

laneVars == <<share, total, queue, consumed, claims>>

Lanes == {"lead", "hunt"}
Other(l) == IF l = "lead" THEN "hunt" ELSE "lead"

(* self.shares, times Den *)
Share(l) == IF l = "lead" THEN share * total ELSE (Den - share) * total

Launched == consumed["lead"] + consumed["hunt"]

Waiting(l) == consumed[l] < queue[l]

LaneInit ==
    /\ share \in 0..Den
    /\ total \in 0..MaxTotal
    /\ queue \in [Lanes -> 0..MaxQueue]
    /\ claims \in 1..MaxClaims
    /\ consumed = [l \in Lanes |-> 0]

(* Mutant: a lane keeps its unused share when its queue is empty. *)
EligibleOwnShare(l) == Waiting(l) /\ consumed[l] * Den < Share(l)

(* Within its own share, or the other lane has nothing queued. *)
Eligible(l) == Waiting(l) /\ (consumed[l] * Den < Share(l) \/ ~Waiting(Other(l)))

(* The smaller consumed fraction of the share goes first, lead on ties; an *)
(* empty share has an infinite fraction.                                   *)
Before(l, k) ==
    CASE Share(l) = 0 -> Share(k) = 0 /\ l = "lead"
      [] Share(l) # 0 /\ Share(k) = 0 -> TRUE
      [] OTHER -> \/ consumed[l] * Share(k) < consumed[k] * Share(l)
                  \/ consumed[l] * Share(k) = consumed[k] * Share(l) /\ l = "lead"

(* Mutant: first come, first served. *)
ChosenLeadFirst(l) == Launched < total /\ Waiting(l) /\ (l = "hunt" => ~Waiting("lead"))

(* choose(): one decision of the loop. *)
Chosen(l) ==
    /\ Launched < total
    /\ Eligible(l)
    /\ Eligible(Other(l)) => Before(l, Other(l))

Launch(l) ==
    /\ Chosen(l)
    /\ consumed' = [consumed EXCEPT ![l] = @ + 1]
    /\ UNCHANGED <<share, total, queue, claims>>

(* run_lane: more packages than max_active_claims are allocated again, with *)
(* the claim limit as the total.                                            *)
OverClaims == (\A l \in Lanes : ~Chosen(l)) /\ Launched > claims

Reallocate ==
    /\ OverClaims
    /\ total' = claims
    /\ consumed' = [l \in Lanes |-> 0]
    /\ UNCHANGED <<share, queue, claims>>

LaneNext == Reallocate \/ \E l \in Lanes : Launch(l)

LaneSpec == LaneInit /\ [][LaneNext]_laneVars

Done == ~OverClaims /\ \A l \in Lanes : ~Chosen(l)

-----------------------------------------------------------------------------
(* Mutant: every lane deals the remainder from its own first package. *)
OffsetNone(l) == 0 * consumed[l]

(* run_lane: the active-claim limit of a launched package.  The lead lane's *)
(* packages come first in the order the remainder is dealt.                 *)
Offset(l) == IF l = "lead" THEN 0 ELSE consumed["lead"]

Limit(l, index) ==
    claims \div Launched + IF index + Offset(l) < claims % Launched THEN 1 ELSE 0

Dealt(l) == MapThenSumSet(LAMBDA index : Limit(l, index), 0..consumed[l] - 1)

-----------------------------------------------------------------------------
(* Types of the allocation; no lane launches more than it queued, and the    *)
(* two never exceed the job total.                                           *)
LaneTypeOK ==
    /\ share \in 0..Den
    /\ total \in Nat
    /\ queue \in [Lanes -> Nat]
    /\ claims \in Nat \ {0}
    /\ consumed \in [Lanes -> Nat]
    /\ \A l \in Lanes : consumed[l] <= queue[l]
    /\ Launched <= total

(* Work-conserving: the loop stops only when the budget or both queues are   *)
(* used up, whatever the share; neither lane can starve the other of budget. *)
WorkConserving ==
    Done => Launched = total \/ \A l \in Lanes : consumed[l] = queue[l]

(* Fairness of the split: a lane left with packages got its share, less than *)
(* one package short, although the other lane may have taken released share. *)
ShareHonoured ==
    Done => \A l \in Lanes : Waiting(l) => (consumed[l] + 1) * Den > Share(l)

(* While the other lane waits a lane never runs a whole package ahead of its *)
(* share: released share is taken only once it is released.                  *)
WithinShare ==
    \A l \in Lanes : Waiting(Other(l)) => consumed[l] * Den < Share(l) + Den

(* The two lanes' processes deal out exactly max_active_claims between them, *)
(* and every launched package may hold at least one claim.                   *)
ClaimsDealt ==
    Done /\ Launched > 0 =>
        /\ Dealt("lead") + Dealt("hunt") = claims
        /\ \A l \in Lanes : \A i \in 0..consumed[l] - 1 : Limit(l, i) >= 1
=============================================================================
