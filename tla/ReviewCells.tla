---------------------------- MODULE ReviewCells ----------------------------
(***************************************************************************)
(* The workers that spend the budget of JobBudget: run_team admits a       *)
(* package and takes a team slot, each of its cells runs in a thread       *)
(* (_run, reuse_or_run, run_cell), every model call goes through           *)
(* Execution.call with _Guard as its accounting, and the cell's receipt,   *)
(* its query charge and its pause follow.  A package's process may die     *)
(* anywhere; a later attempt runs the package again under new owners.      *)
(*                                                                         *)
(* The cells of a package run in any order (the code runs red, blue and    *)
(* verifier cells in batches, round after round); a request is one token   *)
(* maximum, Cap; prompts, validation and retrieval are their outcomes.     *)
(***************************************************************************)
EXTENDS JobBudget

CONSTANTS Cells,        \* review cells (fingerprints)
          Packages,     \* team packages
          PackageOf,    \* the package of a cell
          Settings,     \* the configurations considered, see `setting`
          Cap,          \* request.max_input_tokens, max_output_tokens
          MaxRuns       \* bound: invocations of one cell

ASSUME CellsAssumption ==
    /\ IsFiniteSet(Cells)
    /\ Owners = Cells \X (1..MaxRuns)
    /\ PackageOf \in [Cells -> Packages]
    /\ MaxRuns \in Nat \ {0}
    /\ Cap \in Caps
    /\ FALSE \in Replays
    /\ Settings \subseteq [slots : Nat \ {0}, turns : Nat \ {0}, attempts : Nat \ {0},
                            firstError : BOOLEAN, faults : BOOLEAN, reruns : Nat, clock : Nat]

VARIABLES setting,   \* the configuration of the run, which never changes
          team,      \* where run_team is, for each package
          allow,     \* ctx.allow_new_calls of the package's team
          stopping,  \* first-error execution safety has stopped the run
          pc,        \* where the cell's thread is
          run,       \* which invocation of the cell, and so which owner
          turn,      \* the turn of the attempt, 1..Turns
          attempt,   \* retry_index + 1
          got,       \* how the last call ended
          usage,     \* the usage Execution.call will settle
          asked,     \* retrieval queries of this invocation
          receipt,   \* the cell's last SUCCEEDED receipt, and if it revalidates
          flight,    \* the owner's open call was handed to the provider
          spent      \* history: the owner's spend up to the maxima it asked for,
                     \* and beyond them what was reported and settled

cellVars == <<setting, team, allow, stopping, pc, run, turn, attempt, got, usage, asked,
              receipt, flight, spent>>
vars == <<budgetVars, cellVars>>
loop == <<run, turn, attempt>>

Slots == setting.slots            \* settings.teams.review_teams
Turns == setting.turns            \* capability.max_turns
Attempts == setting.attempts      \* retry.max_attempts
FirstError == setting.firstError  \* execution_safety.active()
Faults == setting.faults          \* processes die, settlements fail, operators interrupt
MaxReruns == setting.reruns       \* bound: packages run again

Over == {"ended", "notLaunched", "raised"}
Owner(c) == <<c, run[c]>>
CellsOf(p) == {c \in Cells : PackageOf[c] = p}
Retries == IF FirstError THEN 1 ELSE Attempts
LastCall(o) == <<o, Len(ledger.calls[o])>>

Init ==
    /\ setting \in Settings
    /\ BudgetInit
    /\ team = [p \in Packages |-> "queued"]
    /\ allow = [p \in Packages |-> FALSE]
    /\ stopping = FALSE
    /\ pc = [c \in Cells |-> "queued"]
    /\ run = [c \in Cells |-> 1]
    /\ turn = [c \in Cells |-> 1]
    /\ attempt = [c \in Cells |-> 1]
    /\ got = [c \in Cells |-> "none"]
    /\ usage = [c \in Cells |-> Missing]
    /\ asked = [c \in Cells |-> 0]
    /\ receipt = [c \in Cells |-> "none"]
    /\ flight = [o \in Owners |-> FALSE]
    /\ spent = [o \in Owners |-> 0]

Goto(c, label) == pc' = [pc EXCEPT ![c] = label]

-----------------------------------------------------------------------------
(* run_team *)

(* budget.reserve(lane): without a package the team may only reuse receipts. *)
AdmitTeam(p) ==
    /\ team[p] = "queued"
    /\ allow' = [allow EXCEPT ![p] = PackageAdmitted]
    /\ IF PackageAdmitted THEN ReservePackage ELSE Snapshot
    /\ team' = [team EXCEPT ![p] = "waiting"]
    /\ UNCHANGED <<setting, stopping, pc, loop, got, usage, asked, receipt,
                   flight, spent>>

(* semaphore.acquire: one of the team slots, each a kernel file lock. *)
AcquireTeam(p) ==
    /\ team[p] = "waiting"
    /\ Cardinality({q \in Packages : team[q] = "running"}) < Slots
    /\ team' = [team EXCEPT ![p] = "running"]
    /\ pc' = [c \in Cells |-> IF c \in CellsOf(p) THEN "start" ELSE pc[c]]
    /\ UNCHANGED <<setting, budgetVars, allow, stopping, loop, got, usage,
                   asked, receipt, flight, spent>>

(* TeamUnavailable: no slot within the wait bound. *)
SkipTeam(p) ==
    /\ team[p] = "waiting"
    /\ team' = [team EXCEPT ![p] = "done"]
    /\ pc' = [c \in Cells |-> IF c \in CellsOf(p) THEN "notLaunched" ELSE pc[c]]
    /\ UNCHANGED <<setting, budgetVars, allow, stopping, loop, got, usage,
                   asked, receipt, flight, spent>>

(* Mutant: the slot is given back only by cells that ran. *)
EndTeamRan(p) ==
    /\ team[p] = "running"
    /\ \A c \in CellsOf(p) : pc[c] \in {"ended", "raised"}
    /\ team' = [team EXCEPT ![p] = IF \E c \in CellsOf(p) : pc[c] = "raised"
                                   THEN "raised" ELSE "done"]
    /\ UNCHANGED <<setting, budgetVars, allow, stopping, pc, loop, got, usage,
                   asked, receipt, flight, spent>>

(* The pool has joined its threads and the slot is released. *)
EndTeam(p) ==
    /\ team[p] = "running"
    /\ \A c \in CellsOf(p) : pc[c] \in Over
    /\ team' = [team EXCEPT ![p] = IF \E c \in CellsOf(p) : pc[c] = "raised"
                                   THEN "raised" ELSE "done"]
    /\ UNCHANGED <<setting, budgetVars, allow, stopping, pc, loop, got, usage,
                   asked, receipt, flight, spent>>

-----------------------------------------------------------------------------
(* reuse_or_run, run_cell *)

(* A succeeded receipt with this fingerprint is reused if it revalidates. *)
ReuseReceipt(c) ==
    /\ pc[c] = "start"
    /\ receipt[c] = "valid"
    /\ Goto(c, "ended")
    /\ UNCHANGED <<setting, budgetVars, team, allow, stopping, loop, got, usage,
                   asked, receipt, flight, spent>>

(* Mutant: a cell is launched whatever receipts it has. *)
LaunchCellAgain(c) ==
    /\ pc[c] = "start"
    /\ ~stopping
    /\ Goto(c, IF allow[PackageOf[c]] /\ ~UsageExhausted(Opened, now)
               THEN "call" ELSE "notLaunched")
    /\ Snapshot
    /\ UNCHANGED <<setting, team, allow, stopping, loop, got, usage, asked,
                   receipt, flight, spent>>

(* No receipt, or one of another version or with a result that is refused  *)
(* now.  check_running, then launch_allowed: the team was admitted and no  *)
(* usage ceiling is reached.                                               *)
LaunchCell(c) ==
    /\ pc[c] = "start"
    /\ receipt[c] # "valid"
    /\ ~stopping
    /\ Goto(c, IF allow[PackageOf[c]] /\ ~UsageExhausted(Opened, now)
               THEN "call" ELSE "notLaunched")
    /\ Snapshot
    /\ UNCHANGED <<setting, team, allow, stopping, loop, got, usage, asked,
                   receipt, flight, spent>>

(* check_running raises wherever the code calls it before a reservation. *)
Cancel(c) ==
    /\ pc[c] \in {"start", "call"}
    /\ pc[c] = "start" => receipt[c] # "valid"
    /\ stopping
    /\ Goto(c, "raised")
    /\ UNCHANGED <<setting, budgetVars, team, allow, stopping, loop, got, usage,
                   asked, receipt, flight, spent>>

-----------------------------------------------------------------------------
(* Execution.call, with _Guard.reserve and _Guard.settle *)

(* deadline.timeout passes; the first call registers the owner as active. *)
BeginCall(c) ==
    /\ pc[c] = "call"
    /\ ~stopping
    /\ IF ActiveTiming /\ ledger.started[Owner(c)] = Never
       THEN ResumeExecution(Owner(c)) ELSE UNCHANGED budgetVars
    /\ Goto(c, "reserve")
    /\ UNCHANGED <<setting, team, allow, stopping, loop, got, usage, asked,
                   receipt, flight, spent>>

(* The cell's deadline has passed: the attempt ends in a budget gap. *)
DeadlineBeforeCall(c) ==
    /\ pc[c] = "call"
    /\ ~stopping
    /\ got' = [got EXCEPT ![c] = "limit"]
    /\ Goto(c, "ending")
    /\ UNCHANGED <<setting, budgetVars, team, allow, stopping, loop, usage,
                   asked, receipt, flight, spent>>

(* budget.reserve_call: admitted, or refused and the attempt ends. *)
Reserve(c) ==
    /\ pc[c] = "reserve"
    /\ \/ /\ ReserveCall(Owner(c), Cap, FALSE)
          /\ Goto(c, "reserved")
          /\ UNCHANGED got
       \/ /\ ~Admits(Opened, Cap, FALSE)
          /\ Snapshot
          /\ Goto(c, "ending")
          /\ got' = [got EXCEPT ![c] = "limit"]
    /\ UNCHANGED <<setting, team, allow, stopping, loop, usage, asked, receipt,
                   flight, spent>>

(* deadline.remaining passes, MODEL_CALL_STARTED, dispatched = True. *)
Dispatch(c) ==
    /\ pc[c] = "reserved"
    /\ ~stopping
    /\ flight' = [flight EXCEPT ![Owner(c)] = TRUE]
    /\ Goto(c, "sent")
    /\ UNCHANGED <<setting, budgetVars, team, allow, stopping, loop, got, usage,
                   asked, receipt, spent>>

(* Between reservation and dispatch the deadline passes, the run stops, or *)
(* MODEL_CALL_STARTED is not written: the event log is locked for too long *)
(* ("error"), or fails otherwise.                                          *)
AbortCall(c) ==
    /\ pc[c] = "reserved"
    /\ \E result \in {"limit", "error", "cancelled"} :
        /\ result = "limit" => ~stopping
        /\ result = "error" => Faults
        /\ result = "cancelled" => stopping \/ Faults
        /\ got' = [got EXCEPT ![c] = result]
    /\ Goto(c, "settle")
    /\ UNCHANGED <<setting, budgetVars, team, allow, stopping, loop, usage,
                   asked, receipt, flight, spent>>

(* infer returns or raises: what was spent, whether it was reported, and   *)
(* what call() makes of the reply, whose form it checks before its tokens. *)
(* "cancelled" stands for every exception that ends the cell, such as an   *)
(* execution receipt that cannot be written.  An unreported overrun is     *)
(* beyond what the budget can know and does not occur here.                *)
Answer(c) ==
    /\ pc[c] = "sent"
    /\ \E s \in Reports, reported \in BOOLEAN,
          result \in {"final", "retrieve", "invalid", "error", "limit", "cancelled"} :
        /\ ~reported => s <= Cap
        /\ s > Cap => result \in {"invalid", "limit", "cancelled"}
        /\ result = "error" => ~reported
        /\ result = "cancelled" => stopping \/ Faults
        /\ stopping => result \in {"invalid", "error", "limit", "cancelled"}
        /\ got' = [got EXCEPT ![c] = result]
        /\ usage' = [usage EXCEPT ![c] = IF reported THEN s ELSE Missing]
        /\ spent' = [spent EXCEPT ![Owner(c)] = @ + IF s > Cap THEN Cap ELSE s]
    /\ Goto(c, "settle")
    /\ UNCHANGED <<setting, budgetVars, team, allow, stopping, loop, asked,
                   receipt, flight>>

(* Mutant: the finally block settles dispatched calls only. *)
SettleDispatched(c) ==
    /\ pc[c] = "settle"
    /\ flight[Owner(c)]
    /\ SettleCall(LastCall(Owner(c)), usage[c], TRUE)
    /\ usage' = [usage EXCEPT ![c] = Missing]
    /\ flight' = [flight EXCEPT ![Owner(c)] = FALSE]
    /\ spent' = [spent EXCEPT ![Owner(c)] = @ + IF usage[c] > Cap THEN usage[c] - Cap ELSE 0]
    /\ Goto(c, IF got[c] = "cancelled" THEN "raised" ELSE "ending")
    /\ UNCHANGED <<setting, team, allow, stopping, loop, got, asked, receipt>>

(* Mutant: a call without a provider response is settled as not dispatched. *)
SettleByUsage(c) ==
    /\ pc[c] = "settle"
    /\ SettleCall(LastCall(Owner(c)), usage[c], usage[c] # Missing)
    /\ usage' = [usage EXCEPT ![c] = Missing]
    /\ flight' = [flight EXCEPT ![Owner(c)] = FALSE]
    /\ spent' = [spent EXCEPT ![Owner(c)] = @ + IF usage[c] > Cap THEN usage[c] - Cap ELSE 0]
    /\ Goto(c, IF got[c] = "cancelled" THEN "raised" ELSE "ending")
    /\ UNCHANGED <<setting, team, allow, stopping, loop, got, asked, receipt>>

(* The finally block: the reservation is settled on every way out. *)
Settle(c) ==
    /\ pc[c] = "settle"
    /\ SettleCall(LastCall(Owner(c)), usage[c], flight[Owner(c)])
    /\ usage' = [usage EXCEPT ![c] = Missing]
    /\ flight' = [flight EXCEPT ![Owner(c)] = FALSE]
    /\ spent' = [spent EXCEPT ![Owner(c)] = @ + IF usage[c] > Cap THEN usage[c] - Cap ELSE 0]
    /\ Goto(c, IF got[c] = "cancelled" THEN "raised" ELSE "ending")
    /\ UNCHANGED <<setting, team, allow, stopping, loop, got, asked, receipt>>

(* The ledger's lock or file fails: an accounting error ends the cell, and *)
(* what it holds stays held.                                               *)
AccountingFails(c) ==
    /\ Faults
    /\ pc[c] \in {"call", "reserve", "settle", "charge", "pause"}
    /\ Goto(c, "raised")
    /\ UNCHANGED <<setting, budgetVars, team, allow, stopping, loop, got, usage,
                   asked, receipt, flight, spent>>

-----------------------------------------------------------------------------
(* The turn and attempt loops of run_cell, then _run *)

(* A retrieval turn that is not the last: the next call of this attempt. *)
NextTurn(c) ==
    /\ pc[c] = "ending"
    /\ got[c] = "retrieve"
    /\ turn[c] < Turns
    /\ asked' = [asked EXCEPT ![c] = @ + 1]
    /\ turn' = [turn EXCEPT ![c] = @ + 1]
    /\ Goto(c, "call")
    /\ got' = [got EXCEPT ![c] = "none"]
    /\ UNCHANGED <<setting, budgetVars, team, allow, stopping, run, attempt,
                   usage, receipt, flight, spent>>

AttemptOver(c) ==
    /\ pc[c] = "ending"
    /\ got[c] = "retrieve" => turn[c] = Turns

(* A final answer: the SUCCEEDED receipt is published. *)
Succeed(c) ==
    /\ AttemptOver(c)
    /\ got[c] = "final"
    /\ receipt' = [receipt EXCEPT ![c] = "valid"]
    /\ Goto(c, "charge")
    /\ got' = [got EXCEPT ![c] = "none"]
    /\ UNCHANGED <<setting, budgetVars, team, allow, stopping, loop, usage,
                   asked, flight, spent>>

(* An attempt without a result: its receipt is published.  With first-error *)
(* safety a failure that is not a budget gap stops the run and raises; else *)
(* the policy allows another attempt, or the cell is over.                  *)
Stops(c) == FirstError /\ got[c] \in {"invalid", "error"}

FailAttempt(c) ==
    /\ AttemptOver(c)
    /\ got[c] # "final"
    /\ stopping' = (stopping \/ Stops(c))
    /\ \/ /\ Stops(c)
          /\ Goto(c, "raised")
          /\ UNCHANGED <<turn, attempt>>
       \/ /\ ~Stops(c)
          /\ Goto(c, "charge")
          /\ UNCHANGED <<turn, attempt>>
       \/ /\ ~Stops(c)
          /\ got[c] # "limit"
          /\ attempt[c] < Retries
          /\ attempt' = [attempt EXCEPT ![c] = @ + 1]
          /\ turn' = [turn EXCEPT ![c] = 1]
          /\ Goto(c, "call")
    /\ got' = [got EXCEPT ![c] = "none"]
    /\ UNCHANGED <<setting, budgetVars, team, allow, run, usage, asked, receipt,
                   flight, spent>>

(* Mutant: a cell without queries has nothing to account for. *)
ChargeOrEnd(c) ==
    /\ pc[c] = "charge"
    /\ IF asked[c] > 0 THEN ChargeQueries(asked[c]) ELSE UNCHANGED budgetVars
    /\ asked' = [asked EXCEPT ![c] = 0]
    /\ Goto(c, IF asked[c] > 0 THEN "pause" ELSE "ended")
    /\ UNCHANGED <<setting, team, allow, stopping, loop, got, usage, receipt,
                   flight, spent>>

(* budget.charge(retrieval_queries) *)
Charge(c) ==
    /\ pc[c] = "charge"
    /\ IF asked[c] > 0 THEN ChargeQueries(asked[c]) ELSE UNCHANGED budgetVars
    /\ asked' = [asked EXCEPT ![c] = 0]
    /\ Goto(c, "pause")
    /\ UNCHANGED <<setting, team, allow, stopping, loop, got, usage, receipt,
                   flight, spent>>

(* budget.pause_execution against the terminal receipt *)
Pause(c) ==
    /\ pc[c] = "pause"
    /\ IF ActiveTiming /\ ledger.started[Owner(c)] # Never
       THEN PauseExecution(Owner(c)) ELSE UNCHANGED budgetVars
    /\ Goto(c, "ended")
    /\ UNCHANGED <<setting, team, allow, stopping, loop, got, usage, asked,
                   receipt, flight, spent>>

-----------------------------------------------------------------------------
(* Interruption, death, a later attempt, and reconciliation *)

(* Another part of the run fails, or an operator stops it. *)
Interrupt ==
    /\ Faults
    /\ FirstError
    /\ stopping' = TRUE
    /\ UNCHANGED <<setting, budgetVars, team, allow, pc, loop, got, usage,
                   asked, receipt, flight, spent>>

(* The package's process dies; a call in flight may have spent its maximum. *)
Crash(p) ==
    /\ Faults
    /\ team[p] \in {"waiting", "running"}
    /\ team' = [team EXCEPT ![p] = "raised"]
    /\ pc' = [c \in Cells |-> IF c \in CellsOf(p) /\ pc[c] \notin Over THEN "raised" ELSE pc[c]]
    /\ got' = [c \in Cells |-> IF c \in CellsOf(p) THEN "none" ELSE got[c]]
    /\ usage' = [c \in Cells |-> IF c \in CellsOf(p) THEN Missing ELSE usage[c]]
    /\ spent' = [o \in Owners |->
           IF PackageOf[o[1]] = p /\ o = Owner(o[1]) /\ pc[o[1]] = "sent"
           THEN spent[o] + Cap ELSE spent[o]]
    /\ UNCHANGED <<setting, budgetVars, allow, stopping, loop, asked, receipt,
                   flight>>

(* A later attempt of the unit runs the package again: new invocations.    *)
(* Its executor and validators may differ from those of the receipts, or   *)
(* refuse the result of one.                                               *)
Rerun(p) ==
    /\ team[p] = "raised"
    /\ stopping => \A q \in Packages : team[q] \in {"done", "raised"}
    /\ \A c \in CellsOf(p) : run[c] < MaxRuns
    /\ Cardinality({q \in Packages : \E c \in CellsOf(q) : run[c] > 1}) < MaxReruns
    /\ team' = [team EXCEPT ![p] = "queued"]
    /\ stopping' = FALSE
    /\ run' = [c \in Cells |-> IF c \in CellsOf(p) THEN run[c] + 1 ELSE run[c]]
    /\ pc' = [c \in Cells |-> IF c \in CellsOf(p) THEN "queued" ELSE pc[c]]
    /\ turn' = [c \in Cells |-> IF c \in CellsOf(p) THEN 1 ELSE turn[c]]
    /\ attempt' = [c \in Cells |-> IF c \in CellsOf(p) THEN 1 ELSE attempt[c]]
    /\ got' = [c \in Cells |-> IF c \in CellsOf(p) THEN "none" ELSE got[c]]
    /\ usage' = [c \in Cells |-> IF c \in CellsOf(p) THEN Missing ELSE usage[c]]
    /\ asked' = [c \in Cells |-> IF c \in CellsOf(p) THEN 0 ELSE asked[c]]
    /\ \E refused \in SUBSET CellsOf(p) :
          receipt' = [c \in Cells |-> IF c \in refused /\ receipt[c] = "valid"
                                     THEN "stale" ELSE receipt[c]]
    /\ UNCHANGED <<setting, budgetVars, allow, flight, spent>>

(* The lifecycle owner proves that an invocation stopped, and reconciles:  *)
(* as never dispatched only when none of what it left was dispatched.      *)
Ceased(o) == o[2] < run[o[1]] \/ (o[2] = run[o[1]] /\ pc[o[1]] = "raised")

Reconcile(o) ==
    /\ Ceased(o)
    /\ ledger.closed[o] = "no"
    /\ \/ ReconcileOwner(o, TRUE)
       \/ ~flight[o] /\ ReconcileOwner(o, FALSE)
    /\ UNCHANGED cellVars

(* The wall clock moves on, as far as the setting lets it. *)
ClockTick == now < setting.clock /\ Tick /\ UNCHANGED cellVars

-----------------------------------------------------------------------------
CellStep(c) ==
    \/ ReuseReceipt(c) \/ LaunchCell(c) \/ Cancel(c)
    \/ BeginCall(c) \/ DeadlineBeforeCall(c) \/ Reserve(c) \/ Dispatch(c) \/ AbortCall(c)
    \/ Answer(c) \/ Settle(c)
    \/ NextTurn(c) \/ Succeed(c) \/ FailAttempt(c) \/ Charge(c) \/ Pause(c)

TeamStep(p) == AdmitTeam(p) \/ AcquireTeam(p) \/ SkipTeam(p) \/ EndTeam(p)

Next ==
    \/ ClockTick
    \/ \E p \in Packages : TeamStep(p) \/ Crash(p) \/ Rerun(p)
    \/ Interrupt
    \/ \E c \in Cells : CellStep(c) \/ AccountingFails(c)
    \/ \E o \in Owners : Reconcile(o)

Spec == Init /\ [][Next]_vars

(* Threads of a live process are scheduled, infer returns within the       *)
(* timeout it is given, and a team waits for a slot a bounded time.        *)
FairSpec ==
    /\ Spec
    /\ \A c \in Cells : WF_vars(CellStep(c))
    /\ \A p \in Packages : WF_vars(TeamStep(p))

-----------------------------------------------------------------------------
(* Types of the workers' state. *)
TypeOK ==
    /\ BudgetTypeOK
    /\ setting \in Settings
    /\ team \in [Packages -> {"queued", "waiting", "running", "done", "raised"}]
    /\ pc \in [Cells -> Over \cup {"queued", "start", "call", "reserve", "reserved", "sent",
                                   "settle", "ending", "charge", "pause"}]
    /\ allow \in [Packages -> BOOLEAN]
    /\ stopping \in BOOLEAN
    /\ receipt \in [Cells -> {"none", "valid", "stale"}]
    /\ run \in [Cells -> 1..MaxRuns]
    /\ turn \in [Cells -> 1..Turns]
    /\ attempt \in [Cells -> 1..Attempts]
    /\ asked \in [Cells -> 0..Turns * Attempts]
    /\ Cardinality({p \in Packages : team[p] = "running"}) <= Slots

(* What the provider really spent, up to the maxima of the requests and      *)
(* beyond them as far as it was reported, is always held by the budget, as   *)
(* known spend, a live reservation or a liability: whatever call is in       *)
(* flight, failed without a report, was cancelled or left by a dead process, *)
(* and however its owner is reconciled, admission never counts too little.   *)
SpendCovered == MapThenSumSet(LAMBDA o : spent[o], Owners) <= HeldTokens(ledger)

(* A cell that ended normally leaves nothing open: its calls are settled    *)
(* and its owner is paused, so it neither holds budget nor runs the clock.   *)
EndedIsClosed ==
    \A c \in Cells : pc[c] = "ended" =>
        /\ LiveOf(ledger, Owner(c)) = {}
        /\ ledger.started[Owner(c)] # Never => ledger.closed[Owner(c)] = "paused"

(* A cell is paid for again only if its last succeeded receipt is refused    *)
(* when it is revalidated, whatever died after the receipt was published,    *)
(* and a team the budget did not admit makes no call: no other step adds a   *)
(* reservation.                                                              *)
NotPaidAgain ==
    [][ \A c \in Cells : ledger'.calls[Owner(c)] # ledger.calls[Owner(c)]
          => Len(ledger'.calls[Owner(c)]) = Len(ledger.calls[Owner(c)])
             \/ (receipt[c] # "valid" /\ allow[PackageOf[c]]) ]_vars

(* Reservation pressure disappears: without a crash every reservation is     *)
(* settled, on every way out of the call.                                    *)
ReservationsSettle ==
    \A o \in Owners : LiveOf(ledger, o) # {} ~> LiveOf(ledger, o) = {}

(* Every queued package is eventually reviewed, skipped or failed; no slot,  *)
(* ceiling or stop leaves a team waiting for ever.                           *)
TeamsEnd == \A p \in Packages : team[p] = "queued" ~> team[p] \in {"done", "raised"}
=============================================================================
