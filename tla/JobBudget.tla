----------------------------- MODULE JobBudget -----------------------------
(***************************************************************************)
(* review/budget.py: the cumulative budget of one run's inference review.  *)
(* budget.json is one document, read, changed and replaced under one file  *)
(* lock, so every operation is one atomic step on the record `ledger`; an  *)
(* operation that raises leaves the document alone.                        *)
(*                                                                         *)
(* The two billed token dimensions are treated alike by the code and are   *)
(* one here, `tokens`; cache tokens are only reported and are left out.    *)
(* Legacy import and the schema checks of single fields are left out.      *)
(* Owners call the operations in any order the contract admits, retries    *)
(* and reconciliation of an owner that stopped included.                   *)
(***************************************************************************)
EXTENDS Integers, Sequences, FiniteSets, FiniteSetsExt

CONSTANTS Owners,       \* execution owners (attempt, cell, invocation)
          MaxTurns,     \* limits.max_model_turns
          MaxTokens,    \* limits.max_input_tokens, max_output_tokens
          MaxQueries,   \* limits.max_retrieval_queries
          MaxPackages,  \* limits.budget_team_packages
          Timeout,      \* limits.timeout_seconds
          ActiveTiming, \* timing mode: active_v2, or wall_clock_v1
          Caps,         \* token maxima a request may ask for
          Reports,      \* token counts a provider may report
          Replays,      \* the values of the replay switch
          MaxCalls,     \* bound: reservations of one owner
          MaxClock,     \* bound: the clock
          MaxDirect     \* bound: each counter of charge()

ASSUME BudgetAssumption ==
    /\ {MaxTurns, MaxTokens, MaxQueries, MaxPackages, Timeout} \subseteq Nat
    /\ {MaxCalls, MaxClock, MaxDirect} \subseteq Nat
    /\ ActiveTiming \in BOOLEAN
    /\ Replays \subseteq BOOLEAN
    /\ Caps \subseteq Nat
    /\ Reports \subseteq Nat

VARIABLES now,    \* the shared wall clock
          ledger  \* budget.json

budgetVars == <<now, ledger>>

Never == -1         \* a time that is not set (None)
Missing == -1       \* a usage the provider did not report (None)
NotExhausted == "no"

Ids(l) == {id \in Owners \X (1..MaxCalls) : id[2] <= Len(l.calls[id[1]])}
Call(l, id) == l.calls[id[1]][id[2]]
Live(l) == {id \in Ids(l) : Call(l, id).state = "live"}
Settled(l) == {id \in Ids(l) : Call(l, id).state = "settled"}
LiveOf(l, o) == {id \in Live(l) : id[1] = o}

-----------------------------------------------------------------------------
(* _totals: known spend, live reservations, liabilities for missing reports. *)

Dispatched(l) == {id \in Settled(l) : Call(l, id).dispatched}

KnownTurns(l) == l.turns + Cardinality(Dispatched(l))

KnownTokens(l) ==
    l.tokens + MapThenSumSet(LAMBDA id : Call(l, id).usage,
        {id \in Dispatched(l) : Call(l, id).usage # Missing /\ ~Call(l, id).replay})

ReservedTokens(l) ==
    MapThenSumSet(LAMBDA id : Call(l, id).cap, {id \in Live(l) : ~Call(l, id).replay})

LiabilityTokens(l) ==
    (IF l.unknown > 0 THEN MaxTokens ELSE 0)
    + MapThenSumSet(LAMBDA id : Call(l, id).cap,
        {id \in Dispatched(l) : Call(l, id).usage = Missing /\ ~Call(l, id).replay})

HeldTurns(l) == KnownTurns(l) + Cardinality(Live(l))
HeldTokens(l) == KnownTokens(l) + ReservedTokens(l) + LiabilityTokens(l)

(* _active_seconds, _elapsed *)
ActiveSeconds(l, t) ==
    l.activeSeconds + IF l.activeSince # Never THEN t - l.activeSince ELSE 0

Elapsed(l, t) == IF ActiveTiming THEN ActiveSeconds(l, t) ELSE t - l.startedAt

(* _update_exhaustion: sticky, and only on what was really spent. *)
Exhausted(l, t) ==
    IF l.exhausted # NotExhausted THEN l.exhausted
    ELSE IF KnownTurns(l) >= MaxTurns THEN "turns"
    ELSE IF KnownTokens(l) >= MaxTokens THEN "tokens"
    ELSE IF l.queries >= MaxQueries THEN "queries"
    ELSE IF l.packages >= MaxPackages THEN "packages"
    ELSE IF Elapsed(l, t) >= Timeout THEN "timeout"
    ELSE NotExhausted

(* _usage_exhaustion: counts reservations and liabilities, and is not kept. *)
UsageExhausted(l, t) ==
    \/ HeldTurns(l) >= MaxTurns
    \/ HeldTokens(l) >= MaxTokens
    \/ l.queries >= MaxQueries
    \/ Elapsed(l, t) >= Timeout

(* The part of _transact before the operation's own change. *)
Opened ==
    LET l == [ledger EXCEPT !.observed = now]
    IN  [l EXCEPT !.exhausted = Exhausted(l, now)]

-----------------------------------------------------------------------------
(* Mutants: each is the definition below it with one plausible slip. *)

(* The sticky field set from the admission test, reservations included. *)
SavedPressure(l) ==
    [l EXCEPT !.exhausted = IF l.exhausted = NotExhausted /\ HeldTokens(l) >= MaxTokens
                            THEN "tokens" ELSE Exhausted(l, now)]

(* The admission test without the in-flight reservations. *)
AdmitsKnown(l, cap, replay) ==
    LET tokens == IF replay THEN 0 ELSE cap
    IN  /\ replay \/ l.unknown = 0
        /\ Elapsed(l, now) < Timeout
        /\ KnownTurns(l) < MaxTurns
        /\ KnownTokens(l) < MaxTokens /\ KnownTokens(l) + LiabilityTokens(l) + tokens <= MaxTokens
        /\ l.queries < MaxQueries

(* Every pause ends the union interval, whoever else is still active. *)
CloseEach(l, o) ==
    IF l.started[o] # Never /\ l.stopped[o] = Never
    THEN [l EXCEPT !.stopped[o] = now,
                   !.activeSeconds = IF l.activeSince # Never THEN @ + now - l.activeSince ELSE @,
                   !.activeSince = Never]
    ELSE l

(* The last pause drops the interval it ends. *)
CloseForgets(l, o) ==
    IF l.started[o] # Never /\ l.stopped[o] = Never
    THEN [l EXCEPT !.stopped[o] = now, !.activeSince = Never]
    ELSE l

-----------------------------------------------------------------------------
(* The part of _transact after the operation's own change. *)
Saved(l) == [l EXCEPT !.exhausted = Exhausted(l, now)]

NewCall(cap, replay) ==
    [state |-> "live", cap |-> cap, replay |-> replay, usage |-> Missing,
     dispatched |-> FALSE, byOwner |-> FALSE]

Fresh ==
    [calls |-> [o \in Owners |-> <<>>], turns |-> 0, tokens |-> 0, queries |-> 0,
     unknown |-> 0, packages |-> 0, exhausted |-> NotExhausted,
     closed |-> [o \in Owners |-> "no"], started |-> [o \in Owners |-> Never],
     stopped |-> [o \in Owners |-> Never], activeSeconds |-> 0, activeSince |-> Never,
     startedAt |-> 0, observed |-> 0]

BudgetInit == now = 0 /\ ledger = [Fresh EXCEPT !.exhausted = Exhausted(Fresh, 0)]

(* The wall clock, shared by the processes of the run. *)
Tick == now < MaxClock /\ now' = now + 1 /\ UNCHANGED ledger

(* snapshot, usage_exhausted, and every operation that is refused without raising. *)
Snapshot == ledger' = Saved(Opened) /\ UNCHANGED now

(* reserve: one team package, refused once a ceiling is reached. *)
PackageAdmitted == Opened.exhausted = NotExhausted /\ ~UsageExhausted(Opened, now)

ReservePackage ==
    /\ PackageAdmitted
    /\ ledger' = Saved([Opened EXCEPT !.packages = @ + 1])
    /\ UNCHANGED now

(* charge: spend reported without a reservation; omitted tokens are unknown. *)
ChargeQueries(n) ==
    /\ ledger.queries + n <= MaxDirect
    /\ ledger' = Saved([Opened EXCEPT !.queries = @ + n])
    /\ UNCHANGED now

ChargeTurn(usage) ==
    /\ ledger.turns < MaxDirect
    /\ ledger' = Saved([Opened EXCEPT !.turns = @ + 1,
                                      !.tokens = IF usage = Missing THEN @ ELSE @ + usage,
                                      !.unknown = IF usage = Missing THEN @ + 1 ELSE @])
    /\ UNCHANGED now

(* reserve_call's admission test. *)
Admits(l, cap, replay) ==
    LET tokens == IF replay THEN 0 ELSE cap
    IN  /\ replay \/ l.unknown = 0
        /\ Elapsed(l, now) < Timeout
        /\ KnownTurns(l) < MaxTurns /\ HeldTurns(l) + 1 <= MaxTurns
        /\ KnownTokens(l) < MaxTokens /\ HeldTokens(l) + tokens <= MaxTokens
        /\ l.queries < MaxQueries

MayDispatch(o) == ledger.closed[o] = "no" /\ (ActiveTiming => ledger.started[o] # Never)

ReserveCall(o, cap, replay) ==
    /\ MayDispatch(o)
    /\ Admits(Opened, cap, replay)
    /\ Len(ledger.calls[o]) < MaxCalls
    /\ ledger' = Saved([Opened EXCEPT !.calls[o] = Append(@, NewCall(cap, replay))])
    /\ UNCHANGED now

(* Mutant: a late settlement replaces the receipt the reconciliation wrote. *)
SettleCallLate(id, usage, dispatched) ==
    /\ id \in Ids(ledger)
    /\ ~dispatched => usage = Missing
    /\ ledger' = Saved([Opened EXCEPT
           !.calls[id[1]][id[2]] = [@ EXCEPT !.state = "settled", !.usage = usage,
                                             !.dispatched = dispatched]])
    /\ UNCHANGED now

(* settle_call: the first settlement of a live reservation. *)
SettleCall(id, usage, dispatched) ==
    /\ id \in Live(ledger)
    /\ ~dispatched => usage = Missing
    /\ ledger' = Saved([Opened EXCEPT
           !.calls[id[1]][id[2]] = [@ EXCEPT !.state = "settled", !.usage = usage,
                                             !.dispatched = dispatched]])
    /\ UNCHANGED now

(* An identical retry changes nothing; a conflicting one raises. *)
SettleAgain(id, usage, dispatched) ==
    /\ id \in Settled(ledger)
    /\ Call(ledger, id).usage = usage
    /\ Call(ledger, id).dispatched = dispatched
    /\ Snapshot

(* resume_execution: a new owner starts or joins the active time. *)
ResumeExecution(o) ==
    /\ ActiveTiming
    /\ ledger.closed[o] = "no"
    /\ ledger' = Saved(IF ledger.started[o] # Never THEN Opened
                       ELSE [Opened EXCEPT !.started[o] = now,
                                           !.activeSince = IF @ = Never THEN now ELSE @])
    /\ UNCHANGED now

(* _close_execution: the union interval ends with the last active owner. *)
Close(l, o) ==
    IF l.started[o] # Never /\ l.stopped[o] = Never
    THEN LET m == [l EXCEPT !.stopped[o] = now]
         IN  IF \E p \in Owners : m.started[p] # Never /\ m.stopped[p] = Never
             THEN m
             ELSE [m EXCEPT !.activeSeconds = @ + now - m.activeSince, !.activeSince = Never]
    ELSE l

(* pause_execution: an owner that settled its calls stops. *)
MayPause(o) == ledger.started[o] # Never /\ LiveOf(ledger, o) = {}

PauseExecution(o) ==
    /\ ActiveTiming
    /\ MayPause(o)
    /\ ledger.closed[o] \in {"no", "paused"}
    /\ ledger' = Saved(IF ledger.closed[o] = "paused" THEN Opened
                       ELSE Close([Opened EXCEPT !.closed[o] = "paused"], o))
    /\ UNCHANGED now

(* reconcile_owner: a positively stopped owner is closed and what it left  *)
(* live is settled, as possibly dispatched or as proved never dispatched.  *)
Closure(dispatched) == IF dispatched THEN "dispatched" ELSE "undispatched"

ReconcileOwner(o, dispatched) ==
    /\ ledger.started[o] # Never \/ ledger.calls[o] # <<>>
    /\ ledger.closed[o] \in {"no", Closure(dispatched)}
    /\ ledger' = Saved(IF ledger.closed[o] # "no" THEN Opened
                       ELSE Close([Opened EXCEPT
                                !.closed[o] = Closure(dispatched),
                                !.calls[o] = [k \in DOMAIN @ |->
                                    IF @[k].state = "live"
                                    THEN [@[k] EXCEPT !.state = "settled", !.byOwner = TRUE,
                                                      !.dispatched = dispatched]
                                    ELSE @[k]]], o))
    /\ UNCHANGED now
BudgetNext ==
    \/ Tick
    \/ Snapshot
    \/ ReservePackage
    \/ \E n \in 1..MaxDirect : ChargeQueries(n)
    \/ \E usage \in Reports \cup {Missing} : ChargeTurn(usage)
    \/ \E o \in Owners :
        \/ ResumeExecution(o)
        \/ PauseExecution(o)
        \/ \E dispatched \in BOOLEAN : ReconcileOwner(o, dispatched)
        \/ \E cap \in Caps, replay \in Replays : ReserveCall(o, cap, replay)
    \/ \E id \in Ids(ledger), usage \in Reports \cup {Missing}, dispatched \in BOOLEAN :
        \/ SettleCall(id, usage, dispatched)
        \/ SettleAgain(id, usage, dispatched)

BudgetSpec == BudgetInit /\ [][BudgetNext]_budgetVars

-----------------------------------------------------------------------------
CallType ==
    [state : {"live", "settled"}, cap : Caps, replay : Replays,
     usage : Reports \cup {Missing}, dispatched : BOOLEAN, byOwner : BOOLEAN]

(* Types of the clock and of the budget document; the team packages counted  *)
(* never exceed budget_team_packages, whatever order reserve, charge and the  *)
(* clock come in.                                                            *)
BudgetTypeOK ==
    /\ now \in 0..MaxClock
    /\ \A o \in Owners : /\ Len(ledger.calls[o]) <= MaxCalls
                         /\ \A k \in DOMAIN ledger.calls[o] : ledger.calls[o][k] \in CallType
                         /\ ledger.closed[o] \in {"no", "paused", "dispatched", "undispatched"}
                         /\ ledger.started[o] \in {Never} \cup 0..now
                         /\ ledger.stopped[o] \in {Never} \cup 0..now
    /\ {ledger.turns, ledger.queries, ledger.unknown} \subseteq 0..MaxDirect
    /\ ledger.tokens \in Nat
    /\ ledger.packages \in 0..MaxPackages
    /\ ledger.activeSeconds \in 0..now
    /\ ledger.activeSince \in {Never} \cup 0..now
    /\ ledger.observed \in 0..now
    /\ ledger.exhausted \in {NotExhausted, "turns", "tokens", "queries", "packages", "timeout"}

(* The instants at which some owner was executing, as last observed. *)
Busy ==
    {t \in 0..ledger.observed - 1 : \E o \in Owners :
        /\ ledger.started[o] # Never /\ ledger.started[o] <= t
        /\ ledger.stopped[o] = Never \/ t < ledger.stopped[o]}

(* What _validate cross-checks before and after every transaction, so that   *)
(* no order of operations produces a document the next one refuses to open:  *)
(* the active time is the union of the owners' intervals and not their sum,  *)
(* a ceased owner has no live reservation and its interval is stopped, a     *)
(* reconciled receipt agrees with its owner's closure.                       *)
LedgerValid ==
    /\ ActiveSeconds(ledger, ledger.observed) = Cardinality(Busy)
    /\ (ledger.activeSince # Never)
         <=> \E o \in Owners : ledger.started[o] # Never /\ ledger.stopped[o] = Never
    /\ \A o \in Owners :
        /\ ledger.closed[o] # "no" => LiveOf(ledger, o) = {}
        /\ ledger.started[o] # Never
             => (ledger.stopped[o] # Never <=> ledger.closed[o] # "no")
    /\ ActiveTiming => \A id \in Live(ledger) : ledger.started[id[1]] # Never
    /\ \A id \in Settled(ledger) :
        /\ Call(ledger, id).byOwner
             => ledger.closed[id[1]] = Closure(Call(ledger, id).dispatched)
        /\ ~Call(ledger, id).dispatched => Call(ledger, id).usage = Missing

Overrun(l) ==
    MapThenSumSet(LAMBDA id : Call(l, id).usage - Call(l, id).cap,
        {id \in Dispatched(l) : ~Call(l, id).replay /\ Call(l, id).usage > Call(l, id).cap})

(* The launch bound: concurrent reservations, settlements and abandoned      *)
(* calls together never hold more turns than the ceiling, and hold more      *)
(* tokens only by what providers reported beyond the maxima they were given  *)
(* and by what was charged without a reservation.                            *)
LaunchBound ==
    /\ Cardinality(Dispatched(ledger)) + Cardinality(Live(ledger)) <= MaxTurns
    /\ HeldTokens(ledger)
         <= MaxTokens + Overrun(ledger) + ledger.tokens
            + IF ledger.unknown > 0 THEN MaxTokens ELSE 0

(* Sticky exhaustion names a ceiling that was really spent: pressure from    *)
(* reservations or missing reports refuses a launch but is never recorded.   *)
ExhaustedIsActual ==
    /\ ledger.exhausted = "turns" => KnownTurns(ledger) >= MaxTurns
    /\ ledger.exhausted = "tokens" => KnownTokens(ledger) >= MaxTokens
    /\ ledger.exhausted = "queries" => ledger.queries >= MaxQueries
    /\ ledger.exhausted = "packages" => ledger.packages >= MaxPackages
    /\ ledger.exhausted = "timeout" => Elapsed(ledger, ledger.observed) >= Timeout

(* Settlements, owner closures and exhaustion are append-only: a retry, a    *)
(* late settlement or a second reconciliation never rewrites a receipt, and  *)
(* an exhausted budget counts no further team package.                       *)
AppendOnly ==
    [][ /\ \A id \in Settled(ledger) : Call(ledger', id) = Call(ledger, id)
        /\ \A o \in Owners : ledger.closed[o] # "no"
              => ledger'.closed[o] = ledger.closed[o] /\ ledger'.stopped[o] = ledger.stopped[o]
        /\ ledger.exhausted # NotExhausted
              => ledger'.exhausted = ledger.exhausted /\ ledger'.packages = ledger.packages
        /\ KnownTurns(ledger') >= KnownTurns(ledger)
        /\ KnownTokens(ledger') >= KnownTokens(ledger)
        /\ Elapsed(ledger', now') >= Elapsed(ledger, now) ]_budgetVars
=============================================================================
