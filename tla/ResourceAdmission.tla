-------------------------- MODULE ResourceAdmission --------------------------
(***************************************************************************)
(* The host ledger of resource leases (runtime/resources.py): reviews      *)
(* reserve aggregate capacity, launch containers and image builds inside a *)
(* lease, and give the lease back only when that work is confirmed gone.   *)
(*                                                                         *)
(* Every ledger operation is a read, a check and an atomic replace of      *)
(* leases.json under admission.lock: one action each.  The container       *)
(* engine and the image builder are not part of this code; they are        *)
(* modelled by the state of the work they run (world), which outlives the  *)
(* process that launched it.                                               *)
(***************************************************************************)
EXTENDS FiniteSetsExt, Integers

CONSTANTS
    Resources,      \* cpu, memory_mb, io_slots
    Owners,         \* review processes, each with a review_resource_scope
    Services,       \* persistent leases (image builder, engine baseline)
    LeaseIds,       \* uuid4 lease ids; one that nothing refers to is fresh
    Launchers,      \* threads that launch work under the lease they inherited
    ParentOf,       \* the owner whose lease a launcher inherits
    Containers,
    Builds,
    Demand,         \* Reservation of each owner and service
    Limit,          \* ResourceBudget of each owner and service
    MaxBuilds,      \* max_concurrency of each owner's builder configuration
    RemovalOwners,  \* owners with require_container_removal
    None

Items == Containers \cup Builds
Holders == Owners \cup Services
Ids == LeaseIds \cup Services
Vectors == [Resources -> Nat]

ASSUME IdsAssumption ==
    /\ Services \cap LeaseIds = {} /\ Services \cap Owners = {}
    /\ Containers \cap Builds = {}
    /\ None \notin Ids \cup Launchers \cup Items \cup Owners
ASSUME ParentAssumption == ParentOf \in [Launchers -> Owners]
ASSUME PolicyAssumption ==
    /\ Demand \in [Holders -> Vectors] /\ Limit \in [Holders -> Vectors]
    /\ MaxBuilds \in [Owners -> Nat] /\ RemovalOwners \subseteq Owners

VARIABLES
    ledger,       \* ids of the leases in leases.json
    holder,       \* per id: who reserved it
    recorded,     \* per id: its containers and builds
    quarantined,  \* ids with a quarantine reason
    finished,     \* ids with owner_finished
    dead,         \* ids whose process_identity no longer matches a process
    phase,        \* per owner: where it is in reserve()
    lease,        \* per owner: its active lease
    inside,       \* per owner: the launcher holding execution_lock
    step,         \* per launcher: where it is in a nested execution
    item,         \* per launcher: the work it tracks
    world,        \* per item: what the engine or the builder runs
    ranFor,       \* history, per item: the owner it was launched for
    stale         \* services whose lease was created in an earlier boot

ledgerVars == <<ledger, holder, recorded, quarantined, finished, dead>>
ownerVars == <<phase, lease, inside>>
launcherVars == <<step, item>>
vars == <<ledger, holder, recorded, quarantined, finished, dead, phase, lease,
          inside, step, item, world, ranFor, stale>>

TypeOK ==
    /\ ledger \subseteq Ids
    /\ holder \in [Ids -> Holders \cup {None}]
    /\ recorded \in [Ids -> SUBSET Items]
    /\ quarantined \subseteq ledger /\ finished \subseteq ledger /\ dead \subseteq ledger
    /\ phase \in [Owners -> {"idle", "waiting", "held", "closed"}]
    /\ lease \in [Owners -> Ids \cup {None}]
    /\ inside \in [Owners -> Launchers \cup {None}]
    /\ step \in [Launchers -> {"out", "in", "tracked", "started", "removing"}]
    /\ item \in [Launchers -> Items \cup {None}]
    /\ world \in [Items -> {"absent", "running", "exited"}]
    /\ ranFor \in [Items -> Owners \cup {None}]
    /\ stale \subseteq Services

Init ==
    /\ ledger = {}
    /\ holder = [l \in Ids |-> None]
    /\ recorded = [l \in Ids |-> {}]
    /\ quarantined = {} /\ finished = {} /\ dead = {}
    /\ phase = [o \in Owners |-> "idle"]
    /\ lease = [o \in Owners |-> None]
    /\ inside = [o \in Owners |-> None]
    /\ step = [k \in Launchers |-> "out"]
    /\ item = [k \in Launchers |-> None]
    /\ world = [x \in Items |-> "absent"]
    /\ ranFor = [x \in Items |-> None]
    /\ stale = {}

-----------------------------------------------------------------------------
(* Capacity. *)

Used(leases, r) == MapThenSumSet(LAMBDA l : Demand[holder[l]][r], leases)
Effective(h, leases, r) == Min({Limit[h][r]} \cup {Limit[holder[l]][r] : l \in leases})

FitsIn(h, leases) ==
    \A r \in Resources : Used(leases, r) + Demand[h][r] <= Effective(h, leases, r)

(* _check_permanent_feasibility: against the persistent leases alone.      *)
Feasible(h) == FitsIn(h, ledger \cap Services)

(* Mutation: only the requester's own budget is checked.                   *)
FitsOwnBudget(h) ==
    \A r \in Resources : Used(ledger, r) + Demand[h][r] <= Limit[h][r]

(* The request and every recorded lease stay within every lease's limits.  *)
Fits(h) == FitsIn(h, ledger)

LedgerBuilds == UNION {recorded[l] \cap Builds : l \in ledger}

(* Mutation: only the configured concurrency of this client counts.        *)
OwnBuildSlot(o) == Cardinality(LedgerBuilds) < MaxBuilds[o]

(* track_image_build: room under the concurrency of every recorded build.  *)
BuildSlot(o) ==
    Cardinality(LedgerBuilds) <
        Min({MaxBuilds[o]} \cup
            {MaxBuilds[holder[l]] : l \in {m \in ledger : recorded[m] \cap Builds # {}}})

(* The confirmation a lease asks for: builds must be cleaned up, and so    *)
(* must containers under the removal policy; others must not be running.   *)
ConfirmedGone(x, h) ==
    IF x \in Builds \/ h \in RemovalOwners THEN world[x] = "absent" ELSE world[x] # "running"

-----------------------------------------------------------------------------
(* reserve(). *)

Request(o) ==
    /\ phase[o] = "idle"
    /\ \A r \in Resources : Demand[o][r] <= Limit[o][r]
    /\ phase' = [phase EXCEPT ![o] = "waiting"]
    /\ UNCHANGED <<ledgerVars, lease, inside, launcherVars, world, ranFor, stale>>

Fresh(l) == l \notin ledger /\ \A o \in Owners : lease[o] # l

(* One poll that finds room writes the lease.                              *)
Admit(o, l) ==
    /\ phase[o] = "waiting"
    /\ Fresh(l)
    /\ Feasible(o)
    /\ Fits(o)
    /\ ledger' = ledger \cup {l}
    /\ holder' = [holder EXCEPT ![l] = o]
    /\ lease' = [lease EXCEPT ![o] = l]
    /\ phase' = [phase EXCEPT ![o] = "held"]
    /\ UNCHANGED <<recorded, quarantined, finished, dead, inside, launcherVars, world, ranFor, stale>>

(* Infeasible for good, timed out, or stopped by the execution guardian.   *)
GiveUp(o) ==
    /\ phase[o] = "waiting"
    /\ phase' = [phase EXCEPT ![o] = "idle"]
    /\ UNCHANGED <<ledgerVars, lease, inside, launcherVars, world, ranFor, stale>>

(* Mutation: the lease closes without waiting for a nested execution.      *)
CloseAtOnce(o) ==
    /\ phase[o] = "held"
    /\ phase' = [phase EXCEPT ![o] = "closed"]
    /\ UNCHANGED <<ledgerVars, lease, inside, launcherVars, world, ranFor, stale>>

(* The finally block takes execution_lock to set closed, so it waits for a *)
(* nested execution to end.                                                *)
Close(o) ==
    /\ phase[o] = "held"
    /\ inside[o] = None
    /\ phase' = [phase EXCEPT ![o] = "closed"]
    /\ UNCHANGED <<ledgerVars, lease, inside, launcherVars, world, ranFor, stale>>

Delete(l) ==
    /\ ledger' = ledger \ {l}
    /\ holder' = [holder EXCEPT ![l] = None]
    /\ recorded' = [recorded EXCEPT ![l] = {}]
    /\ quarantined' = quarantined \ {l}
    /\ finished' = finished \ {l}
    /\ dead' = dead \ {l}

Keep(l) ==
    /\ quarantined' = quarantined \cup {l}
    /\ finished' = finished \cup {l}
    /\ UNCHANGED <<ledger, holder, recorded, dead>>

Retained(l) == recorded[l] # {} \/ l \in quarantined

(* Mutation: a quarantined lease is kept, one with recorded work is not.   *)
SettleQuarantinedOnly(o) ==
    /\ phase[o] = "closed"
    /\ IF lease[o] \in quarantined THEN Keep(lease[o]) ELSE Delete(lease[o])
    /\ phase' = [phase EXCEPT ![o] = "idle"]
    /\ lease' = [lease EXCEPT ![o] = None]
    /\ UNCHANGED <<inside, launcherVars, world, ranFor, stale>>

(* The lease is deleted, or kept and marked when work is left in it.       *)
Settle(o) ==
    /\ phase[o] = "closed"
    /\ IF Retained(lease[o]) THEN Keep(lease[o]) ELSE Delete(lease[o])
    /\ phase' = [phase EXCEPT ![o] = "idle"]
    /\ lease' = [lease EXCEPT ![o] = None]
    /\ UNCHANGED <<inside, launcherVars, world, ranFor, stale>>

(* admission.lock is not to be had within 30 seconds: the lease stays as   *)
(* it is, charged to a process that no longer uses it.                     *)
SettleTimeout(o) ==
    /\ phase[o] = "closed"
    /\ phase' = [phase EXCEPT ![o] = "idle"]
    /\ lease' = [lease EXCEPT ![o] = None]
    /\ UNCHANGED <<ledgerVars, inside, launcherVars, world, ranFor, stale>>

-----------------------------------------------------------------------------
(* Nested executions: _reserve_execution, tracked_container and            *)
(* bounded_image_preparation.                                              *)

Enter(k) ==
    LET o == ParentOf[k] IN
    /\ step[k] = "out"
    /\ phase[o] = "held"
    /\ inside[o] = None
    /\ inside' = [inside EXCEPT ![o] = k]
    /\ step' = [step EXCEPT ![k] = "in"]
    /\ UNCHANGED <<ledgerVars, phase, lease, item, world, ranFor, stale>>

Exit(k) ==
    /\ step[k] = "in"
    /\ inside' = [inside EXCEPT ![ParentOf[k]] = None]
    /\ step' = [step EXCEPT ![k] = "out"]
    /\ UNCHANGED <<ledgerVars, phase, lease, item, world, ranFor, stale>>

(* A name nothing refers to any more, as good as a new uuid.               *)
NewName(x) ==
    /\ world[x] = "absent"
    /\ \A l \in ledger : x \notin recorded[l]
    /\ \A k \in Launchers : item[k] # x

Track(k, x) ==
    LET o == ParentOf[k] IN
    /\ step[k] = "in"
    /\ NewName(x)
    /\ x \in Builds => BuildSlot(o)
    /\ recorded' = [recorded EXCEPT ![lease[o]] = @ \cup {x}]
    /\ item' = [item EXCEPT ![k] = x]
    /\ step' = [step EXCEPT ![k] = "tracked"]
    /\ UNCHANGED <<ledger, holder, quarantined, finished, dead, ownerVars, world, ranFor, stale>>

Launch(k) ==
    /\ step[k] = "tracked"
    /\ world' = [world EXCEPT ![item[k]] = "running"]
    /\ ranFor' = [ranFor EXCEPT ![item[k]] = ParentOf[k]]
    /\ step' = [step EXCEPT ![k] = "started"]
    /\ UNCHANGED <<ledgerVars, ownerVars, item, stale>>

(* What the engine or the builder makes of a piece of work.                *)
Becomes(x, state) ==
    /\ world' = [world EXCEPT ![x] = state]
    /\ ranFor' = IF state = "absent" THEN [ranFor EXCEPT ![x] = None] ELSE ranFor

(* docker rm --force, or the builder's cancel and cleanup: it works, or it *)
(* fails or times out and leaves the work as it was.                       *)
Remove(k) ==
    /\ step[k] \in {"tracked", "started"}
    /\ Becomes(item[k], "absent") \/ UNCHANGED <<world, ranFor>>
    /\ step' = [step EXCEPT ![k] = "removing"]
    /\ UNCHANGED <<ledgerVars, ownerVars, item, stale>>

(* The removal is confirmed and the work leaves the lease.                 *)
Confirm(k) ==
    LET l == lease[ParentOf[k]] IN
    /\ step[k] = "removing"
    /\ ConfirmedGone(item[k], ParentOf[k])
    /\ recorded' = [recorded EXCEPT ![l] = @ \ {item[k]}]
    /\ item' = [item EXCEPT ![k] = None]
    /\ step' = [step EXCEPT ![k] = "in"]
    /\ UNCHANGED <<ledger, holder, quarantined, finished, dead, ownerVars, world, ranFor, stale>>

(* It is not: the lease is quarantined and the nested execution raises.    *)
Unconfirmed(k) ==
    LET o == ParentOf[k] IN
    /\ step[k] = "removing"
    /\ quarantined' = quarantined \cup {lease[o]}
    /\ item' = [item EXCEPT ![k] = None]
    /\ step' = [step EXCEPT ![k] = "out"]
    /\ inside' = [inside EXCEPT ![o] = None]
    /\ UNCHANGED <<ledger, holder, recorded, finished, dead, phase, lease, world, ranFor, stale>>

(* admission.lock is not to be had: neither is recorded.                   *)
CleanupTimeout(k) ==
    LET o == ParentOf[k] IN
    /\ step[k] = "removing"
    /\ item' = [item EXCEPT ![k] = None]
    /\ step' = [step EXCEPT ![k] = "out"]
    /\ inside' = [inside EXCEPT ![o] = None]
    /\ UNCHANGED <<ledgerVars, phase, lease, world, ranFor, stale>>

-----------------------------------------------------------------------------
(* Persistent leases and reconciliation. *)

(* reserve_persistent; an existing lease is adopted unchanged.             *)
ReservePersistent(s) ==
    /\ s \notin ledger
    /\ Feasible(s)
    /\ Fits(s)
    /\ ledger' = ledger \cup {s}
    /\ holder' = [holder EXCEPT ![s] = s]
    /\ UNCHANGED <<recorded, quarantined, finished, dead, ownerVars, launcherVars, world, ranFor,
                   stale>>

(* _release_persistent, after the operator's own proof of shutdown.        *)
ReleasePersistent(s) ==
    /\ s \in ledger
    /\ Delete(s)
    /\ stale' = stale \ {s}
    /\ UNCHANGED <<ownerVars, launcherVars, world, ranFor>>

(* _release_sole_persistent: a lease of an earlier boot, alone in the      *)
(* ledger.                                                                 *)
DropSole(s) ==
    /\ ledger = {s}
    /\ s \in stale
    /\ Delete(s)
    /\ stale' = stale \ {s}
    /\ UNCHANGED <<ownerVars, launcherVars, world, ranFor>>

(* Mutation: a lease is reclaimed although its owner is still at work.     *)
ReclaimableAnyOwner(l) ==
    /\ holder[l] \in Owners
    /\ \A x \in recorded[l] : ConfirmedGone(x, holder[l])

Reclaimable(l) ==
    /\ holder[l] \in Owners
    /\ l \in dead \cup finished
    /\ \A x \in recorded[l] : ConfirmedGone(x, holder[l])

(* reconcile, for one of the leases of its pass; the confirmation of a     *)
(* quarantine's cleanup is the operator's.                                 *)
Reconcile(l) ==
    /\ l \in ledger
    /\ Reclaimable(l)
    /\ Delete(l)
    /\ UNCHANGED <<ownerVars, launcherVars, world, ranFor, stale>>

-----------------------------------------------------------------------------
(* The environment. *)

ContainerExits(x) ==
    /\ world[x] = "running"
    /\ Becomes(x, IF x \in Builds THEN "absent" ELSE "exited")
    /\ UNCHANGED <<ledgerVars, ownerVars, launcherVars, stale>>

ContainerRemoved(x) ==
    /\ world[x] = "exited"
    /\ Becomes(x, "absent")
    /\ UNCHANGED <<ledgerVars, ownerVars, launcherVars, stale>>

(* These processes die with their threads; the work they launched does not.*)
Die(dying) ==
    /\ dead' = dead \cup {l \in ledger : holder[l] \in dying}
    /\ phase' = [o \in Owners |-> IF o \in dying THEN "idle" ELSE phase[o]]
    /\ lease' = [o \in Owners |-> IF o \in dying THEN None ELSE lease[o]]
    /\ inside' = [o \in Owners |-> IF o \in dying THEN None ELSE inside[o]]
    /\ step' = [k \in Launchers |-> IF ParentOf[k] \in dying THEN "out" ELSE step[k]]
    /\ item' = [k \in Launchers |-> IF ParentOf[k] \in dying THEN None ELSE item[k]]
    /\ UNCHANGED <<ledger, holder, recorded, quarantined, finished>>

Crash(o) ==
    /\ phase[o] # "idle"
    /\ Die({o})
    /\ UNCHANGED <<world, ranFor, stale>>

(* A reboot also stops the containers and builds, and makes the persistent *)
(* leases those of an earlier boot.                                        *)
Reboot ==
    /\ Die(Owners)
    /\ world' = [x \in Items |-> IF x \in Containers /\ world[x] # "absent" THEN "exited"
                                 ELSE "absent"]
    /\ ranFor' = [x \in Items |-> IF x \in Builds THEN None ELSE ranFor[x]]
    /\ stale' = ledger \cap Services

Next ==
    \/ \E o \in Owners :
          \/ Request(o) \/ GiveUp(o) \/ Close(o) \/ Settle(o) \/ SettleTimeout(o)
          \/ Crash(o)
          \/ \E l \in LeaseIds : Admit(o, l)
    \/ \E k \in Launchers :
          \/ Enter(k) \/ Exit(k) \/ Launch(k) \/ Remove(k)
          \/ Confirm(k) \/ Unconfirmed(k) \/ CleanupTimeout(k)
          \/ \E x \in Items : Track(k, x)
    \/ \E s \in Services : ReservePersistent(s) \/ ReleasePersistent(s) \/ DropSole(s)
    \/ \E l \in Ids : Reconcile(l)
    \/ \E x \in Items : ContainerExits(x) \/ ContainerRemoved(x)
    \/ Reboot

Spec == Init /\ [][Next]_vars

-----------------------------------------------------------------------------
(* Properties. *)

(* The leases of the ledger together stay within the limits of each of     *)
(* them, so a review with a small budget is never overcommitted by one     *)
(* with a larger budget that came later.                                   *)
WithinBudget ==
    \A l \in ledger, r \in Resources : Used(ledger, r) <= Limit[holder[l]][r]

(* Work is charged for as long as it exists: whatever crashes, timeouts,   *)
(* failed removals and reconciliations happen, a running container or      *)
(* build is recorded in a lease of the ledger, and under the removal       *)
(* policy so is a container that exited and was not removed.               *)
WorkCharged ==
    \A x \in Items :
        (world[x] = "running" \/ (world[x] = "exited" /\ ranFor[x] \in RemovalOwners)) =>
            \E l \in ledger : x \in recorded[l]

(* The lease of a review at work is in the ledger: nothing reclaims it     *)
(* under its owner ("active resource lease disappeared" is never raised).  *)
LeaseIntact ==
    \A o \in Owners : phase[o] \in {"held", "closed"} =>
        /\ lease[o] \in ledger \ (dead \cup finished)
        /\ holder[lease[o]] = o

(* "Nested launches cannot [...] outlive the enclosing reservation": every *)
(* launcher inside a nested execution is inside an open lease.             *)
NestedInside ==
    \A k \in Launchers : step[k] # "out" =>
        phase[ParentOf[k]] = "held" /\ inside[ParentOf[k]] = k

(* No more builds are recorded than the concurrency of any client that has *)
(* one.                                                                    *)
BuildsBounded ==
    \A l \in ledger : recorded[l] \cap Builds # {} =>
        Cardinality(LedgerBuilds) <= MaxBuilds[holder[l]]

(* "concurrent nested launches serialize rather than each spending its     *)
(* parent's allocation" (docs/operations/performance-assurance.md).        *)
NestedAlone ==
    \A l \in ledger : Cardinality({x \in recorded[l] : world[x] = "running"}) <= 1
=============================================================================
