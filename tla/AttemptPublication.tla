------------------------- MODULE AttemptPublication -------------------------
(***************************************************************************)
(* The life of the attempts of one job inside one run: preparation, unit   *)
(* receipts, finalization, publication of the accepted handoff and the     *)
(* failure record (runtime/runner.py, with runtime/launch.py driving it    *)
(* and runtime/repair.py gating it).                                       *)
(*                                                                         *)
(* All state that survives a process is a file, written with an atomic     *)
(* replace (storage/atomic.py) or an atomic no-replace link                *)
(* (storage/shared.py).  A process holds kernel file locks                 *)
(* (storage/lock.py), which the kernel drops when the process dies.  Every *)
(* step below is one durable write, so a crash, a raised exception or a    *)
(* step of another process can fall between any two writes.                *)
(***************************************************************************)
EXTENDS Naturals

CONSTANTS
    Workers,      \* processes that run operations of this job (Dagster ops, CLI)
    Units,        \* orchestratable units of the job
    MaxAttempt,   \* bound on attempt directories (the code stops at 9999)
    HasIndex,     \* the job publishes an accepted retrieval manifest
    Faults,       \* processes may die, or stall for a whole lock timeout
    NoWorker      \* a lock nobody holds

ASSUME WorkersAssumption == NoWorker \notin Workers
ASSUME MaxAttemptAssumption == MaxAttempt \in Nat
ASSUME HasIndexAssumption == HasIndex \in BOOLEAN
ASSUME FaultsAssumption == Faults \in BOOLEAN

Attempts == 1..MaxAttempt
NoAttempt == 0

VARIABLES
    made,        \* attempt directories created so far
    claims,      \* attempts whose claim begin_attempt returned to its driver
    reused,      \* attempts handed out again as a reused claim
    receipts,    \* per attempt: the units whose status.json says SUCCEEDED
    status,      \* per attempt: status.json
    handoff,     \* attempts whose handoff.json is linked
    published,   \* per attempt: the status.json that published.json binds
    latest,      \* latest.json
    index,       \* data/indices/accepted.json
    accepted,    \* attempts with a HANDOFF_ACCEPTED event in the run log
    jobFailed,   \* per attempt: JOB_FAILED events in the run log
    finalized,   \* attempts with failure-finalized.json
    pubLock,     \* holder of data/publication.lock
    failLock,    \* per attempt: holder of failure.lock
    active,      \* live processes with an ACTIVE worker record
    pc,          \* per worker: the next step of its operation
    at,          \* per worker: the attempt it works on
    un,          \* per worker: the unit it executes
    prevLatest,  \* per worker: latest.json saved before publication
    prevIndex,   \* per worker: accepted.json saved before publication
    lastCommit,  \* history: the attempt of the last published.json write
    torn         \* history: a publication died between its pointer writes

files == <<made, receipts, status, handoff, published, latest, index>>
logs == <<accepted, jobFailed, finalized>>
locks == <<pubLock, failLock>>
saved == <<un, prevLatest, prevIndex>>
history == <<lastCommit, torn>>
vars == <<made, claims, reused, receipts, status, handoff, published, latest,
          index, accepted, jobFailed, finalized, pubLock, failLock, active,
          pc, at, un, prevLatest, prevIndex, lastCommit, torn>>

Statuses == {"absent", "RUNNING", "SUCCEEDED", "FAILED"}

(* Steps of _publish_attempt_scoped's try block: pointers may be moved.    *)
PointerSteps == {"status", "index", "latest", "events", "marker"}
RollbackSteps == {"rollbackLatest", "rollbackIndex"}
(* Steps that hold data/publication.lock and the attempt's failure.lock.   *)
PublishSteps == {"outcomes", "exit"} \cup PointerSteps \cup RollbackSteps
(* Steps of _write_failed_attempt, under the attempt's failure.lock.       *)
FailSteps == {"failStatus", "failEvent", "failMark"}
Steps == {"idle", "prepare", "started", "unit", "checkpoint", "finalize",
          "receipts", "pubLock", "pubFailLock", "failLock"} \cup PublishSteps \cup FailSteps

TypeOK ==
    /\ made \in 0..MaxAttempt
    /\ claims \subseteq Attempts
    /\ reused \subseteq Attempts
    /\ receipts \in [Attempts -> SUBSET Units]
    /\ status \in [Attempts -> Statuses]
    /\ handoff \subseteq Attempts
    /\ published \in [Attempts -> Statuses]
    /\ latest \in 0..MaxAttempt
    /\ index \in 0..MaxAttempt
    /\ accepted \subseteq Attempts
    /\ jobFailed \in [Attempts -> Nat]
    /\ finalized \subseteq Attempts
    /\ pubLock \in Workers \cup {NoWorker}
    /\ failLock \in [Attempts -> Workers \cup {NoWorker}]
    /\ active \subseteq Workers
    /\ pc \in [Workers -> Steps]
    /\ at \in [Workers -> 0..MaxAttempt]
    /\ un \in [Workers -> Units \cup {"none"}]
    /\ prevLatest \in [Workers -> 0..MaxAttempt]
    /\ prevIndex \in [Workers -> 0..MaxAttempt]
    /\ lastCommit \in 0..MaxAttempt
    /\ torn \in BOOLEAN

Init ==
    /\ made = 0
    /\ claims = {}
    /\ reused = {}
    /\ receipts = [a \in Attempts |-> {}]
    /\ status = [a \in Attempts |-> "absent"]
    /\ handoff = {}
    /\ published = [a \in Attempts |-> "absent"]
    /\ latest = NoAttempt
    /\ index = NoAttempt
    /\ accepted = {}
    /\ jobFailed = [a \in Attempts |-> 0]
    /\ finalized = {}
    /\ pubLock = NoWorker
    /\ failLock = [a \in Attempts |-> NoWorker]
    /\ active = {}
    /\ pc = [w \in Workers |-> "idle"]
    /\ at = [w \in Workers |-> NoAttempt]
    /\ un = [w \in Workers |-> "none"]
    /\ prevLatest = [w \in Workers |-> NoAttempt]
    /\ prevIndex = [w \in Workers |-> NoAttempt]
    /\ lastCommit = NoAttempt
    /\ torn = FALSE

AllSucceeded(a) == receipts[a] = Units

(* verify_publication: the marker binds the current status.json, and that  *)
(* status is the handoff's completion status.                              *)
Committed(a) ==
    /\ a \in handoff
    /\ published[a] = "SUCCEEDED"
    /\ published[a] = status[a]

(* ResumePlanner._accepted, for the parts of it this module keeps: the     *)
(* pointer names a committed publication that no newer attempt supersedes. *)
Reusable(a) == latest = a /\ Committed(a) /\ a = made

-----------------------------------------------------------------------------
(* Worker bookkeeping. *)

Goto(w, step) == pc' = [pc EXCEPT ![w] = step]

(* worker_scope entered and left: the worker record is ACTIVE in between.  *)
Enter(w, a, step) ==
    /\ pc[w] = "idle"
    /\ at' = [at EXCEPT ![w] = a]
    /\ Goto(w, step)

Leave(w) ==
    /\ Goto(w, "idle")
    /\ at' = [at EXCEPT ![w] = NoAttempt]
    /\ un' = [un EXCEPT ![w] = "none"]
    /\ prevLatest' = [prevLatest EXCEPT ![w] = NoAttempt]
    /\ prevIndex' = [prevIndex EXCEPT ![w] = NoAttempt]
    /\ active' = active \ {w}

(* An exception leads to the failure record of the same attempt.           *)
Raise(w) ==
    /\ Goto(w, "failLock")
    /\ un' = [un EXCEPT ![w] = "none"]
    /\ prevLatest' = [prevLatest EXCEPT ![w] = NoAttempt]
    /\ prevIndex' = [prevIndex EXCEPT ![w] = NoAttempt]
    /\ UNCHANGED <<active, at>>

Release(w) ==
    /\ pubLock' = IF pubLock = w THEN NoWorker ELSE pubLock
    /\ failLock' = [a \in Attempts |->
                      IF failLock[a] = w THEN NoWorker ELSE failLock[a]]

(* The gate of worker_scope(preparing_job): a replacement attempt, or one  *)
(* prepared at the same time as another, needs every registered worker     *)
(* stopped.                                                                *)
Gate(w) ==
    \/ /\ \A a \in Attempts : status[a] = "absent"
       /\ \A v \in active : pc[v] \notin {"prepare", "started"}
    \/ active = {}

-----------------------------------------------------------------------------
(* Preparation: begin_attempt. *)

BeginAttempt(w) ==
    /\ made < MaxAttempt
    /\ Gate(w)
    /\ made' = made + 1
    /\ Enter(w, made + 1, "prepare")
    /\ active' = active \cup {w}
    /\ UNCHANGED <<claims, reused, receipts, status, handoff, published, latest,
                   index, logs, locks, saved, history>>

StartAttempt(w) ==
    /\ pc[w] = "prepare"
    /\ status' = [status EXCEPT ![at[w]] = "RUNNING"]
    /\ Goto(w, "started")
    /\ UNCHANGED <<made, claims, reused, receipts, handoff, published, latest,
                   index, logs, locks, active, at, saved, history>>

ReturnClaim(w) ==
    /\ pc[w] = "started"
    /\ claims' = claims \cup {at[w]}
    /\ Leave(w)
    /\ UNCHANGED <<reused, files, logs, locks, history>>

(* Input preparation or an input validator raises: the attempt is failed.  *)
PreparationFails(w) ==
    /\ pc[w] \in {"prepare", "started"}
    /\ Raise(w)
    /\ UNCHANGED <<claims, reused, files, logs, locks, history>>

(* begin_or_reuse_attempt answers with the accepted attempt.               *)
ReuseAttempt ==
    /\ latest # NoAttempt
    /\ Reusable(latest)
    /\ latest \notin reused
    /\ reused' = reused \cup {latest}
    /\ UNCHANGED <<claims, files, logs, locks, active, pc, at, saved, history>>

-----------------------------------------------------------------------------
(* Units, at the level of their receipts: execute_or_reuse_unit.  A unit   *)
(* whose own receipt is SUCCEEDED is answered from it and changes nothing, *)
(* unless its build topology is no longer admitted: then it runs again.    *)

BeginUnit(w, a, u) ==
    /\ a \in claims
    /\ Enter(w, a, "unit")
    /\ un' = [un EXCEPT ![w] = u]
    /\ receipts' = [receipts EXCEPT ![a] = @ \ {u}]
    /\ active' = active \cup {w}
    /\ UNCHANGED <<made, claims, reused, status, handoff, published, latest,
                   index, logs, locks, prevLatest, prevIndex, history>>

UnitSucceeds(w) ==
    /\ pc[w] = "unit"
    /\ receipts' = [receipts EXCEPT ![at[w]] = @ \cup {un[w]}]
    /\ Goto(w, "checkpoint")
    /\ UNCHANGED <<made, claims, reused, status, handoff, published, latest,
                   index, logs, locks, active, at, saved, history>>

(* The checkpoint, the task event and the step marker follow the receipt.  *)
UnitReturns(w) ==
    /\ pc[w] = "checkpoint"
    /\ Leave(w)
    /\ UNCHANGED <<claims, reused, files, logs, locks, history>>

(* The handler, a validator or a write after the receipt raises.           *)
UnitFails(w) ==
    /\ pc[w] \in {"unit", "checkpoint"}
    /\ receipts' = [receipts EXCEPT ![at[w]] = @ \ {un[w]}]
    /\ Raise(w)
    /\ UNCHANGED <<made, claims, reused, status, handoff, published, latest,
                   index, logs, locks, history>>

(* The failure is recorded outside the unit's own handler and outside any  *)
(* worker_scope: by launch.complete, or by execute_or_reuse_unit when the  *)
(* claim is refused, a dependency is missing or the event of a receipt     *)
(* that is used again cannot be written.                                   *)
DriverFails(w, a) ==
    /\ a \in claims
    /\ Enter(w, a, "failLock")
    /\ UNCHANGED <<claims, reused, files, logs, locks, active, saved, history>>

(* A unit of a reused claim raises; its handler fails the reused attempt.  *)
ReusedUnitRaises(w, a) ==
    /\ a \in reused
    /\ Enter(w, a, "failLock")
    /\ UNCHANGED <<claims, reused, files, logs, locks, active, saved, history>>

-----------------------------------------------------------------------------
(* Finalization: _finalize_attempt up to the locks. *)

BeginFinalize(w, a) ==
    /\ a \in claims
    /\ status[a] # "FAILED"
    /\ Enter(w, a, "finalize")
    /\ active' = active \cup {w}
    /\ UNCHANGED <<claims, reused, files, logs, locks, saved, history>>

(* latest.json already names this attempt: a committed publication is      *)
(* returned, an uncommitted one raises; neither changes a file.            *)
AlreadyPublished(w) ==
    /\ pc[w] = "finalize"
    /\ latest = at[w]
    /\ Leave(w)
    /\ UNCHANGED <<claims, reused, files, logs, locks, history>>

NotYetPublished(w) ==
    /\ pc[w] = "finalize"
    /\ latest # at[w]
    /\ Goto(w, "receipts")
    /\ UNCHANGED <<claims, reused, files, logs, locks, active, at, saved, history>>

CheckReceipts(w) ==
    /\ pc[w] = "receipts"
    /\ AllSucceeded(at[w])
    /\ Goto(w, "pubLock")
    /\ UNCHANGED <<claims, reused, files, logs, locks, active, at, saved, history>>

(* A receipt is missing, or finalize_result or an output validator raises. *)
FinalizeRefused(w) ==
    /\ pc[w] = "receipts"
    /\ Raise(w)
    /\ UNCHANGED <<claims, reused, files, logs, locks, history>>

-----------------------------------------------------------------------------
(* Publication: _publish_attempt and _publish_attempt_scoped. *)

AcquirePublication(w) ==
    /\ pc[w] = "pubLock"
    /\ pubLock = NoWorker
    /\ pubLock' = w
    /\ Goto(w, "pubFailLock")
    /\ UNCHANGED <<claims, reused, files, logs, failLock, active, at, saved, history>>

(* Mutation: the status is not read again under the failure lock.          *)
AcquireFailureUnchecked(w) ==
    /\ pc[w] = "pubFailLock"
    /\ failLock[at[w]] = NoWorker
    /\ failLock' = [failLock EXCEPT ![at[w]] = w]
    /\ Goto(w, "outcomes")
    /\ UNCHANGED <<claims, reused, files, logs, pubLock, active, at, saved, history>>

(* Both locks are held; a FAILED status read now raises.                   *)
AcquireFailure(w) ==
    /\ pc[w] = "pubFailLock"
    /\ failLock[at[w]] = NoWorker
    /\ status[at[w]] # "FAILED"
    /\ failLock' = [failLock EXCEPT ![at[w]] = w]
    /\ Goto(w, "outcomes")
    /\ UNCHANGED <<claims, reused, files, logs, pubLock, active, at, saved, history>>

FailedMeanwhile(w) ==
    /\ pc[w] = "pubFailLock"
    /\ failLock[at[w]] = NoWorker
    /\ status[at[w]] = "FAILED"
    /\ Release(w)
    /\ Raise(w)
    /\ UNCHANGED <<claims, reused, files, logs, history>>

(* Thirty seconds of LockUnavailable on either lock raise.                 *)
PublicationLockTimeout(w) ==
    /\ Faults
    /\ \/ pc[w] = "pubLock" /\ pubLock # NoWorker
       \/ pc[w] = "pubFailLock" /\ failLock[at[w]] # NoWorker
    /\ Release(w)
    /\ Raise(w)
    /\ UNCHANGED <<claims, reused, files, logs, history>>

(* Mutation: handoff.json is replaced instead of linked.                   *)
LinkHandoffReplacing(w) ==
    /\ pc[w] = "outcomes"
    /\ AllSucceeded(at[w])
    /\ handoff' = handoff \cup {at[w]}
    /\ prevLatest' = [prevLatest EXCEPT ![w] = latest]
    /\ prevIndex' = [prevIndex EXCEPT ![w] = index]
    /\ Goto(w, "status")
    /\ UNCHANGED <<made, claims, reused, receipts, status, published, latest, index,
                   logs, locks, active, at, un, history>>

(* The outcomes are rebuilt from the receipts, verified, and handoff.json  *)
(* is linked; then the pointers are read for a rollback.  handoff.json     *)
(* carries the completion time of this try, so a second link conflicts.    *)
LinkHandoff(w) ==
    /\ pc[w] = "outcomes"
    /\ AllSucceeded(at[w])
    /\ at[w] \notin handoff
    /\ handoff' = handoff \cup {at[w]}
    /\ prevLatest' = [prevLatest EXCEPT ![w] = latest]
    /\ prevIndex' = [prevIndex EXCEPT ![w] = index]
    /\ Goto(w, "status")
    /\ UNCHANGED <<made, claims, reused, receipts, status, published, latest, index,
                   logs, locks, active, at, un, history>>

(* Mutation: the refusal is raised without failing the attempt.            *)
PublicationRefusedSilently(w) ==
    /\ pc[w] = "outcomes"
    /\ Release(w)
    /\ Leave(w)
    /\ UNCHANGED <<claims, reused, files, logs, history>>

(* Upstream admission, an outcome, a verification or the link raises.      *)
PublicationRefused(w) ==
    /\ pc[w] = "outcomes"
    /\ Release(w)
    /\ Raise(w)
    /\ UNCHANGED <<claims, reused, files, logs, history>>

WriteStatus(w) ==
    /\ pc[w] = "status"
    /\ status' = [status EXCEPT ![at[w]] = "SUCCEEDED"]
    /\ Goto(w, IF HasIndex THEN "index" ELSE "latest")
    /\ UNCHANGED <<made, claims, reused, receipts, handoff, published, latest,
                   index, logs, locks, active, at, saved, history>>

WriteIndex(w) ==
    /\ pc[w] = "index"
    /\ index' = at[w]
    /\ Goto(w, "latest")
    /\ UNCHANGED <<made, claims, reused, receipts, status, handoff, published,
                   latest, logs, locks, active, at, saved, history>>

(* Mutation: the marker is written before the acceptance events.           *)
WriteLatestThenMarker(w) ==
    /\ pc[w] = "latest"
    /\ latest' = at[w]
    /\ Goto(w, "marker")
    /\ UNCHANGED <<made, claims, reused, receipts, status, handoff, published,
                   index, logs, locks, active, at, saved, history>>

WriteLatest(w) ==
    /\ pc[w] = "latest"
    /\ latest' = at[w]
    /\ Goto(w, "events")
    /\ UNCHANGED <<made, claims, reused, receipts, status, handoff, published,
                   index, logs, locks, active, at, saved, history>>

WriteAcceptedEvents(w) ==
    /\ pc[w] = "events"
    /\ accepted' = accepted \cup {at[w]}
    /\ Goto(w, "marker")
    /\ UNCHANGED <<claims, reused, files, jobFailed, finalized, locks, active, at,
                   saved, history>>

(* published.json hashes the status.json that is on disk now.              *)
WritePublished(w) ==
    /\ pc[w] = "marker"
    /\ published' = [published EXCEPT ![at[w]] = status[at[w]]]
    /\ lastCommit' = at[w]
    /\ torn' = FALSE
    /\ Goto(w, "exit")
    /\ UNCHANGED <<made, claims, reused, receipts, status, handoff, latest, index,
                   logs, locks, active, at, saved>>

PublicationReturns(w) ==
    /\ pc[w] = "exit"
    /\ Release(w)
    /\ Leave(w)
    /\ UNCHANGED <<claims, reused, files, logs, history>>

(* Leaving the spans and scopes writes events and can raise after the      *)
(* marker; _finalize_attempt then fails the attempt it just published.     *)
ScopeExitRaises(w) ==
    /\ pc[w] = "exit"
    /\ Release(w)
    /\ Raise(w)
    /\ UNCHANGED <<claims, reused, files, logs, history>>

(* A write of the try block raises: latest.json, then accepted.json, go    *)
(* back to their saved contents; an OSError of the rollback is only noted. *)
PublicationRaises(w) ==
    /\ pc[w] \in PointerSteps
    /\ Goto(w, "rollbackLatest")
    /\ UNCHANGED <<claims, reused, files, logs, locks, active, at, saved, history>>

(* Mutation: the rollback removes latest.json whatever it named before.    *)
RollbackUnlinksLatest(w) ==
    /\ pc[w] = "rollbackLatest"
    /\ latest' = NoAttempt
    /\ Goto(w, "rollbackIndex")
    /\ UNCHANGED <<made, claims, reused, receipts, status, handoff, published, index,
                   logs, locks, active, at, saved, history>>

RollbackLatest(w) ==
    /\ pc[w] = "rollbackLatest"
    /\ latest' = prevLatest[w]
    /\ Goto(w, "rollbackIndex")
    /\ UNCHANGED <<made, claims, reused, receipts, status, handoff, published, index,
                   logs, locks, active, at, saved, history>>

RollbackIndex(w) ==
    /\ pc[w] = "rollbackIndex"
    /\ index' = IF HasIndex THEN prevIndex[w] ELSE index
    /\ Release(w)
    /\ Raise(w)
    /\ UNCHANGED <<made, claims, reused, receipts, status, handoff, published, latest,
                   logs, history>>

RollbackWriteRaises(w) ==
    /\ \/ /\ pc[w] = "rollbackLatest"
          /\ Goto(w, "rollbackIndex")
          /\ UNCHANGED <<locks, active, at, saved>>
       \/ /\ pc[w] = "rollbackIndex"
          /\ Raise(w)
          /\ Release(w)
    /\ torn' = TRUE
    /\ UNCHANGED <<claims, reused, files, logs, lastCommit>>

-----------------------------------------------------------------------------
(* The failure record: _fail_attempt and _write_failed_attempt. *)

AcquireFailureRecord(w) ==
    /\ pc[w] = "failLock"
    /\ failLock[at[w]] = NoWorker
    /\ at[w] \notin finalized
    /\ failLock' = [failLock EXCEPT ![at[w]] = w]
    /\ Goto(w, "failStatus")
    /\ UNCHANGED <<claims, reused, files, logs, pubLock, active, at, saved, history>>

(* failure-finalized.json exists, or the lock times out.                   *)
FailureRecordSkipped(w) ==
    /\ pc[w] = "failLock"
    /\ at[w] \in finalized \/ (Faults /\ failLock[at[w]] # NoWorker)
    /\ Leave(w)
    /\ UNCHANGED <<claims, reused, files, logs, locks, history>>

WriteFailedStatus(w) ==
    /\ pc[w] = "failStatus"
    /\ status' = [status EXCEPT ![at[w]] = "FAILED"]
    /\ Goto(w, "failEvent")
    /\ UNCHANGED <<made, claims, reused, receipts, handoff, published, latest,
                   index, logs, locks, active, at, saved, history>>

(* Mutation: a retry of the failure record does not look for its event.    *)
WriteFailedEventAgain(w) ==
    /\ pc[w] = "failEvent"
    /\ jobFailed' = [jobFailed EXCEPT ![at[w]] = @ + 1]
    /\ Goto(w, "failMark")
    /\ UNCHANGED <<claims, reused, files, accepted, finalized, locks, active, at,
                   saved, history>>

WriteFailedEvent(w) ==
    /\ pc[w] = "failEvent"
    /\ jobFailed' = IF jobFailed[at[w]] = 0
                    THEN [jobFailed EXCEPT ![at[w]] = @ + 1] ELSE jobFailed
    /\ Goto(w, "failMark")
    /\ UNCHANGED <<claims, reused, files, accepted, finalized, locks, active, at,
                   saved, history>>

(* The rejected diagnostics are best effort; the marker ends the record.   *)
FinalizeFailure(w) ==
    /\ pc[w] = "failMark"
    /\ finalized' = finalized \cup {at[w]}
    /\ Release(w)
    /\ Leave(w)
    /\ UNCHANGED <<claims, reused, files, accepted, jobFailed, history>>

FailureRecordRaises(w) ==
    /\ Faults
    /\ pc[w] \in FailSteps
    /\ Release(w)
    /\ Leave(w)
    /\ UNCHANGED <<claims, reused, files, logs, history>>

-----------------------------------------------------------------------------
(* The process dies; the kernel drops its locks, its files stay.           *)
Crash(w) ==
    /\ Faults
    /\ pc[w] # "idle"
    /\ Release(w)
    /\ Leave(w)
    /\ torn' = (torn \/ pc[w] \in PointerSteps \cup RollbackSteps)
    /\ UNCHANGED <<claims, reused, files, logs, lastCommit>>

Prepare(w) == BeginAttempt(w) \/ StartAttempt(w) \/ ReturnClaim(w) \/ PreparationFails(w)

Execute(w) ==
    \/ \E a \in Attempts, u \in Units : BeginUnit(w, a, u)
    \/ UnitSucceeds(w) \/ UnitReturns(w) \/ UnitFails(w)
    \/ \E a \in Attempts : DriverFails(w, a) \/ ReusedUnitRaises(w, a)

Finalize(w) ==
    \/ \E a \in Attempts : BeginFinalize(w, a)
    \/ AlreadyPublished(w) \/ NotYetPublished(w) \/ CheckReceipts(w) \/ FinalizeRefused(w)

Publish(w) ==
    \/ AcquirePublication(w) \/ AcquireFailure(w) \/ FailedMeanwhile(w)
    \/ PublicationLockTimeout(w) \/ LinkHandoff(w) \/ PublicationRefused(w)
    \/ WriteStatus(w) \/ WriteIndex(w) \/ WriteLatest(w) \/ WriteAcceptedEvents(w)
    \/ WritePublished(w) \/ PublicationReturns(w) \/ ScopeExitRaises(w)
    \/ PublicationRaises(w) \/ RollbackLatest(w) \/ RollbackIndex(w)
    \/ RollbackWriteRaises(w)

RecordFailure(w) ==
    \/ AcquireFailureRecord(w) \/ FailureRecordSkipped(w) \/ WriteFailedStatus(w)
    \/ WriteFailedEvent(w) \/ FinalizeFailure(w) \/ FailureRecordRaises(w)

Next ==
    \/ ReuseAttempt
    \/ \E w \in Workers :
          Prepare(w) \/ Execute(w) \/ Finalize(w) \/ Publish(w) \/ RecordFailure(w) \/ Crash(w)

Spec == Init /\ [][Next]_vars

(* A process that is running keeps running: every step of an operation     *)
(* already begun, but no new operation.  A waiter polls its lock every ten *)
(* milliseconds, so it gets a lock that keeps becoming free.               *)
Progress(w) ==
    /\ pc[w] # "idle"
    /\ Prepare(w) \/ Execute(w) \/ Finalize(w) \/ Publish(w) \/ RecordFailure(w)

Fairness ==
    \A w \in Workers :
        /\ WF_vars(Progress(w))
        /\ SF_vars(AcquirePublication(w))
        /\ SF_vars(AcquireFailure(w) \/ FailedMeanwhile(w))
        /\ SF_vars(AcquireFailureRecord(w))

FairSpec == Spec /\ Fairness

-----------------------------------------------------------------------------
(* Properties. *)

(* A FAILED status.json is final.  A finalizer that read the status before *)
(* another process failed the attempt must not overwrite the failure: that *)
(* is what failure.lock and the second read of the status are for.         *)
FailedIsFinal ==
    [][\A a \in Attempts : status[a] = "FAILED" => status'[a] = "FAILED"]_vars

(* While no publication is in progress both pointers name the attempt of   *)
(* the last commit: a publication that raises puts back exactly what it    *)
(* found, never an older or an empty pointer.  The exception is a process  *)
(* that died, or a rollback write that failed, between the pointer writes; *)
(* the next commit ends it.                                                *)
PointersFollowCommit ==
    pubLock = NoWorker /\ ~torn =>
        /\ latest = lastCommit
        /\ HasIndex => index = lastCommit

(* published.json is the last write of a publication: an attempt that has  *)
(* one has its handoff, its acceptance events and a terminal status, and   *)
(* the marker never binds a status other than the completion status.       *)
MarkerIsLast ==
    \A a \in Attempts :
        /\ status[a] = "SUCCEEDED" => a \in handoff
        /\ published[a] # "absent" =>
              /\ a \in handoff \cap accepted
              /\ published[a] = "SUCCEEDED"
              /\ status[a] \in {"SUCCEEDED", "FAILED"}

(* However many processes record the failure of an attempt, and wherever   *)
(* they die, the run log gets at most one JOB_FAILED for it, and a         *)
(* finalized failure has its event and its status.                         *)
FailureRecordedOnce ==
    \A a \in Attempts :
        /\ jobFailed[a] <= 1
        /\ jobFailed[a] = 1 => status[a] = "FAILED"
        /\ a \in finalized => jobFailed[a] = 1

(* An attempt seen one at a time obeys module AttemptOutcome.              *)
Publishing(a) == \E w \in Workers : at[w] = a /\ pc[w] \in PointerSteps

Outcome(a) ==
    IF status[a] = "FAILED" THEN "failed"
    ELSE IF Committed(a) THEN "committed"
    ELSE IF a \notin handoff THEN "open"
    ELSE IF Publishing(a) THEN "sealed" ELSE "torn"

Abstract == INSTANCE AttemptOutcome WITH outcome <- [a \in Attempts |-> Outcome(a)]
OutcomeSpec == Abstract!Spec

(* An attempt whose finalizer reached the publication lock is decided: it  *)
(* is committed, or recorded as failed, when no process dies on the way    *)
(* (Faults = FALSE), however many finalizers and failures race for it.     *)
FinalizationDecides ==
    \A a \in Attempts :
        (\E w \in Workers : pc[w] = "pubLock" /\ at[w] = a)
            ~> (Committed(a) \/ status[a] = "FAILED")

(* "Failed framework attempts are rejected diagnostics, never              *)
(* accepted/latest publications" (docs/architecture/jobs-and-runtime.md).  *)
FailedNeverLatest == latest # NoAttempt => status[latest] # "FAILED"
=============================================================================
