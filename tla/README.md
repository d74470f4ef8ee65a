# A TLA+ verification project for appsec-review

appsec-review runs a graph of review jobs over a target and publishes what each
job found as evidence. Everything the runs leave behind is files: receipts,
pointers, markers, leases and journals, written by several processes (Dagster
step processes, a command-line driver, an operator) that may die, stall or be
retried at any point. This project models the parts of the program that keep
those files consistent, checks them with TLC on small instances and proves the
most important safety properties for every size with TLAPS.

Paths below are relative to `src/src/appsec_review/` unless they start with
`docs/`, which is `src/docs/`.

## 1. Inventory

| Part | State it keeps | Operations | What is hard | Here |
|---|---|---|---|---|
| Attempt lifecycle (`runtime/runner.py`, `launch.py`) | attempt directories: `claim.json`, `status.json`, unit receipts, `handoff.json`, `published.json`, `failure-finalized.json`; `latest.json`, `indices/accepted.json` | begin or reuse, execute unit, finalize, publish, fail | several processes per attempt, crash between any two writes, rollback, failure recorded from three places | `AttemptPublication` |
| Worker gate and repair (`runtime/repair.py`) | worker records, repair plans | `worker_scope`, `verify_publication`, plan, admit | admission against processes that may be dead | gate and repair in `GraphResume`, verification in `AttemptPublication` |
| Resource admission (`runtime/resources.py`) | `leases.json` under `admission.lock`; per-process `ActiveLease` | reserve, nested execution, track/remove container, track build, settle, reconcile, persistent leases | work outlives its owner; reviews with different budgets; lock timeouts | `ResourceAdmission` |
| Execution safety (`runtime/execution_safety.py`, `orchestration/dagster/fail_fast.py`) | guardian state and its journal, permits, the socket's queue | admit, check, process, finish, failure; cancel; exit | three kinds of actor, requests served after the client gave up, journal writes that fail | `AdmissionGuardian` |
| Units of an attempt (`runtime/runner.py`, `checkpoints.py`) | per unit `status.json`, `result.json`, `checkpoint.json`; per step `lifecycle.json` under `lifecycle.lock` | execute or reuse, complete or fail a step, publish and select checkpoints | units of a step that finish together, re-execution after others consumed the first result, death between result, receipt and checkpoint | `UnitExecution` |
| Resume planning and job graph (`runtime/resume.py`, `graph.py`, `dependencies.py`, `orchestration/topology.py`, `orchestration/dagster/adapter.py`) | `data/resume.lock`; otherwise reads pointers, `data/recovery/current.json` | plan, run the graph, dispatch, launch one job | a plan made job by job from pointers that other drivers move; a target that changes; a dispatch that takes no lock | `GraphResume` |
| Shared artifacts (`storage/shared.py`) | objects, an attempt's receipts, request directories | publish, look up, use again, freeze | death between temporary file and link, two attempts computing one request | `SharedArtifacts` |
| Run event log (`observability/events.py`) | `pipeline.jsonl` with sequence numbers under `pipeline.lock` | append, recover, read, follow | torn tail, concurrent writers, readers without the lock | `PipelineLog` |
| Job budget (`review/budget.py`) | `budget.json` under one lock: reservations, settlements, owners, active time | reserve, charge, settle, resume, pause, reconcile | late or repeated settlements, calls nobody reports, overlapping owners | `JobBudget` |
| Review teams and cells, model execution (`review/cells.py`, `review/teams.py`, `jobs/job_inference_security_review/teams.py`, `inference/execution.py`) | cell receipts, team slots | admit a team, run or reuse a cell, call, settle | threads that spend one budget, first-error stops in the middle of a call, death in flight | `ReviewCells`, `LaneAllocation` |
| Builder and engine services (`container_runtime/*`) | admission records of the native builder | admit, reconcile, cancel | reconciliation after restart | seen from `ResourceAdmission` as the work they run |
| Configuration, analysis jobs, review content, retrieval, reporting, signing, acquisition, MCP, CLI | content | pure functions and I/O | — | not modelled |

How they interact: a driver (`launch.py` or the Dagster ops) calls `begin`, one
`execute_or_reuse_unit` per unit and `finalize_attempt`, each inside a
`worker_scope`. A unit that needs containers or builds runs inside a lease of
the resource ledger; under Dagster every op is wrapped in an operation of the
admission guardian, whose stop is also looked at by the ledger's waiting loop.
A later job reads what `latest.json` names; which jobs run again is decided by
the resume planner, under the release and the repair that are admitted. Every
process mirrors its events into the run log. The inference review runs its
packages in teams of cells, whose model calls go through the job budget.

## 2. Modules

| Module | Role |
|---|---|
| `AttemptPublication` | the life of a job's attempts, one action per durable write |
| `AttemptOutcome` | abstract: what a reader of one attempt may see |
| `MCAttemptPublication` | symmetry for TLC |
| `AttemptPublicationProofs` | proofs about it, and that it implements `AttemptOutcome` |
| `ResourceAdmission` | the lease ledger and the work it charges for |
| `MCResourceAdmission` | two reviews, a service, budgets and concurrencies |
| `ResourceAdmissionProofs` | proofs about it |
| `AdmissionGuardian` | guardian thread, step processes, executor |
| `MCAdmissionGuardian` | symmetry for TLC |
| `AdmissionGuardianProofs` | proofs about it |
| `UnitExecution`, `MCUnitExecution` | the units, steps and checkpoints of one attempt |
| `UnitExecutionProofs` | proofs about it |
| `GraphResume`, `MCGraphResume` | drivers, plans, releases and repairs over a job graph |
| `GraphResumeProofs` | proofs about it |
| `PipelineLog`, `MCPipelineLog` | the run log, its writers and its readers |
| `PipelineLogProofs` | proofs about it |
| `SharedArtifacts`, `MCSharedArtifacts` | one request for a shared artifact, made by several attempts |
| `SharedArtifactsProofs` | proofs about it |
| `JobBudget`, `MCJobBudget` | the budget document, one transaction per operation |
| `ReviewCells`, `MCReviewCells` | the teams and cells that spend it; composes with `JobBudget` by extending it |
| `LaneAllocation`, `MCLaneAllocation` | the fair share of the two review lanes |
| `ReviewProofs` | proofs about the three, and that `ReviewCells` implements `JobBudget` |

Operators whose comment begins with "Mutation" or "Mutant" are plausible slips
of the definition after them; no specification uses them. Every property of a
listed run fails when its slip is put in place.

### AttemptPublication

A process (`w \in Workers`) is at one step of one operation: `pc[w]`, with the
attempt `at[w]`, the unit `un[w]` and the two pointers it saved before it
published. Files are variables named after what they hold: `status`,
`receipts` (the units whose `status.json` says SUCCEEDED; absent, RUNNING and
FAILED receipts are alike to every reader modelled here), `handoff`,
`published` (the status the marker hashed), `latest`, `index`, `finalized`.
`pubLock` and `failLock` are kernel locks: `Crash` drops them and leaves the
files. `lastCommit` and `torn` are history variables.

Correspondence of the actions: `BeginAttempt .. PreparationFails` are
`_begin_attempt`; `BeginUnit .. UnitFails` are `_execute_or_reuse_unit`
(between the SUCCEEDED receipt and the return lie the checkpoint, the task
event and the step marker, any of which may raise and turn the receipt to
FAILED: step `checkpoint`); `DriverFails` is `launch.complete` and the outer
handler of `execute_or_reuse_unit`; `BeginFinalize .. FinalizeRefused` are
`_finalize_attempt`; `AcquirePublication .. RollbackWriteRaises` are
`_publish_attempt` and `_publish_attempt_scoped`; `AcquireFailureRecord ..
FailureRecordRaises` are `_fail_attempt`.

Abstractions: the completion statuses SUCCEEDED and COMPLETED_WITH_GAPS are one
value, `"SUCCEEDED"` (both are accepted, and the marker binds either the same
way). The gate's further reasons to refuse (leases, Dagster dispatch receipts)
can only prevent `BeginAttempt`, so they are left out: the model allows more.
A pid is assumed to be told from its reuse by `process_identity`.

### ResourceAdmission

`ledger`, `holder`, `recorded`, `quarantined`, `finished` are the fields of
`leases.json`; every operation on it is one read-check-replace under
`admission.lock`, hence one action, and where the lock can time out there is an
action that does not write (`SettleTimeout`, `CleanupTimeout`). `world` is what
the engine or the builder really runs and is external: it changes by itself
(`ContainerExits`, `ContainerRemoved`), and `Remove` may or may not work.
`Crash` kills an owner with its threads, `Reboot` all of them with the work.

Abstractions: launching is synchronous (a container does not start after its
absence was confirmed); two reservations of one process are two owners;
`execution_lock` is re-entrant in the code and same-thread nesting is not
modelled; a lease id or a container name that nothing refers to any more is as
good as a new uuid.

### AdmissionGuardian

`thread` is where the server thread is and with which request; `inbox` is the
listening socket's queue, first in first out; `pc[c]` of a client is the
request it waits for or its place in `operation()` and `run_process()`; `exec`
is the executor's place in `execute`. `state` is the guardian's in memory,
`journal` its copy on disk: `PersistFails` leaves either the old or the new
copy. A client may give up on any request (`Unavailable`), after which its
request is still served. Not every connection is a step's: a peer of another
user, a message that is cut short or malformed, or one with another policy's
digest fails the guardian as well (`BadConnection`, which the constant
`Strangers` switches on), and when `accept()` itself raises the gate closes in
memory only and the thread is gone (`AcceptFails`). Either may come after the
executor looked at the gate for the last time; the run then ends without an
exception although the journal says STOPPED, and `SuccessAgrees` says just that.

Abstractions: one operation with at most one `run_process` per client; the
`cancellation` field of the journal is left out (no property tells its values
apart); Dagster (external) reports an event for every step that failed or died;
`run_launcher.terminate` eventually interrupts the executor, or does not.

### UnitExecution

A process is at one step of `_execute_or_reuse_unit` for the unit `un[w]`;
`run[w]` numbers its execution and stands for the timestamps and bytes that tell
two executions apart, so a digest is such a number. `outputs[w]` are the
dependency results it was given. A marker is written under `lifecycle.lock`
(`lifecycle`) and its event follows under the same lock as a second durable
write. `Raises` is an exception in the try block, `RaisesEarly` one before it;
`Crash` and `FailStepUnavailable` are the faults and put the step into the
history variable `lost`. `job` is the setting of the attempt: an ordinary job,
or a build job, whose receipts are used again only if its topology is admitted
and which therefore executes a returned unit again; and the steps at which its
processes may die.

Three weaknesses of the code show in the properties. TASK_STARTED is written
after the RUNNING receipt and before the try block: if it raises, only the attempt
is failed, and the receipt of a unit that is executed again stays RUNNING under
the completed marker (`Unannounced` in `StepAgrees`). A process that dies after
the last receipt of a step leaves its marker STARTED, and no later call repairs
it; `StepAgrees` therefore leaves out the steps in `lost`. And in a build job a
process that dies between the SUCCEEDED receipt and the checkpoint leaves a unit
that nothing protects: a later call uses the receipt, a dependant is made from
it, a further call, its topology now refused, executes the unit again, and its
second execution gets the checkpoint that the first never had. `ReuseClosed` and
`PublishedConsistent` except exactly those dependencies (`Unguarded`: of a build
job, and in the history variable `torn`, the units left with a SUCCEEDED receipt
and not its checkpoint). Without the exception TLC finds that behaviour, in 25
states, so the exception is not vacuous in the run.

Abstractions: a lock that is never free is one of the causes of `Raises`.

### GraphResume

Jobs are numbered in graph order, a handoff is named by its attempt number, and
`rec[j][a]` holds what a claim binds: the consumed handoffs (`up`), the target
snapshot, the implementation it was measured from (`rel`), the release and the
repair it names (`bind`, `rep`). `Decision` is the planner's verdict on a
job, made in `PlanJob` one job at a time while other drivers move. `GraphStep`,
`DispatchStep` and `LaunchStep` are the three kinds of driver; only graph runners
take `resume.lock`. `Split` is the deferred fingerprint: jobs up to it are
planned and run before the target is known, the rest afterwards
(`FingerprintTarget`). `Deploy` installs a release that changes some jobs,
`AdmitRepair` plans and binds a repair, `VerifyStop` records a dispatch's stop
receipt, `Gate` is the refusal of a replacement attempt while work may be left.

An attempt is prepared in three steps: `BeginAttempt` passes the gate, checks the
release binding and makes the directory (quality `"bare"`), `WriteClaim` reads the
deployed release again and writes the claim (`"claimed"`, or a failed attempt when
its handoffs disagree on the target), `StartAttempt` checks the claim against the
release and writes the status. A deployment may fall between any two of them, so
a claim can be of the new implementation under the old binding. Its units do run,
since `_context_from_claim` compares the claim with what is deployed; its
publication is refused, since `validate_claim_release` compares it with the
release the claim names (`Measured`). A repair cannot fall into a preparation:
the worker record of the preparation is active throughout, and `Blocked`.

Abstractions: the publication of an attempt is one step (`AttemptPublication`
takes it apart, without releases). What the claim takes from its caller and from
the binding is put into `rec` by `BeginAttempt` already, as neither can change
before `WriteClaim`. A Dagster re-execution that still has
claims of its own without a stop receipt is refused after its first replaced
job, as in the code. The successor path, deployment and input identities and
managed custody across runs are left out.

### PipelineLog

The file is a sequence of half records; the second half carries the newline.
`Acquire .. Return` are `PipelineLog.write`, with `Truncate` cutting the tail a
dead writer left; `Abandon` is a death or an exception at any step. A client
reads in two calls (`BeginFollow`/`BeginRead`, then the end of the page), without
the lock, as the code does. The records of a file are read off at its newlines,
by the number of the line (`Line`, `Records`).

When a torn record was cut off and written over between the two calls, the second
goes on inside another record. Lines differ in length, so it may be any of those
written since (`Resume`), and the joined line begins with one record and ends with
another. The code asks of a line no more than JSON with the expected number, and
whether a mix is that depends on where the first record broke off; so the model
lets `follow` and `read` accept such a line or raise (`MayAccept`, `Valid`).
`seen` therefore holds the events a consumed line begins and ends with. The anchor
of the new cursor is a digest of bytes that the stream may still hold from the
first call; with a mix it may not be the file's, and then the next `follow`
resets the cursor and its consumer's state.

Abstractions: a read takes at most two calls over one torn record, so a line mixes
two records; a third would be of the same kind. The check of the page's byte bound
is left out (`MaxPage` bounds the records).

### SharedArtifacts

One request, a few attempts, several processes per attempt. An immutable file
is published as temporary file, exclusive link and removal of the temporary
file; a death in between leaves it (`stale`). `LookupOwn .. ListRaises` are
`lookup`, `VerifyReceipt` and `SlotConflict` the retry that finds its slot taken,
`Freeze` collects an attempt's receipts for its handoff. Objects are published in one step: they are
named by their content and their directory is not listed here.

### JobBudget and ReviewCells

`ledger` is `budget.json`, and every public operation of `review/budget.py` is
one action of read, change, validate and replace. Known spend, live reservations
and liabilities for calls without a report are the sums `KnownTokens`,
`ReservedTokens`, `LiabilityTokens`. `ReviewCells` puts the callers on top: a
package's team is admitted and takes a slot, each cell's thread runs its turns
and attempts, each call reserves, dispatches, is answered and settles. An owner
is one invocation of a cell, so a rerun has new owners and begins with no
answer. A receipt that succeeded is `"valid"`; a rerun may find any of its
package's receipts `"stale"` (of another version of executor or validators, or
with a result they now refuse), and `reuse_or_run` then runs the cell again.
`spent` is a history variable of what the provider really spent, up to
the maximum of each request and beyond it as far as it was reported. `setting`
is the configuration of the run: slots, turns, attempts, first-error safety,
faults, reruns, clock.

Abstractions: input and output tokens, which the code treats alike, are one
dimension; every package has a process of its own; its cells run in any order
(the code runs them in batches); the in-memory memo of results is left out; a
rerun counts its package again, as in the code. A provider that spends more than
it was allowed and does not report it is beyond what the budget can know
(`docs/architecture/bounded-worker-execution.md:101`). Queries of a cell that
was interrupted are never charged; the code has no place that would. Nothing in
the program calls `reconcile_owner` yet, only its tests do; `Reconcile` is the
caller its docstring describes, one that knows that the owner's process is gone.

### LaneAllocation

`Launch` is one decision of `FairShareScheduler`, `Reallocate` the second round
of `run_lane` when more packages were allocated than claims may be active, and
`Limit` the share of the claim cap a package receives. Shares are exact
fractions; floating-point rounding is left out.

## 3. Runs

| Run | Checks | Instance |
|---|---|---|
| `attempt_publication` | `PointersFollowCommit`, `MarkerIsLast`, `FailureRecordedOnce`, `FailedIsFinal`; implements `AttemptOutcome` | 2 processes, 1 unit, 2 attempts, index, faults |
| `failed_never_latest` | a sentence of the docs, violated | 1 process, 2 attempts |
| `resource_admission` | `WithinBudget`, `WorkCharged`, `LeaseIntact`, `NestedInside`, `BuildsBounded` | 2 reviews, 1 service, 3 leases, 3 launchers, 1 container, 2 builds |
| `admission_guardian` | `ProcessAccounted`, `CompletedClean`, `SuccessAgrees`, `TerminatedOnce`, `FirstErrorKept` | 2 step processes, strangers' connections, a failing `accept()`, 1 failing journal write |
| `guardian_stops` | `FailureStopsRun`, `StopKills` (liveness) | 2 step processes, 1 with a local process |
| `unit_execution` | `StepAgrees`, `StepEventsOnce`, `ReuseClosed`, `PublishedConsistent` | 2 processes, 3 units in 2 steps, 2 executions of each; an ordinary job whose processes die anywhere and a build job whose processes die between receipt and checkpoint |
| `pipeline_log` | `LogValid`, `MirroredOnce`, `FollowerPrefix`, `NothingLost` | 2 writers with 2 events, a follower, a reader |
| `shared_artifacts` | `ReceiptsGrounded`, `OneAnswer`, `ComputedIsListed` | 2 processes, 3 attempts, 2 results, 2 faults |
| `graph_resume` | `CompletedConsistent`, `OneTarget`, `ForcedFresh` | 3 jobs of which the second hands nothing on, 2 graph runners and a dispatch that may die, a target that changes once |
| `graph_repair` | `RepairHonoured`, `WorkersCurrent` | 2 jobs of which the first is planned before the target is known, a graph runner, a dispatch, a container launch, a deployment, a repair |
| `review_cells` | `SpendCovered`, `LaunchBound`, `LedgerValid`, `NotPaidAgain` | 2 packages of a cell each, in three settings: deaths and a rerun; first-error stops over two turns; retries and overlapping owners against the clock |
| `lane_allocation` | `WorkConserving`, `ShareHonoured`, `ClaimsDealt` | every share in quarters, budgets to 8, queues and claims to 4 |

The remaining configurations answer questions of their own and are run by hand,
`tlc -config <name>.cfg <module>`:

| Configuration | Module | Checks | Outcome |
|---|---|---|---|
| `AttemptDecided` | `MCAttemptPublication` | `TypeOK`, `FinalizationDecides` (liveness) | holds, 2 838 states |
| `NestedAlone` | `MCResourceAdmission` | a sentence of the docs | violated |
| `GuardianGate` | `MCAdmissionGuardian` | `TypeOK`, `NoGrantAfterStop` | holds, 6 580 332 |
| `UnitSteps` | `MCUnitExecution` | the unit properties with any gap disposition, `StepsDecided` (liveness) | holds, 1 336 960 |
| `LogFollowed` | `MCPipelineLog` | `TypeOK`, `FollowerCatchesUp` (liveness) | holds, 10 862 |
| `ReadersNeverRaise` | `MCPipelineLog` | a docstring's promise | violated |
| `ArtifactsFrozen` | `MCSharedArtifacts` | `TypeOK`, `FrozenStable` | holds, 2 857 301 |
| `LookupNeverRefused` | `MCSharedArtifacts` | a docstring's promise | violated |
| `GraphForced` | `MCGraphResume` | `TypeOK`, `ForcedFresh` with two graph runners and four jobs | holds, 1 869 934 |
| `GraphRepairFaults` | `MCGraphResume` | `RepairHonoured`, `WorkersCurrent` with two graph runners that may die | holds, 7 127 219 |
| `DriversEnd` | `MCGraphResume` | `DriversEnd` (liveness) | holds, 193 863 |
| `GapsSurviveReuse` | `MCGraphResume` | a sentence of the docs | violated |
| `ForcedDispatchAdmitted` | `MCGraphResume` | a sentence of the docs | violated |
| `JobBudget` | `MCJobBudget` | `BudgetTypeOK`, `LaunchBound`, `ExhaustedIsActual`, `AppendOnly`: three owners, overruns, replays, direct charges | holds, 223 824 |
| `BudgetTime` | `MCJobBudget` | `LedgerValid`, `AppendOnly`: three overlapping owners and a clock | holds, 887 146 |
| `ReviewStopped` | `MCReviewCells` | `TypeOK`, `SpendCovered`, `EndedIsClosed` with providers that report overruns | holds, 313 511 |
| `TeamsEnd` | `MCReviewCells` | `TeamsEnd`, `ReservationsSettle` (liveness) | holds, 22 128 |

Bounds. `MaxAttempt` stands for the code's 9999; two attempts are the least in
which a replacement publishes over an earlier one, and in which a rollback has
something to restore. Two processes are the least that race for the locks, and
the locks make a third only wait. One unit suffices in `AttemptPublication`,
since finalization only asks whether all succeeded; `UnitExecution` has three,
two that finish one step together and one that depends on the first, and two
executions of each, the least with a consumer of a replaced result. In the ledger
of leases three let a retained one coexist with two live ones; the budgets are
chosen so that different leases are the tightest in different resources, and the
concurrencies so that the limits of the two builders differ. `MaxFaults` bounds
failing writes and deaths; one failing journal write separates memory from disk
at every write, two faults let a retry fail as well. The job graph of
`graph_resume` has a diamond: the third job receives the first one's handoff
directly and depends on it through the second. For a repair two jobs suffice, one
planned before the target is known and one that depends on it; `GraphRepairFaults`
adds a graph runner that may die. The largest listed runs are `graph_resume`
(6 140 585 states) and `unit_execution` (3 601 145); in the latter the build job's
deaths are those at the checkpoint, the only ones that the properties except, and
`UnitSteps` has them nowhere.
The token ceiling of `review_cells` is reached by two calls and a liability, so
admission decides between the cells. Where a specification is symmetric under
the permutation of processes TLC uses that; among the drivers only graph runners
and dispatches are interchangeable.

Deadlock is checked for the resource ledger, where it finds nothing by
construction, as the machine may reboot in any state. In the other models it is
not: an
attempt that is published or failed, a run that has ended, a log without
writers, a driver that is done may simply stop.

Fairness. `AttemptDecided`: a process that runs keeps running (weak fairness of
its steps, none for beginning an operation), and a waiter polls its lock every
ten milliseconds, so it gets a lock that keeps becoming free (strong fairness of
the three acquisitions); crashes and lock timeouts are switched off by
`Faults = FALSE`, since a process that dies decides nothing. `guardian_stops`:
weak fairness of the executor and of every step process, because each of their
waits has a timeout. Nothing is assumed of the server thread, of the deadline of
a local process or of its exit. Strangers' connections are switched off there:
all they do is to close the gate, from which `StopKills` starts and with which
`FailureStopsRun` ends. `UnitSteps`, `DriversEnd` and `TeamsEnd`: weak
fairness of the steps of a live process or thread, of the driver that starts what
it can, and of an answer, which the call's timeout bounds. `LogFollowed`: the
follower keeps polling; nothing is assumed of the writers.

## 4. What the runs show

Publication. A failure, once recorded, survives every race with a finalizer;
pointers come back exactly when a publication raises; the marker is the last
write; the failure is logged once however many handlers record it; and only the
publisher that linked a handoff can commit it, so a retry after a crash ends in
a failed attempt, not in a second publication.

Units. Once nobody works on a step its marker agrees with the receipts,
whichever of two units was last and whatever was raised after a receipt; its
events are in the run log at most once across crashes and repeated failures.
What is published, and what a fresh attempt would select from checkpoints, was
made from exactly the dependency results that go with it. Two exceptions are the
code's and are described in section 2: the receipt of a unit whose repetition was
stopped by a failing TASK_STARTED stays RUNNING, in a failed attempt; and in a
build job a unit whose process died before its checkpoint can be replaced after
others consumed it.

Ledger of leases. The leases together respect the limits of each of them; work
that runs is always charged to a lease of the ledger; a live owner's lease is
never reclaimed; nested executions end before their lease does.

Guardian. Every local process is covered by a permit in the journal on disk; a
COMPLETED journal means that every step succeeded and nothing is left; so does
the executor's success (this depends on the socket's queue being first in, first
out), and its journal says COMPLETED unless the guardian itself failed after the
executor's last look at the gate; the run is terminated at most once; a failed or
dead step closes the gate, and a closed gate ends every local process even when
the guardian's thread never answers again.

Drivers. A driver that completes did so with handoffs that consumed each other
and one target, although plans are read job by job and other drivers publish
meanwhile. A driver that starts after a repair completes only with attempts that
honour it. No unit executes an implementation older than the bound one; a newer
one does, if a deployment falls between the check of the binding and the claim,
and what it makes is not published. A forced job invalidates what depends on it
even if it hands nothing on.

Log and artifacts. Sequence numbers stay gapless, no complete record is cut, and
a follower sees a prefix of the log without loss or repetition, unless it consumed
a line of two records: that line begins with an event whose record was cut off,
and the follower may have passed other records with it. A receipt always
has its object, an attempt has one answer for a request, and a computation that
returned is found by later lookups.

Budget. What the provider spent is always held, as known spend, reservation or
liability, through deaths, cancellations and either form of reconciliation;
reservations never exceed the ceilings; the document always passes its own
validation, also while owners overlap and the clock moves; a cell is paid for again
only if its receipt was refused when it was revalidated. The two lanes
leave no budget unused while one of them waits, each keeps its share up to one
package, and the claim cap is dealt out exactly although two processes deal it.

Six sentences of the documentation or of docstrings do not hold of the code:

* `docs/architecture/jobs-and-runtime.md:15` — "Failed framework attempts are
  rejected diagnostics, never accepted/latest publications." After
  `published.json` is written, leaving the operation span and the publication
  scope writes events; if that raises, `_finalize_attempt` records the attempt
  it has just published as FAILED, and `latest.json` still names it
  (`failed_never_latest`). `verify_publication` rejects such an attempt, since
  the marker no longer matches the status.
* `docs/operations/performance-assurance.md:308` — "concurrent nested launches
  serialize rather than each spending its parent's allocation." A removal that
  cannot be confirmed quarantines the lease and releases `execution_lock`; the
  next nested launch looks only at `closed`, so it may run beside the first
  (`NestedAlone.cfg`).
* `observability/events.py:139` — "One crash-recovering, process-safe JSONL
  stream for an application run" — and line 229 — "never advance past a torn or
  invalid complete record". `read` and `follow` take no lock: a reader whose two
  read calls fall on both sides of a recovery holds half of the old record
  followed by the end of a new one. It raises "malformed complete pipeline log
  record" over a log that is valid (`ReadersNeverRaise.cfg`), or accepts a record
  that nobody wrote if the halves happen to be JSON with the expected number.
* `storage/shared.py:3` — "Request directories contain immutable references to
  *computed* receipts". The temporary file of such a reference is made in the
  same directory, and `lookup` raises on any other entry: it is refused while
  another attempt publishes, and for ever once a process died before it removed
  the temporary file (`LookupNeverRefused.cfg`).
* `docs/operations/recovery-repair.md:102` — "`COMPLETED_WITH_GAPS` survives warm
  reuse". On REUSE the graph runner keeps the handoff of its plan but reads the
  completion status from `latest.json` again (`runtime/graph.py:204`); a dispatch
  that publishes in between turns a graph that reuses a job with gaps into
  SUCCEEDED (`GapsSurviveReuse.cfg`).
* `docs/operations/recovery-repair.md:102` — "Dagster also accepts the
  `appsec/force_from` tag for every job in its enabled graph." The gate counts
  every Dagster claim of the run without a stop receipt, the asking dispatch's
  own included; a forced dispatch over a finished run makes its first
  replacement attempt and is refused the second for that very claim
  (`ForcedDispatchAdmitted.cfg`).

## 5. Proofs

`AttemptPublicationProofs` proves, for any sets of processes and units and any
number of attempts, `TypeOK`, `FailedIsFinal`, `MarkerIsLast`,
`FailureRecordedOnce`, `PointersFollowCommit` and the refinement of
`AttemptOutcome`. None of these is inductive alone. The invariant has four
layers, each inductive relative to the ones before:

1. `Typed`: types, and a process at work is at work on an attempt (and a unit);
2. `Owned`: an attempt has one preparer, claims exist only for attempts that
   were made, and a process in a locked region holds the locks of that region;
3. `Decided`: what a process in a locked region knows of the files (the
   publisher that its attempt is not FAILED and its handoff linked, the recorder
   that FAILED is written before the event), with `MarkerIsLast` and
   `FailureRecordedOnce`;
4. `Pointed`: the pointers at each step of a publication in terms of the saved
   ones and of the last commit, with `PointersFollowCommit`.

The refinement adds `Unmarked` (a publisher before its marker has none).

`ResourceAdmissionProofs` proves `TypeOK`, `WorkCharged`, `LeaseIntact`,
`NestedInside`, `WithinBudget` and `BuildsBounded` for any owners, services,
launchers, work, demands and budgets. The strengthening (`Inv`) says that an owner has
one lease, that a launcher at work has its item recorded in the lease it
inherited, and that an item is recorded at most once. On top of it `Capacity`
says that the ledger and its builds are finite, that every lease has a holder,
and that the sum of what the holders reserved is within every holder's limit.
The sum is a fold over a finite set, so its laws are proved first: the fold is
defined on every finite set, does not depend on the order, and grows by the
value of an added element (`TotalExists`, `TotalTakeOut`, `TotalAdd`). These are
inductions, carried out by taking a smallest counterexample (`SmallestSubset`)
since the library's induction rules cannot be instantiated.

`PipelineLogProofs` proves `TypeOK`, `LogValid`, `MirroredOnce`,
`FollowerPrefix` and the action property `NothingLost` for any writers,
followers, readers, number of events and page size. The properties say nothing
of the middle of a write or of a page, so none of them is inductive. The
invariant `LogInv` has three parts:

1. The file (`FileOK`): complete lines of two pieces and perhaps the beginning of
   one more (`Paired`), the complete ones numbered by their place and of
   distinct events. Then the k-th newline is piece `2 * k`, which turns the
   counting in `Line` and `Records` into plain indexing (`PairedRecords`).
2. The writers (`WriterOK`): at most the holder of the lock is between two of its
   file operations, and only it knows anything of the file: where the complete
   lines end, the next number, whether the last line is torn and whose it is. Its
   event has no record until its last piece is written; an abandoned write
   leaves the file to the next holder, which looks again.
3. The clients (`ClientOK`): what was consumed is the beginning of the records, or
   mixes that begin with a dead event (`LineOK`); the offset is the end of a line
   (`Placed`); and what the first read call of a page gave still stands up to its
   last newline, with at most the beginning of one record behind it (`FitsAt`).

Every step keeps the complete lines where they are (`Kept`); this is
`NothingLost`, and all that a reader without a lock can rely on. The beginning
behind them is the file's last line, or its write was given up (`TornOK`): such an
event is `Dead`, it has no record and never gets one, which is what makes a mix
recognizable afterwards. A page is then either straight lines of the file
(`Straight`) or lines of the file around one mix (`SplicePaired`, `PageShape`),
and a straight line that is accepted has the number of its place
(`AcceptedNumber`), so a follower without a mix has left nothing out.

`SharedArtifactsProofs` proves `TypeOK`, `ReceiptsGrounded`, `OneAnswer`,
`ComputedIsListed` and the action property `FrozenStable` for any attempts,
processes and contents. The argument is that the store only grows: a file once
linked stays, with its content. The invariant says so from each process's point
of view (`Local`): the slot it chose is its own, what it is about to publish
rests on objects that are there, and what it found in a slot is what the slot
still holds; `AnswersHeld` carries this to the answers that were returned.

`UnitExecutionProofs` proves `TypeOK`, `StepEventsOnce`, `StepAgrees`,
`ReuseClosed` and `PublishedConsistent` for any units, steps and processes. The
difficulty is that a unit may be executed more than once. The key fact is that
such a repetition is doomed: an execution of a unit that already has a
checkpoint meets it, conflicts and can only fail its step and the attempt, unless
it is stopped before its try block and leaves the receipt RUNNING (`Unmarked`).
Hence
a checkpoint is made once, a completion record and a success marker rest on
checkpoints that stay (`CheckpointHolds`, `CompletionHolds`, `NotLeftStarted`,
`FailureHolds`), and the results a process was handed are the ones recorded
(`DepsReturned`). In an ordinary job the receipt prevents the second execution
(`OrdinaryInv`). In a build job the checkpoint has to: a receipt that answers for
its result is backed by the checkpoint, or its writer has still to publish it or
to take the receipt back (`Backed`), so what was read of a unit is what its
checkpoint names, or the unit's result was replaced by one that is never accepted
(`ReadBacked`). A death between receipt and checkpoint breaks that, and `torn` is
the set of the units it was broken for. All five theorems hold of every setting,
deaths at any step of a build job included.

`AdmissionGuardianProofs` proves `TypeOK`, `ProcessAccounted`, `CompletedClean`,
`SuccessAgrees`, `TerminatedOnce`, the action property `FirstErrorKept`, and that
no permit is granted once the guardian has stopped, for any clients. The
strengthening follows one request through its life: it is in the socket's queue
once (`Queued`), or with the thread (`Taken`), or answered (`Answered`), also
when its client has given up. Permits in the journal then match clients inside
an operation (`PermitHeld`, `Released`), and the executor's last steps
(`LastSteps`) find the queue in a known order. After them only the guardian
itself can fail, so the error on disk is the controller's or none.

`GraphResumeProofs` proves `CompletedConsistent`, `OneTarget`, `ForcedFresh`,
`RepairHonoured`, `WorkersCurrent` and `TypeOK` for any graph, split, releases,
repairs and drivers. What a claim binds never changes (`Kept`), so everything a
driver decided from claims stays true while other drivers move; what can move is
the release and the pointers. A release that the run is not bound to gives what
it changes identities that no release named by a claim has (`ReleasesOK`), so an
accepted attempt, whose claim fits the release it names (`Measured`), is of the
bound implementation or older. A claim in preparation only names its inputs
(`Named`); once it is written it agrees with them on the target (`Agreed`). Per driver the
invariant says what it knows at each step: the plan it started from, the
pointers it chose, the work it does (`Runs`: of the bound implementation, or for a
claim split by a deployment of a newer one), that its inputs fit, that a forced job was
made by it, that a repair was honoured. `Done` (a conductor that has ended has
finished every job) is needed for the claims about published results. The lemma
`ReceivedIsProjection` shows that the handoffs a dispatch collected from its
predecessors agree with the projection of the graph's own choice; the lemmas on
`Ancestors` replace its recursion by what the steps need of it.

`ReviewProofs` proves about `JobBudget`, `ReviewCells` and `LaneAllocation`, for
any cells, packages, settings, ceilings, reports, shares and queues.

1. The document. Every operation is a transaction: it opens the document, changes
   it and saves it, and the change only adds (`Transacts`, `Grows`). The invariant
   (`Sound`) gives each owner's part its meaning: a closed owner has no live call,
   an interval is stopped when its owner is closed, and the active time is the
   size of the union of the owners' intervals (`Times`), which is what makes the
   arithmetic of `_close_execution` right. From it follow `BudgetTypeOK`,
   `LedgerValid`, and, as an action property, `AppendOnly`.
2. The spend. The measure is what the calls count for up to their maxima
   (`CostOf`): a reservation raises its sum by what it was admitted for, a
   settlement or a reconciliation only lowers it, so the sum stays below the
   ceiling (`LaunchesFunded`) although what providers report may overrun it. That gives
   `LaunchBound`; `ExhaustedIsActual` rests on the spend never shrinking
   (`Actual`). The laws of sums over finite sets are proved as for the admission
   ledger, with those for changing, comparing and mapping a sum added
   (`TotalChange`, `TotalLeq`, `TotalImage`).
3. The workers. `WorkersImplementBudget` shows that `ReviewCells` implements
   `JobBudget`, so the results above hold of any interleaving of teams and cells.
   `CellsInv` ties the place of a cell to what its owner has in the document
   (`At`): nothing before it starts, the last call live between reservation and
   settlement, everything settled between calls. Without it `NotPaidAgain` and
   `EndedIsClosed` are not inductive. For `SpendCovered` the invariant `Covered`
   adds up what the settled calls are worth and what is due of the open ones
   (`Due`: nothing before the answer, then the report up to the maximum, and the
   maximum once the process that would have settled it is dead); what is due is
   within the live reservations. `LoopsInv` bounds turns, attempts and queries
   together, and the teams by the slots, for `TypeOK`.
4. The lanes: `LaneTypeOK`, `WorkConserving`, `WithinShare`, `ShareHonoured` and
   `ClaimsDealt`. `WithinShare` (while the other lane waits, a lane is less than
   one launch beyond its share) is the strengthening: `ShareHonoured` speaks of
   the end of the allocation only, and follows because what one lane did not get
   beyond its share the other must have got of its own. `ClaimsDealt` adds up
   the limits of a lane's packages, with the laws of sums above: the quotient for
   each and one more for those the remainder reaches (`DealtSum`). The hunt lane
   counts on from the lead lane's packages, so the two parts of the remainder
   make the whole.

Assumptions: those stated with the constants (the sentinels are distinct from
the values, also from the names of units; the bounds are naturals, the number of
target snapshots at least one; the budgets are vectors of naturals; there are
finitely many cells, and their calls are no replays). No theorem has a hypothesis
beyond them.

Only model-checked: the liveness properties (`FailureStopsRun`, `StopKills`,
`FinalizationDecides`, `StepsDecided`, `FollowerCatchesUp`, `DriversEnd`,
`TeamsEnd`, `ReservationsSettle`), since fairness is out of the prover's reach.
Every invariant and every other action property of a listed run is proved.

## 6. Not modelled, and why

The analysis jobs, rule packs, guidance, retrieval, reporting, acquisition and
signing are by far the larger part of the source. They compute content from
files and external tools, each behind the unit interface that `UnitExecution`
keeps; they share no state of their own between processes, and a model of them
would repeat their code. Configuration loading is validation. The engine broker
and the image builder appear as the work `ResourceAdmission` charges for; their
wire protocol is mostly validation. Left out of parts that are modelled: the
archived rejection package of a failed attempt, named publications and legacy
receipts of shared artifacts, the import of budgets of earlier releases, the
successor path of repair, and build workspaces.

## 7. Plan

1. Composition of `UnitExecution` with `AttemptPublication`'s receipts.
2. Builder admission and its reconciliation; named publications of shared
   artifacts; the successor path of repair.
