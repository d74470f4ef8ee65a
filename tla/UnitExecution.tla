---------------------------- MODULE UnitExecution ----------------------------
(***************************************************************************)
(* The units of one claimed attempt: JobRunner._execute_or_reuse_unit with *)
(* the step lifecycle marker (_start_step, _complete_step, _fail_step) of  *)
(* runtime/runner.py, the unit checkpoint of runtime/checkpoints.py, and   *)
(* the selection of the checkpoints a fresh attempt may use again.         *)
(*                                                                         *)
(* Every execution of a unit has a number: it stands for the timestamps    *)
(* and the bytes that tell the receipt and the result of one execution     *)
(* from those of another, so two files are equal when their numbers are.   *)
(* A marker is written under the step's lifecycle.lock; the event follows  *)
(* the marker under the same lock, as a separate durable write.            *)
(***************************************************************************)
EXTENDS Naturals

CONSTANTS
    Workers,    \* processes that execute unit operations
    Units,      \* units of the job
    StepNames,  \* steps of the job
    Deps,       \* per unit: the units it declares as dependencies
    StepOf,     \* per unit: its step
    MaxRuns,    \* bound on executions of one unit
    Gaps,       \* pairs of a unit and whether its result carries a gap disposition
    Settings,   \* the jobs considered: [build, faults], see BuildJob and MayDie
    NoWorker    \* a lock nobody holds

ASSUME UnitWorkersAssumption == NoWorker \notin Workers
ASSUME UnitNamesAssumption == "none" \notin Units
ASSUME GraphAssumption ==
    /\ Deps \in [Units -> SUBSET Units]
    /\ StepOf \in [Units -> StepNames]
ASSUME MaxRunsAssumption == MaxRuns \in Nat
ASSUME GapsAssumption == Gaps \subseteq Units \X BOOLEAN
ASSUME SettingsAssumption == Settings \subseteq [build : BOOLEAN, faults : SUBSET STRING]

VARIABLES
    job,        \* the setting of the attempt's job, which never changes
    runs,       \* per unit: executions so far
    receipt,    \* per unit: status.json
    result,     \* per unit: result.json and the inputs it was made from
    checkpoint, \* per unit: checkpoint.json
    marker,     \* per step: lifecycle.json
    lifecycle,  \* per step: holder of lifecycle.lock
    events,     \* per step: how often each STEP_ event is in the run log
    failed,     \* the attempt is recorded FAILED
    returned,   \* units whose operation returned to the driver
    refused,    \* units whose operation raised to the driver
    lost,       \* history: steps a process died in or could not record a failure of
    torn,       \* history: units left with a SUCCEEDED receipt and not its checkpoint
    pc,         \* per worker: next step of its operation
    un,         \* per worker: its unit
    run,        \* per worker: its execution number
    outputs     \* per worker: dependency results it was given

attempt == <<job, runs, receipt, result, checkpoint>>
steps == <<marker, lifecycle, events>>
driver == <<failed, returned, refused, lost, torn>>
locals == <<pc, un, run, outputs>>
vars == <<job, runs, receipt, result, checkpoint, marker, lifecycle, events,
          failed, returned, refused, lost, torn, pc, un, run, outputs>>

(* A unit's receipt is used again only if its topology is admitted.        *)
BuildJob == job.build
(* The process may die at its step, or the failure not be recorded there.  *)
MayDie(w) == pc[w] \in job.faults

Runs == 0..MaxRuns
NoUnit == "none"
Inputs == [Units -> Runs]
NoInputs == [u \in Units |-> 0]

Receipts == [st : {"absent", "RUNNING", "SUCCEEDED", "FAILED"}, run : Runs, res : Runs]
Results == [run : Runs, gap : BOOLEAN, from : Inputs]
Checkpoints == [run : Runs, res : Runs]
NoCheckpoint == [run |-> 0, res |-> 0]
Success == {"SUCCEEDED", "COMPLETED_WITH_GAPS"}
Markers == {"absent", "STARTED", "FAILED"} \cup Success
StepEvents == {"STARTED", "SUCCEEDED", "COMPLETED_WITH_GAPS", "FAILED"}

(* Steps inside the try block of _execute_or_reuse_unit.                   *)
TrySteps == {"handler", "receipt", "checkpoint", "completeStep", "completeEvent"}
(* Steps before it: an exception there reaches only the outer handler.     *)
EarlySteps == {"startStep", "startEvent", "running", "taskStarted"}
FailureSteps == {"failReceipt", "failStep", "failEvent", "failAttempt"}
(* Steps that hold the lifecycle lock of the worker's step.                *)
LockedSteps == {"startEvent", "completeEvent", "failEvent"}
Steps == {"idle", "return"} \cup EarlySteps \cup TrySteps \cup FailureSteps

TypeOK ==
    /\ job \in Settings
    /\ runs \in [Units -> Runs]
    /\ receipt \in [Units -> Receipts]
    /\ result \in [Units -> Results]
    /\ checkpoint \in [Units -> Checkpoints]
    /\ marker \in [StepNames -> Markers]
    /\ lifecycle \in [StepNames -> Workers \cup {NoWorker}]
    /\ events \in [StepNames -> [StepEvents -> Nat]]
    /\ failed \in BOOLEAN
    /\ returned \subseteq Units
    /\ refused \subseteq Units
    /\ lost \subseteq StepNames
    /\ torn \subseteq Units
    /\ pc \in [Workers -> Steps]
    /\ un \in [Workers -> Units \cup {NoUnit}]
    /\ run \in [Workers -> Runs]
    /\ outputs \in [Workers -> Inputs]

Init ==
    /\ job \in Settings
    /\ runs = [u \in Units |-> 0]
    /\ receipt = [u \in Units |-> [st |-> "absent", run |-> 0, res |-> 0]]
    /\ result = [u \in Units |-> [run |-> 0, gap |-> FALSE, from |-> NoInputs]]
    /\ checkpoint = [u \in Units |-> NoCheckpoint]
    /\ marker = [s \in StepNames |-> "absent"]
    /\ lifecycle = [s \in StepNames |-> NoWorker]
    /\ events = [s \in StepNames |-> [e \in StepEvents |-> 0]]
    /\ failed = FALSE
    /\ returned = {}
    /\ refused = {}
    /\ lost = {}
    /\ torn = {}
    /\ pc = [w \in Workers |-> "idle"]
    /\ un = [w \in Workers |-> NoUnit]
    /\ run = [w \in Workers |-> 0]
    /\ outputs = [w \in Workers |-> NoInputs]

-----------------------------------------------------------------------------
(* Reading receipts. *)

(* The transitive closure of a unit's declared dependencies.               *)
RequiredOutputs(u) ==
    {d \in Units : \A S \in SUBSET Units :
        (Deps[u] \subseteq S /\ \A x \in S : Deps[x] \subseteq S) => d \in S}

UnitsOf(s) == {u \in Units : StepOf[u] = s}

(* A SUCCEEDED receipt whose digest is that of the current result.         *)
Complete(u) ==
    /\ receipt[u].st = "SUCCEEDED"
    /\ result[u].run # 0
    /\ receipt[u].res = result[u].run

Succeeded(u) == receipt[u].st = "SUCCEEDED" /\ result[u].run # 0

-----------------------------------------------------------------------------
(* Worker bookkeeping. *)

Step(w) == StepOf[un[w]]
Goto(w, step) == pc' = [pc EXCEPT ![w] = step]

Finish(w) ==
    /\ Goto(w, "idle")
    /\ un' = [un EXCEPT ![w] = NoUnit]
    /\ run' = [run EXCEPT ![w] = 0]
    /\ outputs' = [outputs EXCEPT ![w] = NoInputs]

Unlocked(w) == [s \in StepNames |-> IF lifecycle[s] = w THEN NoWorker ELSE lifecycle[s]]
Logged(s, e) == [events EXCEPT ![s][e] = @ + 1]

(* Mutation: a unit is started before the units it depends on returned.    *)
CallableEarly(w, u) ==
    /\ pc[w] = "idle"
    /\ u \notin refused
    /\ u \in returned \/ \A v \in Workers : un[v] # u

(* The driver starts a unit once the operations of its dependencies have   *)
(* returned, and one operation per unit; a unit that has returned may be   *)
(* asked for again by several operations.                                  *)
Callable(w, u) ==
    /\ pc[w] = "idle"
    /\ Deps[u] \subseteq returned
    /\ u \notin refused
    /\ u \in returned \/ \A v \in Workers : un[v] # u

-----------------------------------------------------------------------------
(* _execute_or_reuse_unit up to the handler. *)

(* The unit's own receipt answers: TASK_REUSED.                            *)
ReuseReceipt(w, u) ==
    /\ Callable(w, u)
    /\ Complete(u)
    /\ u \notin returned
    /\ returned' = returned \cup {u}
    /\ UNCHANGED <<attempt, steps, failed, refused, lost, torn, locals>>

(* Every required result is read and bound to its receipt.                 *)
BeginUnit(w, u) ==
    /\ Callable(w, u)
    /\ Complete(u) => BuildJob
    /\ \A d \in RequiredOutputs(u) : Complete(d)
    /\ runs[u] < MaxRuns
    /\ runs' = [runs EXCEPT ![u] = @ + 1]
    /\ un' = [un EXCEPT ![w] = u]
    /\ run' = [run EXCEPT ![w] = runs[u] + 1]
    /\ outputs' = [outputs EXCEPT ![w] = [d \in Units |->
                     IF d \in RequiredOutputs(u) THEN result[d].run ELSE 0]]
    /\ Goto(w, "startStep")
    /\ UNCHANGED <<job, receipt, result, checkpoint, steps, driver>>

(* A dependency has no bound receipt: the outer handler fails the attempt. *)
DependencyUnavailable(w, u) ==
    /\ Callable(w, u)
    /\ Complete(u) => BuildJob
    /\ \E d \in RequiredOutputs(u) : ~Complete(d)
    /\ un' = [un EXCEPT ![w] = u]
    /\ Goto(w, "failAttempt")
    /\ UNCHANGED <<attempt, steps, driver, run, outputs>>

StartStep(w) ==
    /\ pc[w] = "startStep"
    /\ lifecycle[Step(w)] = NoWorker
    /\ IF marker[Step(w)] = "absent"
       THEN /\ marker' = [marker EXCEPT ![Step(w)] = "STARTED"]
            /\ lifecycle' = [lifecycle EXCEPT ![Step(w)] = w]
            /\ Goto(w, "startEvent")
       ELSE /\ Goto(w, "running")
            /\ UNCHANGED <<marker, lifecycle>>
    /\ UNCHANGED <<attempt, events, driver, un, run, outputs>>

LogStepStarted(w) ==
    /\ pc[w] = "startEvent"
    /\ events' = Logged(Step(w), "STARTED")
    /\ lifecycle' = Unlocked(w)
    /\ Goto(w, "running")
    /\ UNCHANGED <<attempt, marker, driver, un, run, outputs>>

WriteRunning(w) ==
    /\ pc[w] = "running"
    /\ receipt' = [receipt EXCEPT ![un[w]] = [st |-> "RUNNING", run |-> run[w], res |-> 0]]
    /\ Goto(w, "taskStarted")
    /\ UNCHANGED <<job, runs, result, checkpoint, steps, driver, un, run, outputs>>

(* TASK_STARTED, between the RUNNING receipt and the try block.            *)
LogTaskStarted(w) ==
    /\ pc[w] = "taskStarted"
    /\ Goto(w, "handler")
    /\ UNCHANGED <<attempt, steps, driver, un, run, outputs>>

-----------------------------------------------------------------------------
(* The try block. *)

(* The handler or an admitted checkpoint gives a result, with or without   *)
(* a gap disposition, that the validators accept.                          *)
WriteResult(w, gap) ==
    /\ pc[w] = "handler"
    /\ <<un[w], gap>> \in Gaps
    /\ result' = [result EXCEPT ![un[w]] = [run |-> run[w], gap |-> gap, from |-> outputs[w]]]
    /\ Goto(w, "receipt")
    /\ UNCHANGED <<job, runs, receipt, checkpoint, steps, driver, un, run, outputs>>

(* The receipt binds the digest of result.json as it is now.               *)
WriteSucceeded(w) ==
    /\ pc[w] = "receipt"
    /\ receipt' = [receipt EXCEPT ![un[w]] =
                     [st |-> "SUCCEEDED", run |-> run[w], res |-> result[un[w]].run]]
    /\ Goto(w, "checkpoint")
    /\ UNCHANGED <<job, runs, result, checkpoint, steps, driver, un, run, outputs>>

(* What publish_checkpoint references: status.json and result.json as they *)
(* are when it reads them.                                                 *)
Referenced(u) == [run |-> receipt[u].run, res |-> result[u].run]

(* Mutation: a checkpoint that conflicts is replaced.                      *)
PublishCheckpointReplacing(w) ==
    /\ pc[w] = "checkpoint"
    /\ checkpoint' = [checkpoint EXCEPT ![un[w]] = Referenced(un[w])]
    /\ Goto(w, "completeStep")
    /\ UNCHANGED <<job, runs, receipt, result, steps, driver, un, run, outputs>>

PublishCheckpoint(w) ==
    /\ pc[w] = "checkpoint"
    /\ checkpoint[un[w]] \in {NoCheckpoint, Referenced(un[w])}
    /\ checkpoint' = [checkpoint EXCEPT ![un[w]] = Referenced(un[w])]
    /\ Goto(w, "completeStep")
    /\ UNCHANGED <<job, runs, receipt, result, steps, driver, un, run, outputs>>

StepStatus(s) ==
    IF \E u \in UnitsOf(s) : result[u].gap THEN "COMPLETED_WITH_GAPS" ELSE "SUCCEEDED"

(* Mutation: the caller's own receipt is taken for the step's.             *)
StepReadyAlone(w) == marker[Step(w)] = "STARTED" /\ Succeeded(un[w])

(* Mutation: the other units must have returned to the driver already.     *)
StepReadyReturned(w) ==
    /\ marker[Step(w)] = "STARTED"
    /\ Succeeded(un[w])
    /\ UnitsOf(Step(w)) \ {un[w]} \subseteq returned

StepReady(w) ==
    /\ marker[Step(w)] = "STARTED"
    /\ \A u \in UnitsOf(Step(w)) : Succeeded(u)

(* Under the lock: the marker is completed only from STARTED and only when *)
(* every unit of the step has a SUCCEEDED receipt and a result.            *)
CompleteStep(w) ==
    /\ pc[w] = "completeStep"
    /\ lifecycle[Step(w)] = NoWorker
    /\ IF StepReady(w)
       THEN /\ marker' = [marker EXCEPT ![Step(w)] = StepStatus(Step(w))]
            /\ lifecycle' = [lifecycle EXCEPT ![Step(w)] = w]
            /\ Goto(w, "completeEvent")
       ELSE /\ Goto(w, "return")
            /\ UNCHANGED <<marker, lifecycle>>
    /\ UNCHANGED <<attempt, events, driver, un, run, outputs>>

LogStepCompleted(w) ==
    /\ pc[w] = "completeEvent"
    /\ events' = Logged(Step(w), marker[Step(w)])
    /\ lifecycle' = Unlocked(w)
    /\ Goto(w, "return")
    /\ UNCHANGED <<attempt, marker, driver, un, run, outputs>>

ReturnUnit(w) ==
    /\ pc[w] = "return"
    /\ returned' = returned \cup {un[w]}
    /\ Finish(w)
    /\ UNCHANGED <<attempt, steps, failed, refused, lost, torn>>

-----------------------------------------------------------------------------
(* Exceptions. *)

(* A handler, a validator, a conflicting checkpoint, an event that cannot  *)
(* be written or a lock that is never free raises in the try block.        *)
Raises(w) ==
    /\ pc[w] \in TrySteps
    /\ lifecycle' = Unlocked(w)
    /\ Goto(w, "failReceipt")
    /\ UNCHANGED <<attempt, marker, events, driver, un, run, outputs>>

(* The same before the try block: nothing is recorded of the unit or its   *)
(* step, and when TASK_STARTED raises the receipt stays RUNNING.           *)
RaisesEarly(w) ==
    /\ pc[w] \in EarlySteps
    /\ lifecycle' = Unlocked(w)
    /\ Goto(w, "failAttempt")
    /\ UNCHANGED <<attempt, marker, events, driver, un, run, outputs>>

WriteFailed(w) ==
    /\ pc[w] = "failReceipt"
    /\ receipt' = [receipt EXCEPT ![un[w]] = [st |-> "FAILED", run |-> run[w], res |-> 0]]
    /\ Goto(w, "failStep")
    /\ UNCHANGED <<job, runs, result, checkpoint, steps, driver, un, run, outputs>>

FailStep(w) ==
    /\ pc[w] = "failStep"
    /\ lifecycle[Step(w)] = NoWorker
    /\ lifecycle' = [lifecycle EXCEPT ![Step(w)] = w]
    /\ marker' = [marker EXCEPT ![Step(w)] = "FAILED"]
    /\ Goto(w, "failEvent")
    /\ UNCHANGED <<attempt, events, driver, un, run, outputs>>

(* Mutation: the event is written whether or not the log has it.           *)
LogStepFailedAgain(w) ==
    /\ pc[w] = "failEvent"
    /\ events' = Logged(Step(w), "FAILED")
    /\ lifecycle' = Unlocked(w)
    /\ Goto(w, "failAttempt")
    /\ UNCHANGED <<attempt, marker, driver, un, run, outputs>>

(* STEP_FAILED is written unless the run log already holds it.             *)
LogStepFailed(w) ==
    /\ pc[w] = "failEvent"
    /\ events' = IF events[Step(w)]["FAILED"] > 0 THEN events ELSE Logged(Step(w), "FAILED")
    /\ lifecycle' = Unlocked(w)
    /\ Goto(w, "failAttempt")
    /\ UNCHANGED <<attempt, marker, driver, un, run, outputs>>

FailAttempt(w) ==
    /\ pc[w] = "failAttempt"
    /\ failed' = TRUE
    /\ refused' = refused \cup {un[w]}
    /\ Finish(w)
    /\ UNCHANGED <<attempt, steps, returned, lost, torn>>

(* What the end of an execution whose SUCCEEDED receipt is not the one its *)
(* unit's checkpoint references leaves for good.                           *)
Torn(w) ==
    IF /\ receipt[un[w]].st = "SUCCEEDED"
       /\ receipt[un[w]].run = run[w]
       /\ checkpoint[un[w]] # Referenced(un[w])
    THEN torn \cup {un[w]}
    ELSE torn

(* The unit's or the step's record cannot be made; the outer handler runs. *)
FailStepUnavailable(w) ==
    /\ MayDie(w)
    /\ pc[w] \in {"failReceipt", "failStep", "failEvent"}
    /\ lifecycle' = Unlocked(w)
    /\ lost' = lost \cup {Step(w)}
    /\ torn' = Torn(w)
    /\ Goto(w, "failAttempt")
    /\ UNCHANGED <<attempt, marker, events, failed, returned, refused, un, run, outputs>>

(* The process dies: its lock is dropped, the driver may call again.  That *)
(* covers an attempt record that cannot be made, after which the driver    *)
(* has the exception and the attempt is not FAILED.                        *)
Crash(w) ==
    /\ MayDie(w)
    /\ pc[w] # "idle"
    /\ lifecycle' = Unlocked(w)
    /\ lost' = lost \cup {Step(w)}
    /\ torn' = Torn(w)
    /\ Finish(w)
    /\ UNCHANGED <<attempt, marker, events, failed, returned, refused>>

-----------------------------------------------------------------------------

WorkerStep(w) ==
    \/ StartStep(w) \/ LogStepStarted(w) \/ WriteRunning(w) \/ LogTaskStarted(w)
    \/ (\E gap \in BOOLEAN : WriteResult(w, gap))
    \/ WriteSucceeded(w) \/ PublishCheckpoint(w)
    \/ CompleteStep(w) \/ LogStepCompleted(w) \/ ReturnUnit(w)
    \/ Raises(w) \/ RaisesEarly(w)
    \/ WriteFailed(w) \/ FailStep(w) \/ LogStepFailed(w) \/ FailAttempt(w)

DriverStep(w) ==
    \E u \in Units : ReuseReceipt(w, u) \/ BeginUnit(w, u) \/ DependencyUnavailable(w, u)

Next == \E w \in Workers :
    WorkerStep(w) \/ DriverStep(w) \/ FailStepUnavailable(w) \/ Crash(w)

Spec == Init /\ [][Next]_vars

(* A process that executes a unit keeps running; the driver starts the     *)
(* operations it can.                                                      *)
Fairness == \A w \in Workers :
    /\ WF_vars(WorkerStep(w))
    /\ WF_vars(\E u \in Units : u \notin returned /\ (ReuseReceipt(w, u) \/ BeginUnit(w, u)))

FairSpec == Spec /\ Fairness

-----------------------------------------------------------------------------
(* What a fresh attempt may use again: checkpoints.select_units. *)

(* admitted_output: status.json and result.json are still the referenced   *)
(* ones and the receipt is SUCCEEDED for that result.                      *)
Admitted(u) ==
    /\ checkpoint[u] # NoCheckpoint
    /\ checkpoint[u] = Referenced(u)
    /\ Complete(u)

(* select_units, in dependency order: a unit is used again only with every *)
(* unit it depends on.                                                     *)
Selected(u) == Admitted(u) /\ \A d \in RequiredOutputs(u) : Admitted(d)

-----------------------------------------------------------------------------
(* Properties. *)

(* Nobody works on the step's units.                                       *)
Quiet(s) == \A w \in Workers : un[w] = NoUnit \/ Step(w) # s

(* Its last execution raised between the RUNNING receipt and the try       *)
(* block, which only the attempt records.                                  *)
Unannounced(u) == receipt[u].st = "RUNNING" /\ u \in refused /\ failed

(* Once nobody works on a step, and no process died in it or failed to     *)
(* record its failure, the lifecycle marker agrees with the receipts of    *)
(* its units, whatever happened in the other steps: a completed marker     *)
(* tells whether one of the units has a gap, and means that every unit has *)
(* a SUCCEEDED receipt unless a later execution of it was stopped before   *)
(* its try block, and then the attempt is FAILED; a FAILED receipt means a *)
(* FAILED marker and a failed attempt, and when every unit returned and    *)
(* was not refused since, the marker is not left at STARTED, whichever of  *)
(* two units finishing together was last and whatever was raised after a   *)
(* receipt.                                                                *)
StepAgrees == \A s \in StepNames \ lost : Quiet(s) =>
    /\ marker[s] \in Success =>
         /\ \A u \in UnitsOf(s) : Succeeded(u) \/ Unannounced(u)
         /\ marker[s] = StepStatus(s)
    /\ (\E u \in UnitsOf(s) : receipt[u].st = "FAILED") => marker[s] = "FAILED" /\ failed
    /\ (UnitsOf(s) # {} /\ UnitsOf(s) \subseteq returned \ refused) =>
         marker[s] \in Success \cup {"FAILED"}

(* The run log holds each lifecycle event of a step at most once and at    *)
(* most one successful completion, across crashes between the marker and   *)
(* the event, failures of several units and repeated calls.                *)
StepEventsOnce == \A s \in StepNames :
    /\ \A e \in StepEvents : events[s][e] <= 1
    /\ events[s]["SUCCEEDED"] + events[s]["COMPLETED_WITH_GAPS"] <= 1

(* A build job may execute a unit again although its receipt was used, and *)
(* the checkpoint does not stop that execution when it is not the one of   *)
(* the receipt that was used.                                              *)
Unguarded(d) == BuildJob /\ d \in torn

(* The units select_units would use again in a fresh attempt fit together: *)
(* each was made from exactly the results of its dependencies that would   *)
(* be used with it, never from those of an execution since replaced.  In a *)
(* build job that is not so of a dependency which was once left with a     *)
(* SUCCEEDED receipt and without its checkpoint.                           *)
ReuseClosed == \A u \in Units : Selected(u) =>
    \A d \in RequiredOutputs(u) : result[u].from[d] = result[d].run \/ Unguarded(d)

(* Finalization reads every receipt.  When all are bound to their results, *)
(* nobody works and the attempt is not FAILED, each result was made from   *)
(* the results of its dependencies that are published with it, with the    *)
(* same exception.                                                         *)
PublishedConsistent ==
    (/\ \A u \in Units : Complete(u)
     /\ \A w \in Workers : pc[w] = "idle"
     /\ ~failed)
    => \A u \in Units : \A d \in RequiredOutputs(u) :
         result[u].from[d] = result[d].run \/ Unguarded(d)

(* Every step of the attempt is eventually completed or FAILED, or the     *)
(* attempt is FAILED: no interleaving of the units that finish together    *)
(* leaves a step of a live attempt STARTED for ever.                       *)
StepsDecided ==
    <>(\/ failed
       \/ \A s \in StepNames : marker[s] \in Success \cup {"FAILED"})

=============================================================================
