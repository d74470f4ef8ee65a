------------------------- MODULE UnitExecutionProofs -------------------------
(***************************************************************************)
(* Proofs about UnitExecution, for any units, dependencies, steps, workers *)
(* and bound on executions.                                                *)
(*                                                                         *)
(* What is said of the markers depends on the step alone: it holds of      *)
(* every step no process died in, whatever happens in the others.  The key *)
(* fact is that an execution of a unit that already has a checkpoint is    *)
(* doomed once it is in its try block: its bytes differ, so its checkpoint *)
(* conflicts, and it can only end by failing the step and the attempt.     *)
(* One that is stopped between the RUNNING receipt and the try block       *)
(* leaves the receipt RUNNING (Unmarked) and fails the attempt alone.      *)
(***************************************************************************)
EXTENDS UnitExecution, TLAPS

(* No process died in the unit's step or failed to record its failure.     *)
Kept(u) == StepOf[u] \notin lost

Working(w) == pc[w] \notin {"idle", "failAttempt"}

Assigned == \A w \in Workers :
    /\ pc[w] = "idle" <=> un[w] = NoUnit
    /\ Working(w) => run[w] # 0 /\ run[w] <= runs[un[w]]

Locked == \A w \in Workers :
    pc[w] \in LockedSteps => lifecycle[Step(w)] = w

(* The event of a marker is missing until its writer logs it.              *)
EventsFollow ==
    /\ \A s \in StepNames :
         /\ marker[s] = "absent" => events[s]["STARTED"] = 0
         /\ marker[s] \in {"absent", "STARTED"} =>
              events[s]["SUCCEEDED"] = 0 /\ events[s]["COMPLETED_WITH_GAPS"] = 0
    /\ \A w \in Workers :
         /\ pc[w] = "startEvent" => events[Step(w)]["STARTED"] = 0
         /\ pc[w] = "completeEvent" =>
              /\ marker[Step(w)] \in Success
              /\ events[Step(w)]["SUCCEEDED"] = 0
              /\ events[Step(w)]["COMPLETED_WITH_GAPS"] = 0

Started == \A w \in Workers :
    (Working(w) /\ pc[w] # "startStep") => marker[Step(w)] # "absent"

(* Until a unit has returned, one process at most works on it.             *)
OneWorker == \A v, w \in Workers :
    (un[v] = un[w] /\ un[v] # NoUnit /\ un[v] \notin returned) => v = w

(* So the unit's files are those of that process.                          *)
FirstRun == \A w \in Workers : (un[w] # NoUnit /\ un[w] \notin returned) =>
    /\ (pc[w] \in {"startStep", "startEvent", "running"} /\ Kept(un[w])) =>
         receipt[un[w]].st = "absent"
    /\ pc[w] \in {"taskStarted", "handler", "receipt"} => receipt[un[w]].st = "RUNNING"
    /\ pc[w] \in {"receipt", "checkpoint", "completeStep", "completeEvent", "return"} =>
         result[un[w]].run = run[w]
    /\ pc[w] \in {"checkpoint", "completeStep", "completeEvent", "return"} =>
         receipt[un[w]] = [st |-> "SUCCEEDED", run |-> run[w], res |-> run[w]]

(* A unit that was begun and is not worked on has returned or was refused. *)
Begun == \A u \in Units :
    /\ runs[u] = 0 =>
         receipt[u].st = "absent" /\ result[u].run = 0 /\ checkpoint[u] = NoCheckpoint
    /\ (Kept(u) /\ runs[u] # 0) =>
         u \in returned \cup refused \/ \E w \in Workers : un[w] = u

(* Results come from executions that were begun.                           *)
ResultsMade ==
    /\ \A u \in Units : result[u].run <= runs[u]
    /\ \A w \in Workers : pc[w] \in {"receipt", "checkpoint"} => result[un[w]].run # 0

(* A unit that returned has its checkpoint, and no later execution of it   *)
(* makes the result again that the checkpoint names.                       *)
Checkpointed ==
    /\ \A u \in Units :
         /\ (Kept(u) /\ u \in returned) =>
              checkpoint[u] # NoCheckpoint /\ marker[StepOf[u]] # "absent"
         /\ checkpoint[u].res <= runs[u]
    /\ \A w \in Workers :
         /\ pc[w] \in {"completeStep", "completeEvent", "return"} =>
              checkpoint[un[w]] # NoCheckpoint
         /\ (un[w] # NoUnit /\ Kept(un[w]) /\ checkpoint[un[w]] # NoCheckpoint) =>
              /\ pc[w] \in EarlySteps \cup {"handler"} => run[w] # checkpoint[un[w]].res
              /\ pc[w] \in {"receipt", "checkpoint"} =>
                   result[un[w]].run # checkpoint[un[w]].res

(* A process that can only end by failing its step.                        *)
Doomed(w) ==
    \/ pc[w] \in {"failReceipt", "failStep"}
    \/ pc[w] \in {"handler", "receipt", "checkpoint"} /\ checkpoint[un[w]] # NoCheckpoint

DoomedStep(s) == \E w \in Workers : un[w] # NoUnit /\ Step(w) = s /\ Doomed(w)

(* A unit that had returned is left RUNNING, or is on the way to it: its   *)
(* last execution did not reach the try block.                             *)
Unmarked(u) ==
    /\ u \in returned
    /\ receipt[u].st = "RUNNING"
    /\ \/ u \in refused /\ failed
       \/ \E w \in Workers : un[w] = u /\ pc[w] \in {"taskStarted", "failAttempt"}

(* The unit's operation has returned or is about to.                       *)
Past(u) == u \in returned \/ \E w \in Workers : un[w] = u /\ pc[w] = "return"

(* What StepAgrees says of a step when nobody works on it, with the        *)
(* processes that still have to make it true.                              *)
CheckpointHolds == \A u \in Units : (Kept(u) /\ checkpoint[u] # NoCheckpoint) =>
    Succeeded(u) \/ Unmarked(u) \/ marker[StepOf[u]] = "FAILED" \/ DoomedStep(StepOf[u])

CompletionHolds == \A s \in StepNames \ lost : marker[s] \in Success =>
    \/ (\A u \in UnitsOf(s) : Succeeded(u) \/ Unmarked(u)) /\ marker[s] = StepStatus(s)
    \/ DoomedStep(s)

NotLeftStarted == \A s \in StepNames \ lost : (UnitsOf(s) # {} /\ marker[s] = "STARTED") =>
    (\E u \in UnitsOf(s) : ~Past(u) \/ Unmarked(u)) \/ DoomedStep(s)

FailureHolds == \A u \in Units : (Kept(u) /\ receipt[u].st = "FAILED") =>
    /\ marker[StepOf[u]] = "FAILED" \/ \E w \in Workers : un[w] = u /\ pc[w] = "failStep"
    /\ failed \/ \E w \in Workers : un[w] = u /\ pc[w] \in {"failStep", "failEvent", "failAttempt"}

(* The dependencies of a unit that was begun have returned.                *)
DepsReturned ==
    /\ \A u \in Units : (u \in returned \/ runs[u] # 0) => Deps[u] \subseteq returned
    /\ \A w \in Workers : un[w] # NoUnit => Deps[un[w]] \subseteq returned

(* In an ordinary job a unit that returned is never executed again.        *)
OrdinaryInv == ~BuildJob =>
    /\ \A u \in returned : Complete(u)
    /\ \A w \in Workers : un[w] # NoUnit => un[w] \notin returned
    /\ \A w \in Workers : Working(w) =>
         \A d \in RequiredOutputs(un[w]) : outputs[w][d] = result[d].run
    /\ \A u \in Units : result[u].run # 0 =>
         \A d \in RequiredOutputs(u) : result[u].from[d] = result[d].run

(* The result of d that was read is the checkpointed one, or d's result    *)
(* has been replaced for good.                                             *)
FromCheckpoint(r, d) == r = checkpoint[d].res \/ result[d].run # checkpoint[d].res

(* An execution that has not written its result has a number of its own.   *)
Fresh ==
    /\ \A u \in Units : receipt[u].res <= runs[u]
    /\ \A v, w \in Workers : (v # w /\ un[v] = un[w] /\ Working(v) /\ Working(w)) => run[v] # run[w]
    /\ \A w \in Workers : pc[w] \in EarlySteps \cup {"handler"} =>
         /\ run[w] # result[un[w]].run
         /\ run[w] # receipt[un[w]].res
         /\ run[w] # checkpoint[un[w]].res

(* A receipt that answers for its result is backed by the checkpoint, or   *)
(* its writer has still to publish the checkpoint or to take it back.      *)
Backed == \A d \in Units \ torn : Complete(d) =>
    \/ checkpoint[d] # NoCheckpoint /\ checkpoint[d].res = result[d].run
    \/ \E w \in Workers : un[w] = d /\ pc[w] \in {"checkpoint", "failReceipt"} /\ run[w] = receipt[d].run

ReturnedBacked == \A d \in returned \ torn : checkpoint[d] # NoCheckpoint

(* So what was read of such a unit is the checkpointed result, or the      *)
(* result has been replaced by one that is never accepted.                 *)
ReadBacked ==
    /\ \A w \in Workers : Working(w) =>
         \A d \in RequiredOutputs(un[w]) \ torn : FromCheckpoint(outputs[w][d], d)
    /\ \A u \in Units : result[u].run # 0 =>
         \A d \in RequiredOutputs(u) \ torn : FromCheckpoint(result[u].from[d], d)

ReuseInv == Fresh /\ Backed /\ ReturnedBacked /\ ReadBacked

Inv ==
    /\ TypeOK /\ Assigned /\ Locked /\ EventsFollow /\ StepEventsOnce
    /\ Started /\ OneWorker /\ FirstRun /\ Begun /\ ResultsMade /\ Checkpointed
    /\ CheckpointHolds /\ CompletionHolds /\ NotLeftStarted /\ FailureHolds
    /\ DepsReturned /\ OrdinaryInv /\ ReuseInv

-----------------------------------------------------------------------------
(* What one step leaves alone. *)

(* Only worker w moves.                                                    *)
OnlyMoves(w) == \A v \in Workers \ {w} :
    pc'[v] = pc[v] /\ un'[v] = un[v] /\ run'[v] = run[v] /\ outputs'[v] = outputs[v]

CheckpointsStay == \A u \in Units :
    checkpoint[u] # NoCheckpoint => checkpoint'[u] = checkpoint[u]

(* A step some process can only fail stays so until it is FAILED.          *)
DoomStays == \A s \in StepNames \ lost' :
    DoomedStep(s) => DoomedStep(s)' \/ marker'[s] = "FAILED"

(* It is enough to look at the worker that moves.                          *)
LEMMA DoomKept ==
    ASSUME Inv, NEW w \in Workers, OnlyMoves(w), CheckpointsStay,
           (un[w] # NoUnit /\ Doomed(w)) =>
              \/ un'[w] = un[w] /\ Doomed(w)'
              \/ marker'[Step(w)] = "FAILED"
              \/ Step(w) \in lost'
    PROVE  DoomStays
<1> SUFFICES ASSUME NEW s \in StepNames \ lost', DoomedStep(s), marker'[s] # "FAILED"
             PROVE  DoomedStep(s)'
  BY DEF DoomStays
<1>1. PICK v \in Workers : un[v] # NoUnit /\ Step(v) = s /\ Doomed(v)
  BY DEF DoomedStep
<1>2. CASE v = w  BY <1>1, <1>2 DEF DoomedStep, Step
<1>3. CASE v # w
  <2>1. un'[v] = un[v] /\ pc'[v] = pc[v]  BY <1>3 DEF OnlyMoves
  <2>2. un[v] \in Units  BY <1>1 DEF Inv, TypeOK
  <2>3. Doomed(v)'  BY <1>1, <2>1, <2>2 DEF Doomed, CheckpointsStay
  <2> QED  BY <1>1, <2>1, <2>3 DEF DoomedStep, Step
<1> QED  BY <1>2, <1>3

(* A unit left RUNNING stays so until its step can only fail.              *)
UnmarkedStays == \A u \in Units : (StepOf[u] \notin lost' /\ Unmarked(u)) =>
    Unmarked(u)' \/ DoomedStep(StepOf[u])' \/ marker'[StepOf[u]] = "FAILED"

(* Again it is enough to look at the worker that moves.                    *)
LEMMA UnmarkedKept ==
    ASSUME Inv, NEW w \in Workers, OnlyMoves(w), UNCHANGED receipt,
           returned \subseteq returned', refused \subseteq refused', failed => failed',
           (un[w] \in returned /\ Step(w) \notin lost' /\ pc[w] \in {"taskStarted", "failAttempt"}) =>
              \/ un'[w] = un[w] /\ pc'[w] \in {"taskStarted", "failAttempt"}
              \/ un[w] \in refused' /\ failed'
              \/ un'[w] = un[w] /\ Doomed(w)'
    PROVE  UnmarkedStays
<1> SUFFICES ASSUME NEW u \in Units, StepOf[u] \notin lost', Unmarked(u)
             PROVE  Unmarked(u)' \/ DoomedStep(StepOf[u])'
  BY DEF UnmarkedStays
<1>1. CASE u \in refused /\ failed  BY <1>1 DEF Unmarked
<1>2. ASSUME NEW v \in Workers, un[v] = u, pc[v] \in {"taskStarted", "failAttempt"}
      PROVE  Unmarked(u)' \/ DoomedStep(StepOf[u])'
  <2>1. CASE v # w  BY <1>2, <2>1 DEF Unmarked, OnlyMoves
  <2>2. CASE v = w
    <3>1. un[w] = u /\ Step(w) = StepOf[u] /\ u # NoUnit
      BY <1>2, <2>2, UnitNamesAssumption DEF Step, NoUnit
    <3>2. CASE un'[w] = un[w] /\ Doomed(w)'  BY <3>1, <3>2 DEF DoomedStep, Step
    <3>3. CASE ~(un'[w] = un[w] /\ Doomed(w)')  BY <1>2, <2>2, <3>1, <3>3 DEF Unmarked
    <3> QED  BY <3>2, <3>3
  <2> QED  BY <2>1, <2>2
<1> QED  BY <1>1, <1>2 DEF Unmarked

(* What becomes of a step whose marker does not change.                    *)
LEMMA NotLeftStartedKept ==
    ASSUME Inv, UNCHANGED marker, lost \subseteq lost', DoomStays, UnmarkedStays,
           \A x \in Units : Past(x)' => Past(x)
    PROVE  NotLeftStarted'
<1> SUFFICES ASSUME NEW s \in StepNames \ lost', UnitsOf(s) # {}, marker[s] = "STARTED",
                    ~DoomedStep(s)'
             PROVE  \E x \in UnitsOf(s) : ~Past(x)' \/ Unmarked(x)'
  BY DEF NotLeftStarted, UnitsOf
<1>1. s \notin lost /\ ~DoomedStep(s)  BY DEF DoomStays
<1>2. PICK x \in UnitsOf(s) : ~Past(x) \/ Unmarked(x)  BY <1>1 DEF Inv, NotLeftStarted
<1>3. x \in Units /\ StepOf[x] = s  BY DEF UnitsOf
<1> QED  BY <1>2, <1>3 DEF UnmarkedStays

LEMMA CompletionKept ==
    ASSUME Inv, UNCHANGED <<marker, receipt, result>>, lost \subseteq lost', DoomStays, UnmarkedStays
    PROVE  CompletionHolds'
<1> SUFFICES ASSUME NEW s \in StepNames \ lost', marker[s] \in Success, ~DoomedStep(s)'
             PROVE  /\ \A x \in UnitsOf(s) : Succeeded(x)' \/ Unmarked(x)'
                    /\ marker[s] = StepStatus(s)'
  BY DEF CompletionHolds, UnitsOf
<1>1. s \notin lost /\ ~DoomedStep(s)  BY DEF DoomStays, Success
<1>2. (\A x \in UnitsOf(s) : Succeeded(x) \/ Unmarked(x)) /\ marker[s] = StepStatus(s)
  BY <1>1 DEF Inv, CompletionHolds
<1>3. \A x \in UnitsOf(s) : Succeeded(x) => Succeeded(x)'  BY DEF Succeeded
<1>4. \A x \in UnitsOf(s) : Unmarked(x) => Unmarked(x)'
  BY DEF UnmarkedStays, UnitsOf, Success
<1>5. StepStatus(s)' = StepStatus(s)  BY DEF StepStatus, UnitsOf
<1> QED  BY <1>2, <1>3, <1>4, <1>5

(* A process that executes a unit has an execution number of that unit.    *)
LEMMA WorkingRun ==
    ASSUME Inv, NEW w \in Workers, Working(w)
    PROVE  run[w] # 0 /\ runs[un[w]] # 0
<1>1. pc[w] # "idle"  BY DEF Working
<1>2. un[w] \in Units  BY <1>1 DEF Inv, TypeOK, Assigned
<1>3. run[w] \in Nat /\ runs[un[w]] \in Nat
  BY <1>2, MaxRunsAssumption DEF Inv, TypeOK, Runs
<1> QED  BY <1>3 DEF Inv, Assigned

(* Every required result is that of a unit that has returned.              *)
LEMMA RequiredReturned ==
    ASSUME Inv, NEW u \in Units, Deps[u] \subseteq returned
    PROVE  RequiredOutputs(u) \subseteq returned
<1>1. returned \in SUBSET Units  BY DEF Inv, TypeOK
<1>2. \A x \in returned : Deps[x] \subseteq returned  BY <1>1 DEF Inv, DepsReturned
<1> QED  BY <1>1, <1>2 DEF RequiredOutputs

(* So are those a process was given, and those a result was made from.     *)
LEMMA RequiredOfWork ==
    ASSUME Inv
    PROVE  /\ \A w \in Workers : un[w] # NoUnit => RequiredOutputs(un[w]) \subseteq returned
           /\ \A u \in Units : result[u].run # 0 => RequiredOutputs(u) \subseteq returned
<1>1. ASSUME NEW w \in Workers, un[w] # NoUnit PROVE RequiredOutputs(un[w]) \subseteq returned
  <2>1. un[w] \in Units /\ Deps[un[w]] \subseteq returned  BY <1>1 DEF Inv, TypeOK, DepsReturned
  <2> QED  BY <2>1, RequiredReturned
<1>2. ASSUME NEW u \in Units, result[u].run # 0 PROVE RequiredOutputs(u) \subseteq returned
  <2>1. runs[u] # 0  BY <1>2 DEF Inv, Begun
  <2>2. Deps[u] \subseteq returned  BY <2>1 DEF Inv, DepsReturned
  <2> QED  BY <2>2, RequiredReturned
<1> QED  BY <1>1, <1>2

(* A step that writes no receipt, result or checkpoint keeps ReuseInv when *)
(* the worker that moves works on with what it had, and what it leaves     *)
(* without a checkpoint is counted as torn.                                *)
LEMMA ReuseKept ==
    ASSUME Inv, NEW w \in Workers, OnlyMoves(w),
           UNCHANGED <<runs, receipt, result, checkpoint>>,
           Working(w)' => Working(w) /\ un'[w] = un[w] /\ run'[w] = run[w] /\ outputs'[w] = outputs[w],
           pc'[w] \in EarlySteps \cup {"handler"} => pc[w] \in EarlySteps \cup {"handler"},
           torn \subseteq torn',
           (un[w] # NoUnit /\ pc[w] \in {"checkpoint", "failReceipt"}) =>
              \/ un'[w] = un[w] /\ run'[w] = run[w] /\ pc'[w] \in {"checkpoint", "failReceipt"}
              \/ torn' = Torn(w),
           \A d \in returned' : d \in returned \/ d \in torn \/ checkpoint[d] # NoCheckpoint
    PROVE  ReuseInv'
<1>1. ASSUME NEW v \in Workers, Working(v)'
      PROVE  Working(v) /\ un'[v] = un[v] /\ run'[v] = run[v] /\ outputs'[v] = outputs[v]
  BY <1>1 DEF OnlyMoves, Working
<1>2. Fresh'
  <2>1. \A v \in Workers : pc'[v] \in EarlySteps \cup {"handler"} =>
          pc[v] \in EarlySteps \cup {"handler"} /\ un'[v] = un[v] /\ run'[v] = run[v]
    <3>1. \A v \in Workers : pc'[v] \in EarlySteps \cup {"handler"} => Working(v)'
      BY DEF Working, EarlySteps
    <3> QED  BY <1>1, <3>1 DEF OnlyMoves
  <2>2. \A v, x \in Workers : (v # x /\ un'[v] = un'[x] /\ Working(v)' /\ Working(x)') => run'[v] # run'[x]
    BY <1>1 DEF Inv, ReuseInv, Fresh
  <2> QED  BY <2>1, <2>2 DEF Inv, ReuseInv, Fresh
<1>3. Backed'
  <2> SUFFICES ASSUME NEW d \in Units, d \notin torn', Complete(d),
                      ~(checkpoint[d] # NoCheckpoint /\ checkpoint[d].res = result[d].run)
               PROVE  \E v \in Workers : un'[v] = d /\ pc'[v] \in {"checkpoint", "failReceipt"}
                                          /\ run'[v] = receipt[d].run
    BY DEF Backed, Complete
  <2>1. PICK v \in Workers : un[v] = d /\ pc[v] \in {"checkpoint", "failReceipt"} /\ run[v] = receipt[d].run
    BY DEF Inv, ReuseInv, Backed
  <2>2. CASE v # w  BY <2>1, <2>2 DEF OnlyMoves
  <2>3. CASE v = w
    <3>1. d # NoUnit  BY UnitNamesAssumption DEF NoUnit
    <3>2. torn' # Torn(w)
      <4>1. run[w] # 0  BY <2>1, <2>3, WorkingRun DEF Working
      <4>2. checkpoint[d] # Referenced(d)
        BY <2>1, <2>3, <4>1 DEF Referenced, NoCheckpoint
      <4> QED  BY <2>1, <2>3, <4>2 DEF Torn, Complete
    <3> QED  BY <2>1, <2>3, <3>1, <3>2
  <2> QED  BY <2>2, <2>3
<1>4. ReturnedBacked'  BY DEF Inv, ReuseInv, ReturnedBacked
<1>5. ASSUME NEW v \in Workers, Working(v)', NEW d \in RequiredOutputs(un'[v]) \ torn'
      PROVE  FromCheckpoint(outputs[v][d], d)'
  <2>1. FromCheckpoint(outputs[v][d], d)  BY <1>1, <1>5 DEF Inv, ReuseInv, ReadBacked
  <2> QED  BY <1>1, <1>5, <2>1 DEF FromCheckpoint
<1>6. ASSUME NEW u \in Units, result'[u].run # 0, NEW d \in RequiredOutputs(u) \ torn'
      PROVE  FromCheckpoint(result[u].from[d], d)'
  BY <1>6 DEF Inv, ReuseInv, ReadBacked, FromCheckpoint
<1>7. ReadBacked'  BY <1>5, <1>6 DEF ReadBacked
<1> QED  BY <1>2, <1>3, <1>4, <1>7 DEF ReuseInv

-----------------------------------------------------------------------------
(* Every step keeps the invariant. *)

LEMMA StartStepInv == ASSUME Inv, NEW w \in Workers, StartStep(w) PROVE Inv'
<1> USE UnitNamesAssumption, UnitWorkersAssumption, GraphAssumption, MaxRunsAssumption
    DEF attempt, steps, driver, locals
<1>1. un[w] \in Units /\ Step(w) \in StepNames /\ Step(w) = StepOf[un[w]] /\ un[w] # NoUnit
  BY DEF Inv, Assigned, TypeOK, Step, StartStep, Goto, Steps, EarlySteps, TrySteps,
     FailureSteps, LockedSteps
<1>2. OnlyMoves(w) /\ CheckpointsStay
  BY <1>1 DEF Inv, TypeOK, NoCheckpoint, StartStep, Goto, OnlyMoves, CheckpointsStay
<1>3. DoomStays
  <2>1. (un[w] # NoUnit /\ Doomed(w)) =>
           (un'[w] = un[w] /\ Doomed(w)') \/ marker'[Step(w)] = "FAILED" \/ Step(w) \in lost'
    BY <1>1 DEF Doomed, Step, StartStep, Goto, Inv, TypeOK, Steps, EarlySteps, TrySteps,
       FailureSteps, LockedSteps
  <2> QED  BY <1>2, <2>1, DoomKept
<1>4. UnmarkedStays
  <2>1. UNCHANGED receipt /\ returned \subseteq returned' /\ refused \subseteq refused' /\ (failed => failed')
    BY DEF StartStep
  <2>2. (un[w] \in returned /\ Step(w) \notin lost' /\ pc[w] \in {"taskStarted", "failAttempt"}) =>
          \/ un'[w] = un[w] /\ pc'[w] \in {"taskStarted", "failAttempt"}
          \/ un[w] \in refused' /\ failed'
          \/ un'[w] = un[w] /\ Doomed(w)'
    BY <1>1 DEF Inv, TypeOK, TrySteps, StartStep, Goto
  <2> QED  BY <1>2, <2>1, <2>2, UnmarkedKept
<1>5. \A x \in Units : Past(x)' => Past(x)
  BY <1>1, <1>2 DEF Inv, TypeOK, Past, OnlyMoves, StartStep, Goto
<1>6. TypeOK'
  <2>1. PICK x \in {"startEvent", "running"} : pc' = [pc EXCEPT ![w] = x]
    BY DEF StartStep, Goto
  <2>2. marker' \in [StepNames -> Markers] /\ lifecycle' \in [StepNames -> Workers \cup {NoWorker}]
    <3>1. CASE marker[Step(w)] = "absent"
      <4>1. /\ marker' = [marker EXCEPT ![Step(w)] = "STARTED"]
            /\ lifecycle' = [lifecycle EXCEPT ![Step(w)] = w]
        BY <3>1 DEF StartStep
      <4>2. "STARTED" \in Markers  BY DEF Markers
      <4> QED  BY <4>1, <4>2 DEF Inv, TypeOK
    <3>2. CASE marker[Step(w)] # "absent"  BY <3>2 DEF Inv, TypeOK, StartStep
    <3> QED  BY <3>1, <3>2
  <2>3. pc' \in [Workers -> Steps]
    BY <2>1 DEF Inv, TypeOK, Steps, EarlySteps
  <2>4. UNCHANGED <<job, runs, receipt, result, checkpoint, events, failed, returned, refused,
                    lost, torn, un, run, outputs>>
    BY DEF StartStep
  <2> QED  BY <2>2, <2>3, <2>4 DEF Inv, TypeOK
<1>7. Assigned'
  <2>1. /\ pc[w] = "startStep" /\ pc'[w] \in {"startEvent", "running"}
        /\ UNCHANGED <<un, run, runs>>
    BY DEF Inv, TypeOK, StartStep, Goto
  <2> QED  BY <1>2, <2>1 DEF Inv, Assigned, OnlyMoves, Working
<1>8. Locked'
  <2>1. /\ lifecycle[Step(w)] = NoWorker /\ UNCHANGED un
        /\ lifecycle' \in {lifecycle, [lifecycle EXCEPT ![Step(w)] = w]}
        /\ pc'[w] \in LockedSteps => lifecycle' = [lifecycle EXCEPT ![Step(w)] = w]
    BY DEF Inv, TypeOK, LockedSteps, StartStep, Goto
  <2>2. lifecycle \in [StepNames -> Workers \cup {NoWorker}]
    BY DEF Inv, TypeOK
  <2>3. ASSUME NEW v \in Workers, v # w, pc'[v] \in LockedSteps PROVE lifecycle'[Step(v)] = v
    <3>1. lifecycle[Step(v)] = v
      BY <1>2, <2>3 DEF Inv, Locked, OnlyMoves
    <3>2. Step(v) # Step(w)
      BY <2>1, <3>1
    <3>3. Step(v) \in StepNames
      BY <1>2, <2>3 DEF Inv, Assigned, TypeOK, Step, OnlyMoves, LockedSteps
    <3> QED  BY <1>1, <2>1, <2>2, <3>1, <3>2, <3>3
  <2>4. pc'[w] \in LockedSteps => lifecycle'[Step(w)] = w
    BY <1>1, <2>1, <2>2
  <2> QED  BY <2>1, <2>3, <2>4 DEF Locked, Step
<1>9. EventsFollow'
  <2>1. \A v \in Workers : pc[v] \in {"startEvent", "completeEvent"} => Step(v) # Step(w)
    BY <1>1 DEF Inv, Locked, LockedSteps, StartStep
  <2>2. CASE marker[Step(w)] = "absent"
    <3>1. marker' = [marker EXCEPT ![Step(w)] = "STARTED"] /\ pc' = [pc EXCEPT ![w] = "startEvent"]
      BY <2>2 DEF StartStep, Goto
    <3>2. \A v \in Workers : pc'[v] \in {"startEvent", "completeEvent"} =>
            \/ v = w /\ pc'[v] = "startEvent"
            \/ pc[v] = pc'[v] /\ Step(v) \in StepNames /\ Step(v) # Step(w)
      BY <2>1, <3>1, GraphAssumption DEF Inv, Assigned, TypeOK, Step
    <3>3. \A v \in Workers : Step(v)' = Step(v)  BY DEF Step, StartStep
    <3>4. UNCHANGED events  BY DEF StartStep
    <3>5. events[Step(w)]["STARTED"] = 0 /\ events[Step(w)]["SUCCEEDED"] = 0
          /\ events[Step(w)]["COMPLETED_WITH_GAPS"] = 0
      BY <1>1, <2>2 DEF Inv, EventsFollow
    <3>6. marker'[Step(w)] = "STARTED" /\ \A s \in StepNames : s # Step(w) => marker'[s] = marker[s]
      BY <1>1, <3>1 DEF Inv, TypeOK
    <3> QED
      BY <1>1, <3>2, <3>3, <3>4, <3>5, <3>6 DEF Inv, EventsFollow
  <2>3. CASE marker[Step(w)] # "absent"
    BY <1>1, <2>3 DEF Inv, EventsFollow, TypeOK, Step, StartStep, Goto
  <2> QED  BY <2>2, <2>3
<1>10. StepEventsOnce'
  <2>1. UNCHANGED events  BY DEF StartStep
  <2> QED  BY <2>1 DEF Inv, StepEventsOnce
<1>11. Started'
  <2>1. \A x \in StepNames : marker'[x] = "absent" => marker[x] = "absent" /\ x # Step(w)
    BY <1>1 DEF Inv, TypeOK, StartStep
  <2>2. UNCHANGED un
    BY DEF StartStep
  <2>3. ASSUME NEW v \in Workers, Working(v)', pc'[v] # "startStep" PROVE marker'[Step(v)] # "absent"
    <3>1. CASE v = w  BY <1>1, <2>1, <3>1
    <3>2. CASE v # w
      <4>1. Working(v) /\ pc[v] # "startStep"
        BY <1>2, <2>3, <3>2 DEF OnlyMoves, Working
      <4>2. Step(v) \in StepNames
        BY <4>1 DEF Inv, Assigned, TypeOK, Step, Working
      <4> QED  BY <2>1, <4>1, <4>2 DEF Inv, Started
    <3> QED  BY <3>1, <3>2
  <2> QED  BY <2>2, <2>3 DEF Started, Step
<1>12. OneWorker'
  BY <1>1 DEF Inv, OneWorker, Assigned, TypeOK, StartStep, Goto
<1>13. FirstRun'
  BY <1>1 DEF Inv, FirstRun, OneWorker, TypeOK, Assigned, Kept, Step, Steps, EarlySteps,
     TrySteps, FailureSteps, LockedSteps, StartStep, Goto
<1>14. Begun'
  BY <1>1 DEF Inv, Begun, TypeOK, Kept, Working, Assigned, Step, NoCheckpoint, StartStep, Goto
<1>15. ResultsMade'
  BY <1>1 DEF Inv, ResultsMade, TypeOK, Assigned, Working, Steps, EarlySteps, TrySteps,
     FailureSteps, LockedSteps, StartStep, Goto
<1>16. Checkpointed'
  BY <1>1 DEF Inv, Checkpointed, TypeOK, Kept, Assigned, Step, Working, Steps, EarlySteps,
     TrySteps, FailureSteps, LockedSteps, StartStep, Goto
<1>17. CheckpointHolds'
  BY <1>1, <1>3, <1>4 DEF Inv, CheckpointHolds, DoomStays, UnmarkedStays, Kept, Succeeded,
     TypeOK, StartStep, Goto
<1>18. CompletionHolds'
  BY <1>1, <1>3, <1>4 DEF Inv, CompletionHolds, DoomStays, UnmarkedStays, Succeeded, UnitsOf,
     StepStatus, TypeOK, Success, StartStep, Goto
<1>19. NotLeftStarted'
  <2> SUFFICES ASSUME NEW s \in StepNames \ lost', UnitsOf(s) # {}, marker'[s] = "STARTED",
                      ~DoomedStep(s)'
               PROVE  \E x \in UnitsOf(s) : ~Past(x)' \/ Unmarked(x)'
    BY DEF NotLeftStarted, UnitsOf
  <2>1. s \notin lost /\ ~DoomedStep(s)  BY <1>3, <1>4 DEF StartStep, driver, DoomStays, UnmarkedStays
  <2>2. UnitsOf(s) \subseteq Units  BY DEF UnitsOf
  <2>3. CASE marker[s] = "STARTED"
    BY <1>4, <1>5, <2>1, <2>2, <2>3 DEF Inv, NotLeftStarted, UnmarkedStays, UnitsOf
  <2>4. CASE marker[s] # "STARTED"
    <3>1. marker[s] = "absent"  BY <1>1, <2>4 DEF Inv, TypeOK, StartStep
    <3>2. ASSUME NEW x \in UnitsOf(s) PROVE ~Past(x)
      <4>1. x \in Units /\ StepOf[x] = s  BY DEF UnitsOf
      <4>2. x \notin returned  BY <2>1, <3>1, <4>1 DEF Inv, Checkpointed, Kept
      <4>3. ~\E v \in Workers : un[v] = x /\ pc[v] = "return"
        BY <3>1, <4>1 DEF Inv, Started, Working, Step
      <4> QED  BY <4>2, <4>3 DEF Past
    <3> QED  BY <1>5, <2>2, <3>2
  <2> QED  BY <2>3, <2>4
<1>20. FailureHolds'
  <2>1. \A v \in Workers : pc[v] \in {"failStep", "failEvent", "failAttempt"} =>
          pc'[v] = pc[v] /\ un'[v] = un[v]
    BY <1>1, <1>2 DEF OnlyMoves, TrySteps, StartStep, Goto
  <2>2. \A s \in StepNames : marker[s] = "FAILED" => marker'[s] = "FAILED"
    BY <1>1 DEF Inv, TypeOK, StartStep, Goto
  <2>3. UNCHANGED <<receipt, failed, lost>>  BY DEF attempt, driver, StartStep
  <2> QED
    BY <2>1, <2>2, <2>3, GraphAssumption DEF Inv, FailureHolds, Kept
<1>21. DepsReturned'
  BY <1>1 DEF Inv, DepsReturned, TypeOK, StartStep, Goto
<1>22. OrdinaryInv'
  <2>1. PICK x \in {"startEvent", "running"} : pc' = [pc EXCEPT ![w] = x]
    BY DEF StartStep, Goto
  <2>2. pc[w] = "startStep" /\ UNCHANGED <<job, runs, receipt, result, checkpoint, failed, returned, refused, lost, un, run, outputs>>
    BY DEF StartStep, attempt, driver
  <2> QED
    BY <1>1, <2>1, <2>2 DEF Inv, OrdinaryInv, BuildJob, Working, TypeOK, Complete
<1>23. ReuseInv'
  <2>1. UNCHANGED <<runs, receipt, result, checkpoint>>
    BY DEF StartStep
  <2>2. Working(w)' => Working(w) /\ un'[w] = un[w] /\ run'[w] = run[w] /\ outputs'[w] = outputs[w]
    BY <1>1 DEF Inv, TypeOK, Working, EarlySteps, TrySteps, StartStep, Goto
  <2>3. pc'[w] \in EarlySteps \cup {"handler"} => pc[w] \in EarlySteps \cup {"handler"}
    BY <1>1 DEF Inv, TypeOK, EarlySteps, TrySteps, StartStep, Goto
  <2>4. torn \subseteq torn'
    BY DEF Torn, StartStep
  <2>5. (un[w] # NoUnit /\ pc[w] \in {"checkpoint", "failReceipt"}) =>
          \/ un'[w] = un[w] /\ run'[w] = run[w] /\ pc'[w] \in {"checkpoint", "failReceipt"}
          \/ torn' = Torn(w)
    BY <1>1 DEF Inv, TypeOK, EarlySteps, TrySteps, StartStep, Goto
  <2>6. \A d \in returned' : d \in returned \/ d \in torn \/ checkpoint[d] # NoCheckpoint
    BY <1>1 DEF Inv, Checkpointed, StartStep
  <2> QED  BY <1>2, <2>1, <2>2, <2>3, <2>4, <2>5, <2>6, ReuseKept
<1> QED
  BY <1>6, <1>7, <1>8, <1>9, <1>10, <1>11, <1>12, <1>13, <1>14, <1>15, <1>16, <1>17, <1>18,
     <1>19, <1>20, <1>21, <1>22, <1>23 DEF Inv

LEMMA LogStepStartedInv == ASSUME Inv, NEW w \in Workers, LogStepStarted(w) PROVE Inv'
<1> USE UnitNamesAssumption, UnitWorkersAssumption, GraphAssumption, MaxRunsAssumption
    DEF attempt, steps, driver, locals
<1>1. un[w] \in Units /\ Step(w) \in StepNames /\ Step(w) = StepOf[un[w]] /\ un[w] # NoUnit
  BY DEF Inv, Assigned, TypeOK, Step, LogStepStarted, Goto, Unlocked, Logged, Steps, EarlySteps,
     TrySteps, FailureSteps, LockedSteps
<1>2. OnlyMoves(w) /\ CheckpointsStay
  BY <1>1 DEF Inv, TypeOK, NoCheckpoint, LogStepStarted, Goto, Unlocked, Logged, OnlyMoves,
     CheckpointsStay
<1>3. DoomStays
  <2>1. (un[w] # NoUnit /\ Doomed(w)) =>
           (un'[w] = un[w] /\ Doomed(w)') \/ marker'[Step(w)] = "FAILED" \/ Step(w) \in lost'
    BY <1>1 DEF Doomed, Step, LogStepStarted, Goto, Unlocked, Logged, Inv, TypeOK, Steps,
       EarlySteps, TrySteps, FailureSteps, LockedSteps
  <2> QED  BY <1>2, <2>1, DoomKept
<1>4. UnmarkedStays
  <2>1. UNCHANGED receipt /\ returned \subseteq returned' /\ refused \subseteq refused' /\ (failed => failed')
    BY DEF LogStepStarted
  <2>2. (un[w] \in returned /\ Step(w) \notin lost' /\ pc[w] \in {"taskStarted", "failAttempt"}) =>
          \/ un'[w] = un[w] /\ pc'[w] \in {"taskStarted", "failAttempt"}
          \/ un[w] \in refused' /\ failed'
          \/ un'[w] = un[w] /\ Doomed(w)'
    BY <1>1 DEF Inv, TypeOK, TrySteps, LogStepStarted, Goto, Unlocked, Logged
  <2> QED  BY <1>2, <2>1, <2>2, UnmarkedKept
<1>5. \A x \in Units : Past(x)' => Past(x)
  BY <1>1, <1>2 DEF Inv, TypeOK, Past, OnlyMoves, LogStepStarted, Goto, Unlocked, Logged
<1>6. TypeOK'
  BY <1>1 DEF Inv, TypeOK, Receipts, Results, Checkpoints, Inputs, NoInputs, Runs, Markers,
     Success, StepEvents, StepStatus, Referenced, Steps, EarlySteps, TrySteps, FailureSteps,
     LockedSteps, LogStepStarted, Goto, Unlocked, Logged
<1>7. Assigned'
  BY <1>1 DEF Inv, Assigned, TypeOK, Working, Runs, NoUnit, Steps, EarlySteps, TrySteps,
     FailureSteps, LockedSteps, LogStepStarted, Goto, Unlocked, Logged
<1>8. Locked'
  BY <1>1 DEF Inv, Locked, Assigned, TypeOK, Step, Steps, EarlySteps, TrySteps, FailureSteps,
     LockedSteps, LogStepStarted, Goto, Unlocked, Logged
<1>9. EventsFollow'
  <2>1. \A v \in Workers \ {w} : pc[v] \in {"startEvent", "completeEvent"} => Step(v) # Step(w)
    BY <1>1 DEF Inv, Locked, LockedSteps, LogStepStarted
  <2>2. marker[Step(w)] # "absent"
    BY DEF Inv, Started, Working, LogStepStarted
  <2>3. \A s \in StepNames : s # Step(w) => events'[s] = events[s]
    BY <1>1 DEF Inv, TypeOK, LogStepStarted, Logged
  <2>4. /\ events'[Step(w)]["SUCCEEDED"] = events[Step(w)]["SUCCEEDED"]
        /\ events'[Step(w)]["COMPLETED_WITH_GAPS"] = events[Step(w)]["COMPLETED_WITH_GAPS"]
    BY <1>1 DEF Inv, TypeOK, StepEvents, LogStepStarted, Logged
  <2>5. \A s \in StepNames :
          /\ marker'[s] = "absent" => events'[s]["STARTED"] = 0
          /\ marker'[s] \in {"absent", "STARTED"} =>
               events'[s]["SUCCEEDED"] = 0 /\ events'[s]["COMPLETED_WITH_GAPS"] = 0
    BY <1>1, <2>2, <2>3, <2>4 DEF Inv, EventsFollow, LogStepStarted
  <2>6. \A v \in Workers : pc'[v] \in {"startEvent", "completeEvent"} =>
          v # w /\ pc[v] = pc'[v] /\ Step(v) \in StepNames /\ Step(v)' = Step(v)
    BY GraphAssumption DEF Inv, Assigned, TypeOK, Step, LogStepStarted, Goto
  <2> QED
    BY <2>1, <2>3, <2>5, <2>6 DEF Inv, EventsFollow, LogStepStarted
<1>10. StepEventsOnce'
  BY <1>1 DEF Inv, StepEventsOnce, EventsFollow, TypeOK, Step, Success, StepEvents,
     LogStepStarted, Goto, Unlocked, Logged
<1>11. Started'
  BY <1>1 DEF Inv, Started, TypeOK, Working, Assigned, Step, Success, StepStatus, Steps,
     EarlySteps, TrySteps, FailureSteps, LockedSteps, LogStepStarted, Goto, Unlocked, Logged
<1>12. OneWorker'
  BY <1>1 DEF Inv, OneWorker, Assigned, TypeOK, LogStepStarted, Goto, Unlocked, Logged
<1>13. FirstRun'
  BY <1>1 DEF Inv, FirstRun, OneWorker, TypeOK, Assigned, Kept, Step, Steps, EarlySteps,
     TrySteps, FailureSteps, LockedSteps, LogStepStarted, Goto, Unlocked, Logged
<1>14. Begun'
  BY <1>1 DEF Inv, Begun, TypeOK, Kept, Working, Assigned, Step, NoCheckpoint, LogStepStarted,
     Goto, Unlocked, Logged
<1>15. ResultsMade'
  BY <1>1 DEF Inv, ResultsMade, TypeOK, Assigned, Working, Steps, EarlySteps, TrySteps,
     FailureSteps, LockedSteps, LogStepStarted, Goto, Unlocked, Logged
<1>16. Checkpointed'
  BY <1>1 DEF Inv, Checkpointed, TypeOK, Kept, Assigned, Step, Working, Steps, EarlySteps,
     TrySteps, FailureSteps, LockedSteps, LogStepStarted, Goto, Unlocked, Logged
<1>17. CheckpointHolds'
  BY <1>1, <1>3, <1>4 DEF Inv, CheckpointHolds, DoomStays, UnmarkedStays, Kept, Succeeded,
     TypeOK, LogStepStarted, Goto, Unlocked, Logged
<1>18. CompletionHolds'
  <2>1. UNCHANGED <<marker, receipt, result>> /\ lost \subseteq lost'  BY DEF LogStepStarted
  <2> QED  BY <1>3, <1>4, <2>1, CompletionKept
<1>19. NotLeftStarted'
  <2>1. UNCHANGED marker /\ lost \subseteq lost'  BY DEF LogStepStarted
  <2> QED  BY <1>3, <1>4, <1>5, <2>1, NotLeftStartedKept
<1>20. FailureHolds'
  <2>1. \A v \in Workers : pc[v] \in {"failStep", "failEvent", "failAttempt"} =>
          pc'[v] = pc[v] /\ un'[v] = un[v]
    BY <1>1, <1>2 DEF OnlyMoves, LogStepStarted, Goto
  <2>2. UNCHANGED <<receipt, failed, lost, marker>>  BY DEF LogStepStarted
  <2> QED  BY <2>1, <2>2 DEF Inv, FailureHolds, Kept
<1>21. DepsReturned'
  BY <1>1 DEF Inv, DepsReturned, TypeOK, LogStepStarted, Goto, Unlocked, Logged
<1>22. OrdinaryInv'
  BY <1>1 DEF Inv, OrdinaryInv, BuildJob, Working, TypeOK, Complete, LogStepStarted, Goto,
     Unlocked, Logged
<1>23. ReuseInv'
  <2>1. UNCHANGED <<runs, receipt, result, checkpoint>>
    BY DEF LogStepStarted
  <2>2. Working(w)' => Working(w) /\ un'[w] = un[w] /\ run'[w] = run[w] /\ outputs'[w] = outputs[w]
    BY <1>1 DEF Inv, TypeOK, Working, EarlySteps, TrySteps, LogStepStarted, Goto, Unlocked, Logged
  <2>3. pc'[w] \in EarlySteps \cup {"handler"} => pc[w] \in EarlySteps \cup {"handler"}
    BY <1>1 DEF Inv, TypeOK, EarlySteps, TrySteps, LogStepStarted, Goto, Unlocked, Logged
  <2>4. torn \subseteq torn'
    BY DEF Torn, LogStepStarted
  <2>5. (un[w] # NoUnit /\ pc[w] \in {"checkpoint", "failReceipt"}) =>
          \/ un'[w] = un[w] /\ run'[w] = run[w] /\ pc'[w] \in {"checkpoint", "failReceipt"}
          \/ torn' = Torn(w)
    BY <1>1 DEF Inv, TypeOK, EarlySteps, TrySteps, LogStepStarted, Goto, Unlocked, Logged
  <2>6. \A d \in returned' : d \in returned \/ d \in torn \/ checkpoint[d] # NoCheckpoint
    BY <1>1 DEF Inv, Checkpointed, LogStepStarted
  <2> QED  BY <1>2, <2>1, <2>2, <2>3, <2>4, <2>5, <2>6, ReuseKept
<1> QED
  BY <1>6, <1>7, <1>8, <1>9, <1>10, <1>11, <1>12, <1>13, <1>14, <1>15, <1>16, <1>17, <1>18,
     <1>19, <1>20, <1>21, <1>22, <1>23 DEF Inv

LEMMA WriteRunningInv == ASSUME Inv, NEW w \in Workers, WriteRunning(w) PROVE Inv'
<1> USE UnitNamesAssumption, UnitWorkersAssumption, GraphAssumption, MaxRunsAssumption
    DEF attempt, steps, driver, locals
<1>1. un[w] \in Units /\ Step(w) \in StepNames /\ Step(w) = StepOf[un[w]] /\ un[w] # NoUnit
  BY DEF Inv, Assigned, TypeOK, Step, WriteRunning, Goto, Steps, EarlySteps, TrySteps,
     FailureSteps, LockedSteps
<1>2. OnlyMoves(w) /\ CheckpointsStay
  BY <1>1 DEF Inv, TypeOK, NoCheckpoint, WriteRunning, Goto, OnlyMoves, CheckpointsStay
<1>3. DoomStays
  <2>1. (un[w] # NoUnit /\ Doomed(w)) =>
           (un'[w] = un[w] /\ Doomed(w)') \/ marker'[Step(w)] = "FAILED" \/ Step(w) \in lost'
    BY <1>1 DEF Doomed, Step, WriteRunning, Goto, Inv, TypeOK, Steps, EarlySteps, TrySteps,
       FailureSteps, LockedSteps
  <2> QED  BY <1>2, <2>1, DoomKept
<1>4. UnmarkedStays
  <2>1. /\ \A x \in Units : receipt'[x].st = "RUNNING" <=> receipt[x].st = "RUNNING" \/ x = un[w]
        /\ UNCHANGED <<returned, refused, failed>>
    BY <1>1 DEF Inv, TypeOK, WriteRunning
  <2>2. \A v \in Workers : pc[v] \in {"taskStarted", "failAttempt"} => un'[v] = un[v] /\ pc'[v] = pc[v]
    BY <1>2 DEF OnlyMoves, WriteRunning
  <2> QED  BY <2>1, <2>2 DEF UnmarkedStays, Unmarked
<1>5. \A x \in Units : Past(x)' => Past(x)
  BY <1>1, <1>2 DEF Inv, TypeOK, Past, OnlyMoves, WriteRunning, Goto
<1>6. TypeOK'
  BY <1>1 DEF Inv, TypeOK, Receipts, Results, Checkpoints, Inputs, NoInputs, Runs, Markers,
     Success, StepEvents, StepStatus, Referenced, Steps, EarlySteps, TrySteps, FailureSteps,
     LockedSteps, WriteRunning, Goto
<1>7. Assigned'
  BY <1>1 DEF Inv, Assigned, TypeOK, Working, Runs, NoUnit, Steps, EarlySteps, TrySteps,
     FailureSteps, LockedSteps, WriteRunning, Goto
<1>8. Locked'
  BY <1>1 DEF Inv, Locked, Assigned, TypeOK, Step, Steps, EarlySteps, TrySteps, FailureSteps,
     LockedSteps, WriteRunning, Goto
<1>9. EventsFollow'
  BY <1>1 DEF Inv, EventsFollow, Locked, TypeOK, Step, Success, StepEvents, StepStatus, Steps,
     EarlySteps, TrySteps, FailureSteps, LockedSteps, WriteRunning, Goto
<1>10. StepEventsOnce'
  BY <1>1 DEF Inv, StepEventsOnce, EventsFollow, TypeOK, Step, Success, StepEvents,
     WriteRunning, Goto
<1>11. Started'
  BY <1>1 DEF Inv, Started, TypeOK, Working, Assigned, Step, Success, StepStatus, Steps,
     EarlySteps, TrySteps, FailureSteps, LockedSteps, WriteRunning, Goto
<1>12. OneWorker'
  BY <1>1 DEF Inv, OneWorker, Assigned, TypeOK, WriteRunning, Goto
<1>13. FirstRun'
  BY <1>1 DEF Inv, FirstRun, OneWorker, TypeOK, Assigned, Kept, Step, Steps, EarlySteps,
     TrySteps, FailureSteps, LockedSteps, WriteRunning, Goto
<1>14. Begun'
  <2>1. runs[un[w]] # 0
    BY WorkingRun DEF Working, WriteRunning
  <2> QED
    BY <1>1, <2>1 DEF Inv, Begun, TypeOK, Kept, WriteRunning, Goto
<1>15. ResultsMade'
  BY <1>1 DEF Inv, ResultsMade, TypeOK, Assigned, Working, Steps, EarlySteps, TrySteps,
     FailureSteps, LockedSteps, WriteRunning, Goto
<1>16. Checkpointed'
  BY <1>1 DEF Inv, Checkpointed, TypeOK, Kept, Assigned, Step, Working, Steps, EarlySteps,
     TrySteps, FailureSteps, LockedSteps, WriteRunning, Goto
<1>17. CheckpointHolds'
  <2>1. \A x \in Units : (x = un[w] /\ x \in returned) => Unmarked(x)'
    BY <1>1 DEF Inv, TypeOK, Unmarked, WriteRunning, Goto
  <2>2. (un[w] \notin returned /\ Kept(un[w])) => ~Succeeded(un[w]) /\ ~Unmarked(un[w])
    BY <1>1 DEF Inv, FirstRun, Succeeded, Unmarked, WriteRunning
  <2>3. \A x \in Units : x # un[w] => receipt'[x] = receipt[x]
    BY <1>1 DEF Inv, TypeOK, WriteRunning
  <2>4. UNCHANGED <<marker, result, checkpoint, lost>>  BY DEF WriteRunning
  <2> SUFFICES ASSUME NEW x \in Units, Kept(x), checkpoint[x] # NoCheckpoint,
                      marker[StepOf[x]] # "FAILED", ~DoomedStep(StepOf[x])'
               PROVE  Succeeded(x)' \/ Unmarked(x)'
    BY <2>4 DEF CheckpointHolds, Kept
  <2>5. ~DoomedStep(StepOf[x])  BY <1>3, <2>4 DEF DoomStays, Kept
  <2>6. Succeeded(x) \/ Unmarked(x)  BY <2>5 DEF Inv, CheckpointHolds
  <2>7. CASE x = un[w]  BY <2>1, <2>2, <2>6, <2>7
  <2>8. CASE x # un[w]
    BY <1>4, <2>3, <2>4, <2>6, <2>8 DEF UnmarkedStays, Kept, Succeeded
  <2> QED  BY <2>7, <2>8
<1>18. CompletionHolds'
  <2>1. \A x \in Units : (x = un[w] /\ x \in returned) => Unmarked(x)'
    BY <1>1 DEF Inv, TypeOK, Unmarked, WriteRunning, Goto
  <2>2. (un[w] \notin returned /\ Kept(un[w])) => ~Succeeded(un[w]) /\ ~Unmarked(un[w])
    BY <1>1 DEF Inv, FirstRun, Succeeded, Unmarked, WriteRunning
  <2>3. \A x \in Units : x # un[w] => receipt'[x] = receipt[x]
    BY <1>1 DEF Inv, TypeOK, WriteRunning
  <2>4. UNCHANGED <<marker, result, lost>>  BY DEF WriteRunning
  <2> SUFFICES ASSUME NEW s \in StepNames \ lost, marker[s] \in Success, ~DoomedStep(s)'
               PROVE  /\ \A x \in UnitsOf(s) : Succeeded(x)' \/ Unmarked(x)'
                      /\ marker[s] = StepStatus(s)'
    BY <2>4 DEF CompletionHolds, UnitsOf
  <2>5. ~DoomedStep(s)  BY <1>3, <2>4 DEF DoomStays, Success
  <2>6. (\A x \in UnitsOf(s) : Succeeded(x) \/ Unmarked(x)) /\ marker[s] = StepStatus(s)
    BY <2>5 DEF Inv, CompletionHolds
  <2>7. ASSUME NEW x \in UnitsOf(s) PROVE Succeeded(x)' \/ Unmarked(x)'
    <3>1. x \in Units /\ StepOf[x] = s /\ Kept(x)  BY DEF UnitsOf, Kept
    <3>2. CASE x = un[w]  BY <2>1, <2>2, <2>6, <3>1, <3>2
    <3>3. CASE x # un[w]
      BY <1>4, <2>3, <2>4, <2>6, <3>1, <3>3 DEF UnmarkedStays, Kept, Succeeded, Success
    <3> QED  BY <3>2, <3>3
  <2>8. StepStatus(s)' = StepStatus(s)  BY <2>4 DEF StepStatus, UnitsOf
  <2> QED  BY <2>6, <2>7, <2>8
<1>19. NotLeftStarted'
  <2>1. UNCHANGED marker /\ lost \subseteq lost'  BY DEF WriteRunning
  <2> QED  BY <1>3, <1>4, <1>5, <2>1, NotLeftStartedKept
<1>20. FailureHolds'
  BY <1>1 DEF Inv, FailureHolds, TypeOK, Kept, Step, Assigned, Steps, EarlySteps, TrySteps,
     FailureSteps, LockedSteps, WriteRunning, Goto
<1>21. DepsReturned'
  BY <1>1 DEF Inv, DepsReturned, TypeOK, WriteRunning, Goto
<1>22. OrdinaryInv'
  BY <1>1 DEF Inv, OrdinaryInv, BuildJob, Working, TypeOK, Complete, WriteRunning, Goto
<1>23. ReuseInv'
  <2>1. /\ receipt'[un[w]] = [st |-> "RUNNING", run |-> run[w], res |-> 0]
        /\ \A x \in Units : x # un[w] => receipt'[x] = receipt[x]
        /\ UNCHANGED <<runs, result, checkpoint, torn, returned, un, run, outputs>>
    BY <1>1 DEF Inv, TypeOK, WriteRunning
  <2>2. \A v \in Workers : /\ Working(v)' => Working(v)
                           /\ pc'[v] \in EarlySteps \cup {"handler"} => pc[v] \in EarlySteps \cup {"handler"}
    BY <1>2 DEF OnlyMoves, Working, EarlySteps, WriteRunning, Goto
  <2>3. \A v \in Workers : pc[v] \in {"checkpoint", "failReceipt"} => pc'[v] = pc[v]
    BY <1>2 DEF OnlyMoves, WriteRunning
  <2>4. Fresh'
    <3>1. \A x \in Units : receipt'[x].res <= runs'[x]
      <4>1. runs[un[w]] \in Nat  BY <1>1 DEF Inv, TypeOK, Runs
      <4> QED  BY <1>1, <2>1, <4>1 DEF Inv, ReuseInv, Fresh
    <3>2. ASSUME NEW v \in Workers, pc'[v] \in EarlySteps \cup {"handler"}
          PROVE  /\ run'[v] # result'[un'[v]].run /\ run'[v] # receipt'[un'[v]].res
                 /\ run'[v] # checkpoint'[un'[v]].res
      <4>1. pc[v] \in EarlySteps \cup {"handler"}  BY <2>2, <3>2
      <4>2. run[v] # 0 /\ un[v] \in Units
        BY <4>1, WorkingRun DEF Working, EarlySteps, Inv, Assigned, TypeOK
      <4> QED  BY <2>1, <4>1, <4>2 DEF Inv, ReuseInv, Fresh
    <3> QED  BY <2>1, <2>2, <3>1, <3>2 DEF Inv, ReuseInv, Fresh
  <2>5. Backed'
    BY <2>1, <2>3 DEF Inv, ReuseInv, Backed, Complete
  <2>6. ReturnedBacked'  BY <2>1 DEF Inv, ReuseInv, ReturnedBacked
  <2>7. ReadBacked'  BY <2>1, <2>2 DEF Inv, ReuseInv, ReadBacked, FromCheckpoint
  <2> QED  BY <2>4, <2>5, <2>6, <2>7 DEF ReuseInv
<1> QED
  BY <1>6, <1>7, <1>8, <1>9, <1>10, <1>11, <1>12, <1>13, <1>14, <1>15, <1>16, <1>17, <1>18,
     <1>19, <1>20, <1>21, <1>22, <1>23 DEF Inv

LEMMA LogTaskStartedInv == ASSUME Inv, NEW w \in Workers, LogTaskStarted(w) PROVE Inv'
<1> USE UnitNamesAssumption, UnitWorkersAssumption, GraphAssumption, MaxRunsAssumption
    DEF attempt, steps, driver, locals
<1>1. un[w] \in Units /\ Step(w) \in StepNames /\ Step(w) = StepOf[un[w]] /\ un[w] # NoUnit
  BY DEF Inv, Assigned, TypeOK, Step, LogTaskStarted, Goto, Steps, EarlySteps, TrySteps,
     FailureSteps, LockedSteps
<1>2. OnlyMoves(w) /\ CheckpointsStay
  BY <1>1 DEF Inv, TypeOK, NoCheckpoint, LogTaskStarted, Goto, OnlyMoves, CheckpointsStay
<1>3. DoomStays
  <2>1. (un[w] # NoUnit /\ Doomed(w)) =>
           (un'[w] = un[w] /\ Doomed(w)') \/ marker'[Step(w)] = "FAILED" \/ Step(w) \in lost'
    BY <1>1 DEF Doomed, Step, LogTaskStarted, Goto, Inv, TypeOK, Steps, EarlySteps,
       TrySteps, FailureSteps, LockedSteps
  <2> QED  BY <1>2, <2>1, DoomKept
<1>4. UnmarkedStays
  <2>1. UNCHANGED receipt /\ returned \subseteq returned' /\ refused \subseteq refused' /\ (failed => failed')
    BY DEF LogTaskStarted
  <2>2. (un[w] \in returned /\ Step(w) \notin lost' /\ pc[w] \in {"taskStarted", "failAttempt"}) =>
          \/ un'[w] = un[w] /\ pc'[w] \in {"taskStarted", "failAttempt"}
          \/ un[w] \in refused' /\ failed'
          \/ un'[w] = un[w] /\ Doomed(w)'
    <3>1. (un[w] \in returned /\ Step(w) \notin lost') => checkpoint[un[w]] # NoCheckpoint
      BY <1>1 DEF Inv, Checkpointed, Kept, LogTaskStarted
    <3> QED  BY <1>1, <3>1 DEF Inv, TypeOK, Doomed, LogTaskStarted, Goto
  <2> QED  BY <1>2, <2>1, <2>2, UnmarkedKept
<1>5. \A x \in Units : Past(x)' => Past(x)
  BY <1>1, <1>2 DEF Inv, TypeOK, Past, OnlyMoves, LogTaskStarted, Goto
<1>6. TypeOK'
  BY <1>1 DEF Inv, TypeOK, Receipts, Results, Checkpoints, Inputs, NoInputs, Runs, Markers,
     Success, StepEvents, StepStatus, Referenced, Steps, EarlySteps, TrySteps, FailureSteps,
     LockedSteps, LogTaskStarted, Goto
<1>7. Assigned'
  BY <1>1 DEF Inv, Assigned, TypeOK, Working, Runs, NoUnit, Steps, EarlySteps, TrySteps,
     FailureSteps, LockedSteps, LogTaskStarted, Goto
<1>8. Locked'
  BY <1>1 DEF Inv, Locked, Assigned, TypeOK, Step, Steps, EarlySteps, TrySteps, FailureSteps,
     LockedSteps, LogTaskStarted, Goto
<1>9. EventsFollow'
  BY <1>1 DEF Inv, EventsFollow, Locked, TypeOK, Step, Success, StepEvents, StepStatus, Steps,
     EarlySteps, TrySteps, FailureSteps, LockedSteps, LogTaskStarted, Goto
<1>10. StepEventsOnce'
  BY <1>1 DEF Inv, StepEventsOnce, EventsFollow, TypeOK, Step, Success, StepEvents, LogTaskStarted,
     Goto
<1>11. Started'
  BY <1>1 DEF Inv, Started, TypeOK, Working, Assigned, Step, Success, StepStatus, Steps,
     EarlySteps, TrySteps, FailureSteps, LockedSteps, LogTaskStarted, Goto
<1>12. OneWorker'
  BY <1>1 DEF Inv, OneWorker, Assigned, TypeOK, LogTaskStarted, Goto
<1>13. FirstRun'
  BY <1>1 DEF Inv, FirstRun, OneWorker, TypeOK, Assigned, Kept, Step, Steps, EarlySteps,
     TrySteps, FailureSteps, LockedSteps, LogTaskStarted, Goto
<1>14. Begun'
  BY <1>1 DEF Inv, Begun, TypeOK, Kept, Working, Assigned, Step, NoCheckpoint, LogTaskStarted,
     Goto
<1>15. ResultsMade'
  BY <1>1 DEF Inv, ResultsMade, TypeOK, Assigned, Working, Steps, EarlySteps, TrySteps,
     FailureSteps, LockedSteps, LogTaskStarted, Goto
<1>16. Checkpointed'
  BY <1>1 DEF Inv, Checkpointed, TypeOK, Kept, Assigned, Step, Working, Steps, EarlySteps,
     TrySteps, FailureSteps, LockedSteps, LogTaskStarted, Goto
<1>17. CheckpointHolds'
  BY <1>1, <1>3, <1>4 DEF Inv, CheckpointHolds, DoomStays, UnmarkedStays, Kept, Succeeded,
     TypeOK, LogTaskStarted, Goto
<1>18. CompletionHolds'
  <2>1. UNCHANGED <<marker, receipt, result>> /\ lost \subseteq lost'  BY DEF LogTaskStarted
  <2> QED  BY <1>3, <1>4, <2>1, CompletionKept
<1>19. NotLeftStarted'
  <2>1. UNCHANGED marker /\ lost \subseteq lost'  BY DEF LogTaskStarted
  <2> QED  BY <1>3, <1>4, <1>5, <2>1, NotLeftStartedKept
<1>20. FailureHolds'
  BY <1>1 DEF Inv, FailureHolds, TypeOK, Kept, Step, Assigned, Steps, EarlySteps, TrySteps,
     FailureSteps, LockedSteps, LogTaskStarted, Goto
<1>21. DepsReturned'
  BY <1>1 DEF Inv, DepsReturned, TypeOK, LogTaskStarted, Goto
<1>22. OrdinaryInv'
  BY <1>1 DEF Inv, OrdinaryInv, BuildJob, Working, TypeOK, Complete, LogTaskStarted, Goto
<1>23. ReuseInv'
  <2>1. UNCHANGED <<runs, receipt, result, checkpoint>>
    BY DEF LogTaskStarted
  <2>2. Working(w)' => Working(w) /\ un'[w] = un[w] /\ run'[w] = run[w] /\ outputs'[w] = outputs[w]
    BY <1>1 DEF Inv, TypeOK, Working, EarlySteps, TrySteps, LogTaskStarted, Goto
  <2>3. pc'[w] \in EarlySteps \cup {"handler"} => pc[w] \in EarlySteps \cup {"handler"}
    BY <1>1 DEF Inv, TypeOK, EarlySteps, TrySteps, LogTaskStarted, Goto
  <2>4. torn \subseteq torn'
    BY DEF Torn, LogTaskStarted
  <2>5. (un[w] # NoUnit /\ pc[w] \in {"checkpoint", "failReceipt"}) =>
          \/ un'[w] = un[w] /\ run'[w] = run[w] /\ pc'[w] \in {"checkpoint", "failReceipt"}
          \/ torn' = Torn(w)
    BY <1>1 DEF Inv, TypeOK, EarlySteps, TrySteps, LogTaskStarted, Goto
  <2>6. \A d \in returned' : d \in returned \/ d \in torn \/ checkpoint[d] # NoCheckpoint
    BY <1>1 DEF Inv, Checkpointed, LogTaskStarted
  <2> QED  BY <1>2, <2>1, <2>2, <2>3, <2>4, <2>5, <2>6, ReuseKept
<1> QED
  BY <1>6, <1>7, <1>8, <1>9, <1>10, <1>11, <1>12, <1>13, <1>14, <1>15, <1>16, <1>17, <1>18,
     <1>19, <1>20, <1>21, <1>22, <1>23 DEF Inv

LEMMA WriteResultInv == ASSUME Inv, NEW w \in Workers, NEW gap \in BOOLEAN, WriteResult(w, gap) PROVE Inv'
<1> USE UnitNamesAssumption, UnitWorkersAssumption, GraphAssumption, MaxRunsAssumption
    DEF attempt, steps, driver, locals
<1>1. un[w] \in Units /\ Step(w) \in StepNames /\ Step(w) = StepOf[un[w]] /\ un[w] # NoUnit
  BY DEF Inv, Assigned, TypeOK, Step, WriteResult, Goto, Steps, EarlySteps, TrySteps,
     FailureSteps, LockedSteps
<1>2. OnlyMoves(w) /\ CheckpointsStay
  BY <1>1 DEF Inv, TypeOK, NoCheckpoint, WriteResult, Goto, OnlyMoves, CheckpointsStay
<1>3. DoomStays
  <2>1. (un[w] # NoUnit /\ Doomed(w)) =>
           (un'[w] = un[w] /\ Doomed(w)') \/ marker'[Step(w)] = "FAILED" \/ Step(w) \in lost'
    BY <1>1 DEF Doomed, Step, WriteResult, Goto, Inv, TypeOK, Steps, EarlySteps, TrySteps,
       FailureSteps, LockedSteps
  <2> QED  BY <1>2, <2>1, DoomKept
<1>4. UnmarkedStays
  <2>1. UNCHANGED receipt /\ returned \subseteq returned' /\ refused \subseteq refused' /\ (failed => failed')
    BY DEF WriteResult
  <2>2. (un[w] \in returned /\ Step(w) \notin lost' /\ pc[w] \in {"taskStarted", "failAttempt"}) =>
          \/ un'[w] = un[w] /\ pc'[w] \in {"taskStarted", "failAttempt"}
          \/ un[w] \in refused' /\ failed'
          \/ un'[w] = un[w] /\ Doomed(w)'
    BY <1>1 DEF Inv, TypeOK, TrySteps, WriteResult, Goto
  <2> QED  BY <1>2, <2>1, <2>2, UnmarkedKept
<1>5. \A x \in Units : Past(x)' => Past(x)
  BY <1>1, <1>2 DEF Inv, TypeOK, Past, OnlyMoves, WriteResult, Goto
<1>6. TypeOK'
  BY <1>1 DEF Inv, TypeOK, Receipts, Results, Checkpoints, Inputs, NoInputs, Runs, Markers,
     Success, StepEvents, StepStatus, Referenced, Steps, EarlySteps, TrySteps, FailureSteps,
     LockedSteps, WriteResult, Goto
<1>7. Assigned'
  BY <1>1 DEF Inv, Assigned, TypeOK, Working, Runs, NoUnit, Steps, EarlySteps, TrySteps,
     FailureSteps, LockedSteps, WriteResult, Goto
<1>8. Locked'
  BY <1>1 DEF Inv, Locked, Assigned, TypeOK, Step, Steps, EarlySteps, TrySteps, FailureSteps,
     LockedSteps, WriteResult, Goto
<1>9. EventsFollow'
  BY <1>1 DEF Inv, EventsFollow, Locked, TypeOK, Step, Success, StepEvents, StepStatus, Steps,
     EarlySteps, TrySteps, FailureSteps, LockedSteps, WriteResult, Goto
<1>10. StepEventsOnce'
  BY <1>1 DEF Inv, StepEventsOnce, EventsFollow, TypeOK, Step, Success, StepEvents, WriteResult,
     Goto
<1>11. Started'
  BY <1>1 DEF Inv, Started, TypeOK, Working, Assigned, Step, Success, StepStatus, Steps,
     EarlySteps, TrySteps, FailureSteps, LockedSteps, WriteResult, Goto
<1>12. OneWorker'
  BY <1>1 DEF Inv, OneWorker, Assigned, TypeOK, WriteResult, Goto
<1>13. FirstRun'
  BY <1>1 DEF Inv, FirstRun, OneWorker, TypeOK, Assigned, Kept, Step, Steps, EarlySteps,
     TrySteps, FailureSteps, LockedSteps, WriteResult, Goto
<1>14. Begun'
  <2>1. runs[un[w]] # 0
    BY WorkingRun DEF Working, WriteResult
  <2> QED
    BY <1>1, <2>1 DEF Inv, Begun, TypeOK, Kept, WriteResult, Goto
<1>15. ResultsMade'
  BY <1>1 DEF Inv, ResultsMade, TypeOK, Assigned, Working, Steps, EarlySteps, TrySteps,
     FailureSteps, LockedSteps, WriteResult, Goto
<1>16. Checkpointed'
  BY <1>1 DEF Inv, Checkpointed, TypeOK, Kept, Assigned, Step, Working, Steps, EarlySteps,
     TrySteps, FailureSteps, LockedSteps, WriteResult, Goto
<1>17. CheckpointHolds'
  <2>1. checkpoint[un[w]] # NoCheckpoint => DoomedStep(Step(w))'
    BY <1>1 DEF Inv, TypeOK, DoomedStep, Doomed, Step, WriteResult, Goto
  <2>2. \A x \in Units : x # un[w] => receipt'[x] = receipt[x] /\ result'[x] = result[x]
    BY <1>1 DEF Inv, TypeOK, WriteResult
  <2>3. UNCHANGED <<marker, checkpoint, lost, un>>  BY DEF WriteResult, steps, driver
  <2> QED
    BY <1>1, <1>3, <1>4, <2>1, <2>2, <2>3, GraphAssumption
    DEF Inv, CheckpointHolds, DoomStays, UnmarkedStays, Kept, Succeeded, Step
<1>18. CompletionHolds'
  <2>1. checkpoint[un[w]] # NoCheckpoint => DoomedStep(Step(w))'
    BY <1>1 DEF Inv, TypeOK, DoomedStep, Doomed, Step, WriteResult, Goto
  <2>2. (Step(w) \notin lost /\ checkpoint[un[w]] = NoCheckpoint) =>
          receipt[un[w]].st # "SUCCEEDED" /\ un[w] \notin returned
    BY <1>1 DEF Inv, Checkpointed, FirstRun, Kept, WriteResult
  <2> SUFFICES ASSUME NEW s \in StepNames \ lost', marker'[s] \in Success, ~DoomedStep(s)'
               PROVE  /\ \A x \in UnitsOf(s) : Succeeded(x)' \/ Unmarked(x)'
                      /\ marker'[s] = StepStatus(s)'
    BY DEF CompletionHolds, UnitsOf
  <2>3. ~DoomedStep(s)  BY <1>3, <1>4 DEF DoomStays, UnmarkedStays, Success
  <2>4. (\A x \in UnitsOf(s) : Succeeded(x) \/ Unmarked(x)) /\ marker[s] = StepStatus(s) /\ s \notin lost
    BY <2>3 DEF Inv, CompletionHolds, steps, driver, WriteResult
  <2>5. s # Step(w)
    <3>1. Step(w)' = Step(w)  BY DEF Step, WriteResult
    <3> QED  BY <1>1, <2>1, <2>2, <2>4, <3>1 DEF UnitsOf, Succeeded, Unmarked
  <2>6. \A x \in UnitsOf(s) : receipt'[x] = receipt[x] /\ result'[x] = result[x]
    BY <1>1, <2>5 DEF Inv, TypeOK, UnitsOf, WriteResult
  <2>7. marker'[s] = marker[s]  BY DEF WriteResult, steps
  <2>8. \A x \in UnitsOf(s) : Succeeded(x)' \/ Unmarked(x)'
    BY <1>4, <2>4, <2>6, <2>7 DEF Succeeded, UnmarkedStays, UnitsOf, Success
  <2>9. StepStatus(s)' = StepStatus(s)  BY <2>6 DEF StepStatus, UnitsOf
  <2> QED  BY <2>4, <2>8, <2>9, <2>7
<1>19. NotLeftStarted'
  <2>1. UNCHANGED marker /\ lost \subseteq lost'  BY DEF WriteResult
  <2> QED  BY <1>3, <1>4, <1>5, <2>1, NotLeftStartedKept
<1>20. FailureHolds'
  <2>1. \A v \in Workers : pc[v] \in {"failStep", "failEvent", "failAttempt"} =>
          pc'[v] = pc[v] /\ un'[v] = un[v]
    BY <1>1, <1>2 DEF OnlyMoves, WriteResult, Goto
  <2>2. UNCHANGED <<receipt, failed, lost, marker>>  BY DEF WriteResult
  <2> QED  BY <2>1, <2>2 DEF Inv, FailureHolds, Kept
<1>21. DepsReturned'
  BY <1>1 DEF Inv, DepsReturned, TypeOK, WriteResult, Goto
<1>22. OrdinaryInv'
  <2> SUFFICES ASSUME ~BuildJob PROVE OrdinaryInv'
    BY DEF OrdinaryInv, BuildJob, WriteResult
  <2>1. /\ result'[un[w]] = [run |-> run[w], gap |-> gap, from |-> outputs[w]]
        /\ \A x \in Units : x # un[w] => result'[x] = result[x]
    BY <1>1 DEF Inv, TypeOK, WriteResult
  <2>2. UNCHANGED <<job, receipt, checkpoint, failed, returned, un, outputs>>
        /\ pc' = [pc EXCEPT ![w] = "receipt"]
    BY DEF WriteResult, Goto, driver
  <2>3. \A v \in Workers : Working(v)' => Working(v) /\ un[v] # NoUnit
    BY <1>2 DEF OnlyMoves, Working, WriteResult, Inv, Assigned
  <2>4. Working(w)  BY DEF Working, WriteResult
  <2>5. un[w] \notin returned  BY <1>1 DEF Inv, OrdinaryInv
  <2>6. \A d \in returned : result'[d] = result[d]  BY <2>1, <2>5 DEF Inv, TypeOK
  <2>7. \A x \in returned' : Complete(x)'
    BY <2>2, <2>6 DEF Inv, OrdinaryInv, Complete
  <2>8. ASSUME NEW v \in Workers, Working(v)', NEW d \in RequiredOutputs(un'[v])
        PROVE  outputs'[v][d] = result'[d].run
    <3>1. d \in returned  BY <2>2, <2>3, <2>8, RequiredOfWork
    <3> QED  BY <2>2, <2>3, <2>6, <2>8, <3>1 DEF Inv, OrdinaryInv
  <2>9. ASSUME NEW x \in Units, result'[x].run # 0, NEW d \in RequiredOutputs(x)
        PROVE  result'[x].from[d] = result'[d].run
    <3>1. CASE x = un[w]
      <4>1. d \in returned  BY <2>3, <2>9, <1>1, <3>1, RequiredOfWork
      <4> QED  BY <2>1, <2>4, <2>6, <2>9, <3>1, <4>1 DEF Inv, OrdinaryInv
    <3>2. CASE x # un[w]
      <4>1. d \in returned  BY <2>1, <2>9, <3>2, RequiredOfWork
      <4> QED  BY <2>1, <2>6, <2>9, <3>2, <4>1 DEF Inv, OrdinaryInv
    <3> QED  BY <3>1, <3>2
  <2> QED  BY <2>2, <2>7, <2>8, <2>9 DEF Inv, OrdinaryInv
<1>23. ReuseInv'
  <2>1. /\ result'[un[w]] = [run |-> run[w], gap |-> gap, from |-> outputs[w]]
        /\ \A x \in Units : x # un[w] => result'[x] = result[x]
        /\ UNCHANGED <<runs, receipt, checkpoint, torn, returned, un, run, outputs>>
        /\ pc[w] = "handler" /\ pc'[w] = "receipt"
    BY <1>1 DEF Inv, TypeOK, WriteResult, Goto
  <2>2. \A v \in Workers : /\ Working(v)' => Working(v)
                           /\ pc'[v] \in EarlySteps \cup {"handler"} =>
                                v # w /\ pc[v] \in EarlySteps \cup {"handler"}
                           /\ pc[v] \in {"checkpoint", "failReceipt"} => pc'[v] = pc[v]
    BY <1>2, <2>1 DEF OnlyMoves, Working, EarlySteps
  <2>3. Working(w)  BY <2>1 DEF Working
  <2>4. run[w] # receipt[un[w]].res /\ run[w] # checkpoint[un[w]].res
    BY <2>1 DEF Inv, ReuseInv, Fresh
  <2>5. Fresh'
    <3>1. ASSUME NEW v \in Workers, pc'[v] \in EarlySteps \cup {"handler"}
          PROVE  /\ run'[v] # result'[un'[v]].run /\ run'[v] # receipt'[un'[v]].res
                 /\ run'[v] # checkpoint'[un'[v]].res
      <4>1. v # w /\ pc[v] \in EarlySteps \cup {"handler"}  BY <2>2, <3>1
      <4>2. un[v] \in Units /\ Working(v)
        BY <4>1 DEF EarlySteps, Inv, Assigned, TypeOK, Working
      <4>3. un[v] = un[w] => run[v] # run[w]
        BY <2>3, <4>1, <4>2 DEF Inv, ReuseInv, Fresh
      <4> QED  BY <2>1, <4>1, <4>2, <4>3 DEF Inv, ReuseInv, Fresh
    <3> QED  BY <2>1, <2>2, <3>1 DEF Inv, ReuseInv, Fresh
  <2>6. Backed'
    BY <1>1, <2>1, <2>2, <2>4 DEF Inv, ReuseInv, Backed, Complete
  <2>7. ReturnedBacked'  BY <2>1 DEF Inv, ReuseInv, ReturnedBacked
  <2>8. ASSUME NEW d \in Units, NEW r, FromCheckpoint(r, d)
        PROVE  r = checkpoint'[d].res \/ result'[d].run # checkpoint'[d].res
    BY <2>1, <2>4, <2>8 DEF FromCheckpoint
  <2>9. ASSUME NEW v \in Workers, Working(v)', NEW d \in RequiredOutputs(un'[v]) \ torn'
        PROVE  FromCheckpoint(outputs[v][d], d)'
    <3>1. d \in Units  BY DEF RequiredOutputs
    <3>2. FromCheckpoint(outputs[v][d], d)  BY <2>1, <2>2, <2>9 DEF Inv, ReuseInv, ReadBacked
    <3> QED  BY <2>1, <2>8, <3>1, <3>2 DEF FromCheckpoint
  <2>10. ASSUME NEW x \in Units, result'[x].run # 0, NEW d \in RequiredOutputs(x) \ torn'
         PROVE  FromCheckpoint(result[x].from[d], d)'
    <3>1. d \in Units  BY DEF RequiredOutputs
    <3>2. CASE x = un[w]
      <4>1. FromCheckpoint(outputs[w][d], d)
        BY <2>1, <2>3, <2>10, <3>2 DEF Inv, ReuseInv, ReadBacked
      <4>2. result'[x].from[d] = outputs[w][d]  BY <2>1, <3>2
      <4> QED  BY <2>8, <3>1, <4>1, <4>2 DEF FromCheckpoint
    <3>3. CASE x # un[w]
      <4>1. result'[x] = result[x]  BY <2>1, <3>3
      <4>2. FromCheckpoint(result[x].from[d], d)
        BY <2>1, <2>10, <4>1 DEF Inv, ReuseInv, ReadBacked
      <4> QED  BY <2>8, <3>1, <4>1, <4>2 DEF FromCheckpoint
    <3> QED  BY <3>2, <3>3
  <2> QED  BY <2>5, <2>6, <2>7, <2>9, <2>10 DEF ReuseInv, ReadBacked
<1> QED
  BY <1>6, <1>7, <1>8, <1>9, <1>10, <1>11, <1>12, <1>13, <1>14, <1>15, <1>16, <1>17, <1>18,
     <1>19, <1>20, <1>21, <1>22, <1>23 DEF Inv

LEMMA WriteSucceededInv == ASSUME Inv, NEW w \in Workers, WriteSucceeded(w) PROVE Inv'
<1> USE UnitNamesAssumption, UnitWorkersAssumption, GraphAssumption, MaxRunsAssumption
    DEF attempt, steps, driver, locals
<1>1. un[w] \in Units /\ Step(w) \in StepNames /\ Step(w) = StepOf[un[w]] /\ un[w] # NoUnit
  BY DEF Inv, Assigned, TypeOK, Step, WriteSucceeded, Goto, Steps, EarlySteps, TrySteps,
     FailureSteps, LockedSteps
<1>2. OnlyMoves(w) /\ CheckpointsStay
  BY <1>1 DEF Inv, TypeOK, NoCheckpoint, WriteSucceeded, Goto, OnlyMoves, CheckpointsStay
<1>3. DoomStays
  <2>1. (un[w] # NoUnit /\ Doomed(w)) =>
           (un'[w] = un[w] /\ Doomed(w)') \/ marker'[Step(w)] = "FAILED" \/ Step(w) \in lost'
    BY <1>1 DEF Doomed, Step, WriteSucceeded, Goto, Inv, TypeOK, Steps, EarlySteps, TrySteps,
       FailureSteps, LockedSteps
  <2> QED  BY <1>2, <2>1, DoomKept
<1>4. UnmarkedStays
  <2> SUFFICES ASSUME NEW x \in Units, StepOf[x] \notin lost', Unmarked(x)
               PROVE  Unmarked(x)' \/ DoomedStep(StepOf[x])'
    BY DEF UnmarkedStays
  <2>1. CASE x = un[w]
    <3>1. checkpoint[x] # NoCheckpoint
      BY <1>1, <2>1 DEF Inv, Checkpointed, Kept, Unmarked, WriteSucceeded
    <3> QED  BY <1>1, <2>1, <3>1 DEF Inv, TypeOK, DoomedStep, Doomed, Step, WriteSucceeded, Goto
  <2>2. CASE x # un[w]
    <3>1. receipt'[x] = receipt[x] /\ UNCHANGED <<returned, refused, failed>>
      BY <1>1, <2>2 DEF Inv, TypeOK, WriteSucceeded
    <3>2. \A v \in Workers : pc[v] \in {"taskStarted", "failAttempt"} => un'[v] = un[v] /\ pc'[v] = pc[v]
      BY <1>2 DEF OnlyMoves, WriteSucceeded
    <3> QED  BY <3>1, <3>2 DEF Unmarked
  <2> QED  BY <2>1, <2>2
<1>5. \A x \in Units : Past(x)' => Past(x)
  BY <1>1, <1>2 DEF Inv, TypeOK, Past, OnlyMoves, WriteSucceeded, Goto
<1>6. TypeOK'
  BY <1>1 DEF Inv, TypeOK, Receipts, Results, Checkpoints, Inputs, NoInputs, Runs, Markers,
     Success, StepEvents, StepStatus, Referenced, Steps, EarlySteps, TrySteps, FailureSteps,
     LockedSteps, WriteSucceeded, Goto
<1>7. Assigned'
  BY <1>1 DEF Inv, Assigned, TypeOK, Working, Runs, NoUnit, Steps, EarlySteps, TrySteps,
     FailureSteps, LockedSteps, WriteSucceeded, Goto
<1>8. Locked'
  BY <1>1 DEF Inv, Locked, Assigned, TypeOK, Step, Steps, EarlySteps, TrySteps, FailureSteps,
     LockedSteps, WriteSucceeded, Goto
<1>9. EventsFollow'
  BY <1>1 DEF Inv, EventsFollow, Locked, TypeOK, Step, Success, StepEvents, StepStatus, Steps,
     EarlySteps, TrySteps, FailureSteps, LockedSteps, WriteSucceeded, Goto
<1>10. StepEventsOnce'
  BY <1>1 DEF Inv, StepEventsOnce, EventsFollow, TypeOK, Step, Success, StepEvents,
     WriteSucceeded, Goto
<1>11. Started'
  BY <1>1 DEF Inv, Started, TypeOK, Working, Assigned, Step, Success, StepStatus, Steps,
     EarlySteps, TrySteps, FailureSteps, LockedSteps, WriteSucceeded, Goto
<1>12. OneWorker'
  BY <1>1 DEF Inv, OneWorker, Assigned, TypeOK, WriteSucceeded, Goto
<1>13. FirstRun'
  BY <1>1 DEF Inv, FirstRun, OneWorker, TypeOK, Assigned, Kept, Step, Steps, EarlySteps,
     TrySteps, FailureSteps, LockedSteps, WriteSucceeded, Goto
<1>14. Begun'
  <2>1. runs[un[w]] # 0
    BY WorkingRun DEF Working, WriteSucceeded
  <2>2. \A x \in Units : x # un[w] => receipt'[x] = receipt[x] /\ checkpoint'[x] = checkpoint[x]
    BY <1>1 DEF Inv, TypeOK, WriteSucceeded
  <2>3. UNCHANGED <<runs, result, un, returned, refused, lost>>  BY DEF WriteSucceeded, driver
  <2> QED
    BY <2>1, <2>2, <2>3 DEF Inv, Begun, Kept
<1>15. ResultsMade'
  BY <1>1 DEF Inv, ResultsMade, TypeOK, Assigned, Working, Steps, EarlySteps, TrySteps,
     FailureSteps, LockedSteps, WriteSucceeded, Goto
<1>16. Checkpointed'
  BY <1>1 DEF Inv, Checkpointed, TypeOK, Kept, Assigned, Step, Working, Steps, EarlySteps,
     TrySteps, FailureSteps, LockedSteps, WriteSucceeded, Goto
<1>17. CheckpointHolds'
  BY <1>1, <1>3, <1>4 DEF Inv, CheckpointHolds, DoomStays, UnmarkedStays, Kept, Succeeded,
     TypeOK, WriteSucceeded, Goto
<1>18. CompletionHolds'
  BY <1>1, <1>3, <1>4 DEF Inv, CompletionHolds, DoomStays, UnmarkedStays, Succeeded, UnitsOf,
     StepStatus, TypeOK, Success, WriteSucceeded, Goto
<1>19. NotLeftStarted'
  <2>1. UNCHANGED marker /\ lost \subseteq lost'  BY DEF WriteSucceeded
  <2> QED  BY <1>3, <1>4, <1>5, <2>1, NotLeftStartedKept
<1>20. FailureHolds'
  BY <1>1 DEF Inv, FailureHolds, TypeOK, Kept, Step, Assigned, Steps, EarlySteps, TrySteps,
     FailureSteps, LockedSteps, WriteSucceeded, Goto
<1>21. DepsReturned'
  BY <1>1 DEF Inv, DepsReturned, TypeOK, WriteSucceeded, Goto
<1>22. OrdinaryInv'
  BY <1>1 DEF Inv, OrdinaryInv, BuildJob, Working, TypeOK, Complete, WriteSucceeded, Goto
<1>23. ReuseInv'
  <2>1. /\ receipt'[un[w]] = [st |-> "SUCCEEDED", run |-> run[w], res |-> result[un[w]].run]
        /\ \A x \in Units : x # un[w] => receipt'[x] = receipt[x]
        /\ UNCHANGED <<runs, result, checkpoint, torn, returned, un, run, outputs>>
        /\ pc[w] = "receipt" /\ pc'[w] = "checkpoint"
    BY <1>1 DEF Inv, TypeOK, WriteSucceeded, Goto
  <2>2. \A v \in Workers : /\ Working(v)' => Working(v)
                           /\ pc'[v] \in EarlySteps \cup {"handler"} => pc[v] \in EarlySteps \cup {"handler"}
    BY <1>2, <2>1 DEF OnlyMoves, Working, EarlySteps
  <2>3. \A v \in Workers : pc[v] \in {"checkpoint", "failReceipt"} => pc'[v] = pc[v]
    BY <1>2, <2>1 DEF OnlyMoves
  <2>4. Fresh'
    <3>1. \A x \in Units : receipt'[x].res <= runs'[x]
      BY <2>1 DEF Inv, ResultsMade, ReuseInv, Fresh
    <3>2. ASSUME NEW v \in Workers, pc'[v] \in EarlySteps \cup {"handler"}
          PROVE  /\ run'[v] # result'[un'[v]].run /\ run'[v] # receipt'[un'[v]].res
                 /\ run'[v] # checkpoint'[un'[v]].res
      <4>1. pc[v] \in EarlySteps \cup {"handler"}  BY <2>2, <3>2
      <4>2. un[v] \in Units
        BY <4>1 DEF EarlySteps, Inv, Assigned, TypeOK
      <4> QED  BY <2>1, <4>1, <4>2 DEF Inv, ReuseInv, Fresh
    <3> QED  BY <2>1, <2>2, <3>1, <3>2 DEF Inv, ReuseInv, Fresh
  <2>5. Backed'
    BY <2>1, <2>3 DEF Inv, ReuseInv, Backed, Complete
  <2>6. ReturnedBacked'  BY <2>1 DEF Inv, ReuseInv, ReturnedBacked
  <2>7. ReadBacked'  BY <2>1, <2>2 DEF Inv, ReuseInv, ReadBacked, FromCheckpoint
  <2> QED  BY <2>4, <2>5, <2>6, <2>7 DEF ReuseInv
<1> QED
  BY <1>6, <1>7, <1>8, <1>9, <1>10, <1>11, <1>12, <1>13, <1>14, <1>15, <1>16, <1>17, <1>18,
     <1>19, <1>20, <1>21, <1>22, <1>23 DEF Inv

LEMMA PublishCheckpointInv == ASSUME Inv, NEW w \in Workers, PublishCheckpoint(w) PROVE Inv'
<1> USE UnitNamesAssumption, UnitWorkersAssumption, GraphAssumption, MaxRunsAssumption
    DEF attempt, steps, driver, locals
<1>1. un[w] \in Units /\ Step(w) \in StepNames /\ Step(w) = StepOf[un[w]] /\ un[w] # NoUnit
  BY DEF Inv, Assigned, TypeOK, Step, PublishCheckpoint, Goto, Steps, EarlySteps, TrySteps,
     FailureSteps, LockedSteps
<1>2. OnlyMoves(w) /\ CheckpointsStay
  BY <1>1 DEF Inv, TypeOK, NoCheckpoint, PublishCheckpoint, Goto, OnlyMoves, CheckpointsStay
<1>3. DoomStays
  <2>1. (un[w] # NoUnit /\ Doomed(w)) =>
           (un'[w] = un[w] /\ Doomed(w)') \/ marker'[Step(w)] = "FAILED" \/ Step(w) \in lost'
    BY <1>1 DEF Doomed, Step, PublishCheckpoint, Goto, Inv, Checkpointed, Kept, Referenced,
       TypeOK, Steps, EarlySteps, TrySteps, FailureSteps, LockedSteps
  <2> QED  BY <1>2, <2>1, DoomKept
<1>4. UnmarkedStays
  <2>1. UNCHANGED receipt /\ returned \subseteq returned' /\ refused \subseteq refused' /\ (failed => failed')
    BY DEF PublishCheckpoint
  <2>2. (un[w] \in returned /\ Step(w) \notin lost' /\ pc[w] \in {"taskStarted", "failAttempt"}) =>
          \/ un'[w] = un[w] /\ pc'[w] \in {"taskStarted", "failAttempt"}
          \/ un[w] \in refused' /\ failed'
          \/ un'[w] = un[w] /\ Doomed(w)'
    BY <1>1 DEF Inv, TypeOK, TrySteps, PublishCheckpoint, Goto
  <2> QED  BY <1>2, <2>1, <2>2, UnmarkedKept
<1>5. \A x \in Units : Past(x)' => Past(x)
  BY <1>1, <1>2 DEF Inv, TypeOK, Past, OnlyMoves, PublishCheckpoint, Goto
<1>6. TypeOK'
  BY <1>1 DEF Inv, TypeOK, Receipts, Results, Checkpoints, Inputs, NoInputs, Runs, Markers,
     Success, StepEvents, StepStatus, Referenced, Steps, EarlySteps, TrySteps, FailureSteps,
     LockedSteps, PublishCheckpoint, Goto
<1>7. Assigned'
  BY <1>1 DEF Inv, Assigned, TypeOK, Working, Runs, NoUnit, Steps, EarlySteps, TrySteps,
     FailureSteps, LockedSteps, PublishCheckpoint, Goto
<1>8. Locked'
  BY <1>1 DEF Inv, Locked, Assigned, TypeOK, Step, Steps, EarlySteps, TrySteps, FailureSteps,
     LockedSteps, PublishCheckpoint, Goto
<1>9. EventsFollow'
  BY <1>1 DEF Inv, EventsFollow, Locked, TypeOK, Step, Success, StepEvents, StepStatus, Steps,
     EarlySteps, TrySteps, FailureSteps, LockedSteps, PublishCheckpoint, Goto
<1>10. StepEventsOnce'
  BY <1>1 DEF Inv, StepEventsOnce, EventsFollow, TypeOK, Step, Success, StepEvents,
     PublishCheckpoint, Goto
<1>11. Started'
  BY <1>1 DEF Inv, Started, TypeOK, Working, Assigned, Step, Success, StepStatus, Steps,
     EarlySteps, TrySteps, FailureSteps, LockedSteps, PublishCheckpoint, Goto
<1>12. OneWorker'
  BY <1>1 DEF Inv, OneWorker, Assigned, TypeOK, PublishCheckpoint, Goto
<1>13. FirstRun'
  BY <1>1 DEF Inv, FirstRun, OneWorker, TypeOK, Assigned, Kept, Step, Steps, EarlySteps,
     TrySteps, FailureSteps, LockedSteps, PublishCheckpoint, Goto
<1>14. Begun'
  <2>1. runs[un[w]] # 0
    BY WorkingRun DEF Working, PublishCheckpoint
  <2>2. \A x \in Units : x # un[w] => receipt'[x] = receipt[x] /\ checkpoint'[x] = checkpoint[x]
    BY <1>1 DEF Inv, TypeOK, PublishCheckpoint
  <2>3. UNCHANGED <<runs, result, un, returned, refused, lost>>  BY DEF PublishCheckpoint, driver
  <2> QED
    BY <2>1, <2>2, <2>3 DEF Inv, Begun, Kept
<1>15. ResultsMade'
  BY <1>1 DEF Inv, ResultsMade, TypeOK, Assigned, Working, Steps, EarlySteps, TrySteps,
     FailureSteps, LockedSteps, PublishCheckpoint, Goto
<1>16. Checkpointed'
  <2>1. Referenced(un[w]) # NoCheckpoint
    BY <1>1 DEF Inv, ResultsMade, Referenced, NoCheckpoint, PublishCheckpoint
  <2>2. Kept(un[w]) => checkpoint[un[w]] = NoCheckpoint
    BY <1>1 DEF Inv, Checkpointed, Referenced, PublishCheckpoint
  <2>3. Kept(un[w]) => un[w] \notin returned
    BY <1>1, <2>2 DEF Inv, Checkpointed
  <2>4. /\ checkpoint'[un[w]] = Referenced(un[w])
        /\ \A x \in Units : x # un[w] => checkpoint'[x] = checkpoint[x]
    BY <1>1 DEF Inv, TypeOK, PublishCheckpoint
  <2>5. \A v \in Workers : (un[v] = un[w] /\ Kept(un[w])) => v = w
    BY <1>1, <2>3 DEF Inv, OneWorker
  <2>6. UNCHANGED <<runs, marker, result, returned, lost, un, run>> /\ pc' = [pc EXCEPT ![w] = "completeStep"]
    BY DEF PublishCheckpoint, Goto, steps, driver
  <2>7. \A x \in Units : /\ (Kept(x) /\ x \in returned)' =>
                              checkpoint'[x] # NoCheckpoint /\ marker'[StepOf[x]] # "absent"
                         /\ checkpoint'[x].res <= runs'[x]
    BY <2>1, <2>4, <2>6 DEF Inv, Checkpointed, Kept, ResultsMade, Referenced
  <2>8. ASSUME NEW v \in Workers, pc'[v] \in {"completeStep", "completeEvent", "return"}
        PROVE  checkpoint'[un'[v]] # NoCheckpoint
    <3>1. CASE un[v] = un[w]  BY <2>1, <2>4, <2>6, <3>1
    <3>2. CASE un[v] # un[w]
      <4>1. pc[v] = pc'[v] /\ un[v] \in Units
        BY <2>6, <2>8, <3>2 DEF Inv, TypeOK, Assigned
      <4> QED  BY <2>4, <2>6, <2>8, <3>2, <4>1 DEF Inv, Checkpointed
    <3> QED  BY <3>1, <3>2
  <2>9. ASSUME NEW v \in Workers, un'[v] # NoUnit, Kept(un[v])', checkpoint'[un'[v]] # NoCheckpoint
        PROVE  /\ pc'[v] \in EarlySteps \cup {"handler"} => run'[v] # checkpoint'[un'[v]].res
               /\ pc'[v] \in {"receipt", "checkpoint"} => result'[un'[v]].run # checkpoint'[un'[v]].res
    <3>1. CASE un[v] = un[w]  BY <2>5, <2>6, <2>9, <3>1 DEF Kept, EarlySteps, Inv, TypeOK
    <3>2. CASE un[v] # un[w]
      <4>1. pc[v] = pc'[v] /\ un[v] \in Units  BY <2>6, <2>9, <3>2 DEF Inv, TypeOK
      <4> QED  BY <2>4, <2>6, <2>9, <3>2, <4>1 DEF Inv, Checkpointed, Kept
    <3> QED  BY <3>1, <3>2
  <2> QED  BY <2>7, <2>8, <2>9 DEF Checkpointed
<1>17. CheckpointHolds'
  <2>1. Referenced(un[w]) # NoCheckpoint
    BY <1>1 DEF Inv, ResultsMade, Referenced, NoCheckpoint, PublishCheckpoint
  <2>2. Kept(un[w]) => checkpoint[un[w]] = NoCheckpoint
    BY <1>1 DEF Inv, Checkpointed, Referenced, PublishCheckpoint
  <2>3. Kept(un[w]) => un[w] \notin returned
    BY <1>1, <2>2 DEF Inv, Checkpointed
  <2>4. /\ checkpoint'[un[w]] = Referenced(un[w])
        /\ \A x \in Units : x # un[w] => checkpoint'[x] = checkpoint[x]
    BY <1>1 DEF Inv, TypeOK, PublishCheckpoint
  <2>5. Kept(un[w]) => Succeeded(un[w])
    <3>1. run[w] # 0  BY WorkingRun DEF Working, PublishCheckpoint
    <3>2. Kept(un[w]) => /\ receipt[un[w]] = [st |-> "SUCCEEDED", run |-> run[w], res |-> run[w]]
                         /\ result[un[w]].run = run[w]
      BY <1>1, <2>3 DEF Inv, FirstRun, PublishCheckpoint
    <3> QED  BY <3>1, <3>2 DEF Succeeded
  <2>6. UNCHANGED <<marker, receipt, result, lost>>  BY DEF PublishCheckpoint, steps, driver
  <2> QED
    BY <1>1, <1>3, <1>4, <2>4, <2>5, <2>6, GraphAssumption DEF Inv, CheckpointHolds, DoomStays,
       UnmarkedStays, Kept, Succeeded
<1>18. CompletionHolds'
  <2>1. UNCHANGED <<marker, receipt, result>> /\ lost \subseteq lost'  BY DEF PublishCheckpoint
  <2> QED  BY <1>3, <1>4, <2>1, CompletionKept
<1>19. NotLeftStarted'
  <2>1. UNCHANGED marker /\ lost \subseteq lost'  BY DEF PublishCheckpoint
  <2> QED  BY <1>3, <1>4, <1>5, <2>1, NotLeftStartedKept
<1>20. FailureHolds'
  <2>1. \A v \in Workers : pc[v] \in {"failStep", "failEvent", "failAttempt"} =>
          pc'[v] = pc[v] /\ un'[v] = un[v]
    BY <1>1, <1>2 DEF OnlyMoves, PublishCheckpoint, Goto
  <2>2. UNCHANGED <<receipt, failed, lost, marker>>  BY DEF PublishCheckpoint
  <2> QED  BY <2>1, <2>2 DEF Inv, FailureHolds, Kept
<1>21. DepsReturned'
  BY <1>1 DEF Inv, DepsReturned, TypeOK, PublishCheckpoint, Goto
<1>22. OrdinaryInv'
  BY <1>1 DEF Inv, OrdinaryInv, BuildJob, Working, TypeOK, Complete, PublishCheckpoint, Goto
<1>23. ReuseInv'
  <2>1. /\ checkpoint'[un[w]] = Referenced(un[w]) /\ Referenced(un[w]).res = result[un[w]].run
        /\ \A x \in Units : x # un[w] => checkpoint'[x] = checkpoint[x]
        /\ UNCHANGED <<runs, receipt, result, torn, returned, un, run, outputs>>
        /\ pc[w] = "checkpoint" /\ pc'[w] = "completeStep"
    BY <1>1 DEF Inv, TypeOK, PublishCheckpoint, Goto, Referenced
  <2>2. \A v \in Workers : /\ Working(v)' => Working(v)
                           /\ pc'[v] \in EarlySteps \cup {"handler"} => pc[v] \in EarlySteps \cup {"handler"}
    BY <1>2, <2>1 DEF OnlyMoves, Working, EarlySteps
  <2>3. Referenced(un[w]) # NoCheckpoint
    BY <1>1 DEF Inv, ResultsMade, Referenced, NoCheckpoint, PublishCheckpoint
  <2>4. Fresh'
    <3>1. ASSUME NEW v \in Workers, pc'[v] \in EarlySteps \cup {"handler"}
          PROVE  /\ run'[v] # result'[un'[v]].run /\ run'[v] # receipt'[un'[v]].res
                 /\ run'[v] # checkpoint'[un'[v]].res
      <4>1. pc[v] \in EarlySteps \cup {"handler"}  BY <2>2, <3>1
      <4>2. un[v] \in Units
        BY <4>1 DEF EarlySteps, Inv, Assigned, TypeOK
      <4> QED  BY <2>1, <4>1, <4>2 DEF Inv, ReuseInv, Fresh
    <3> QED  BY <2>1, <2>2, <3>1 DEF Inv, ReuseInv, Fresh
  <2>5. Backed'
    <3> SUFFICES ASSUME NEW d \in Units, d \notin torn, Complete(d)
                 PROVE  \/ checkpoint'[d] # NoCheckpoint /\ checkpoint'[d].res = result[d].run
                        \/ \E v \in Workers : un'[v] = d /\ pc'[v] \in {"checkpoint", "failReceipt"}
                                              /\ run'[v] = receipt[d].run
      BY <2>1 DEF Backed, Complete
    <3>1. CASE d = un[w]  BY <2>1, <2>3, <3>1
    <3>2. CASE d # un[w]
      <4>1. \A v \in Workers : un[v] = d => pc'[v] = pc[v]  BY <1>2, <3>2 DEF OnlyMoves
      <4> QED  BY <2>1, <3>2, <4>1 DEF Inv, ReuseInv, Backed
    <3> QED  BY <3>1, <3>2
  <2>6. ReturnedBacked'
    BY <2>1, <2>3 DEF Inv, TypeOK, ReuseInv, ReturnedBacked
  <2>7. \A d \in returned \ torn : checkpoint'[d] = checkpoint[d]
    BY <1>2 DEF Inv, TypeOK, ReuseInv, ReturnedBacked, CheckpointsStay
  <2>8. ASSUME NEW v \in Workers, Working(v)', NEW d \in RequiredOutputs(un'[v]) \ torn'
        PROVE  FromCheckpoint(outputs[v][d], d)'
    <3>1. Working(v) /\ un[v] # NoUnit  BY <2>2, <2>8 DEF Working, Inv, Assigned
    <3>2. d \in returned  BY <2>1, <2>8, <3>1, RequiredOfWork
    <3>3. FromCheckpoint(outputs[v][d], d)  BY <2>1, <2>8, <3>1 DEF Inv, ReuseInv, ReadBacked
    <3> QED  BY <2>1, <2>7, <2>8, <3>2, <3>3 DEF FromCheckpoint
  <2>9. ASSUME NEW x \in Units, result'[x].run # 0, NEW d \in RequiredOutputs(x) \ torn'
        PROVE  FromCheckpoint(result[x].from[d], d)'
    <3>1. d \in returned  BY <2>1, <2>9, RequiredOfWork
    <3>2. FromCheckpoint(result[x].from[d], d)  BY <2>1, <2>9 DEF Inv, ReuseInv, ReadBacked
    <3> QED  BY <2>1, <2>7, <2>9, <3>1, <3>2 DEF FromCheckpoint
  <2> QED  BY <2>4, <2>5, <2>6, <2>8, <2>9 DEF ReuseInv, ReadBacked
<1> QED
  BY <1>6, <1>7, <1>8, <1>9, <1>10, <1>11, <1>12, <1>13, <1>14, <1>15, <1>16, <1>17, <1>18,
     <1>19, <1>20, <1>21, <1>22, <1>23 DEF Inv

LEMMA CompleteStepInv == ASSUME Inv, NEW w \in Workers, CompleteStep(w) PROVE Inv'
<1> USE UnitNamesAssumption, UnitWorkersAssumption, GraphAssumption, MaxRunsAssumption
    DEF attempt, steps, driver, locals
<1>1. un[w] \in Units /\ Step(w) \in StepNames /\ Step(w) = StepOf[un[w]] /\ un[w] # NoUnit
  BY DEF Inv, Assigned, TypeOK, Step, CompleteStep, Goto, Steps, EarlySteps, TrySteps,
     FailureSteps, LockedSteps
<1>2. OnlyMoves(w) /\ CheckpointsStay
  BY <1>1 DEF Inv, TypeOK, NoCheckpoint, CompleteStep, Goto, OnlyMoves, CheckpointsStay
<1>3. DoomStays
  <2>1. (un[w] # NoUnit /\ Doomed(w)) =>
           (un'[w] = un[w] /\ Doomed(w)') \/ marker'[Step(w)] = "FAILED" \/ Step(w) \in lost'
    BY <1>1 DEF Doomed, Step, CompleteStep, Goto, Inv, TypeOK, Steps, EarlySteps, TrySteps,
       FailureSteps, LockedSteps
  <2> QED  BY <1>2, <2>1, DoomKept
<1>4. UnmarkedStays
  <2>1. UNCHANGED receipt /\ returned \subseteq returned' /\ refused \subseteq refused' /\ (failed => failed')
    BY DEF CompleteStep
  <2>2. (un[w] \in returned /\ Step(w) \notin lost' /\ pc[w] \in {"taskStarted", "failAttempt"}) =>
          \/ un'[w] = un[w] /\ pc'[w] \in {"taskStarted", "failAttempt"}
          \/ un[w] \in refused' /\ failed'
          \/ un'[w] = un[w] /\ Doomed(w)'
    BY <1>1 DEF Inv, TypeOK, TrySteps, CompleteStep, Goto
  <2> QED  BY <1>2, <2>1, <2>2, UnmarkedKept
<1>5. TypeOK'
  <2>1. PICK x \in {"completeEvent", "return"} : pc' = [pc EXCEPT ![w] = x]
    BY DEF CompleteStep, Goto
  <2>2. marker' \in [StepNames -> Markers]
    <3>1. StepStatus(Step(w)) \in Markers  BY DEF Markers, StepStatus, Success
    <3>2. CASE StepReady(w)
      <4>1. marker' = [marker EXCEPT ![Step(w)] = StepStatus(Step(w))]
        BY <3>2 DEF CompleteStep
      <4> QED  BY <3>1, <4>1 DEF Inv, TypeOK
    <3>3. CASE ~StepReady(w)  BY <3>3 DEF Inv, TypeOK, CompleteStep
    <3> QED  BY <3>2, <3>3
  <2>3. lifecycle' \in [StepNames -> Workers \cup {NoWorker}]
    <3>1. lifecycle' \in {lifecycle, [lifecycle EXCEPT ![Step(w)] = w]}
      BY DEF CompleteStep
    <3> QED  BY <3>1 DEF Inv, TypeOK
  <2>4. pc' \in [Workers -> Steps]
    BY <2>1 DEF Inv, TypeOK, Steps, TrySteps
  <2>5. UNCHANGED <<job, runs, receipt, result, checkpoint, events, failed, returned, refused,
                    lost, torn, un, run, outputs>>
    BY DEF CompleteStep
  <2> QED  BY <2>2, <2>3, <2>4, <2>5 DEF Inv, TypeOK
<1>6. Assigned'
  <2>1. /\ pc[w] = "completeStep" /\ pc'[w] \in {"completeEvent", "return"}
        /\ UNCHANGED <<un, run, runs>>
    BY DEF Inv, TypeOK, CompleteStep, Goto
  <2> QED  BY <1>2, <2>1 DEF Inv, Assigned, OnlyMoves, Working
<1>7. Locked'
  <2>1. /\ lifecycle[Step(w)] = NoWorker /\ UNCHANGED un
        /\ lifecycle' \in {lifecycle, [lifecycle EXCEPT ![Step(w)] = w]}
        /\ pc'[w] \in LockedSteps => lifecycle' = [lifecycle EXCEPT ![Step(w)] = w]
    BY DEF Inv, TypeOK, LockedSteps, CompleteStep, Goto
  <2>2. lifecycle \in [StepNames -> Workers \cup {NoWorker}]
    BY DEF Inv, TypeOK
  <2>3. ASSUME NEW v \in Workers, v # w, pc'[v] \in LockedSteps PROVE lifecycle'[Step(v)] = v
    <3>1. lifecycle[Step(v)] = v
      BY <1>2, <2>3 DEF Inv, Locked, OnlyMoves
    <3>2. Step(v) # Step(w)
      BY <2>1, <3>1
    <3>3. Step(v) \in StepNames
      BY <1>2, <2>3 DEF Inv, Assigned, TypeOK, Step, OnlyMoves, LockedSteps
    <3> QED  BY <1>1, <2>1, <2>2, <3>1, <3>2, <3>3
  <2>4. pc'[w] \in LockedSteps => lifecycle'[Step(w)] = w
    BY <1>1, <2>1, <2>2
  <2> QED  BY <2>1, <2>3, <2>4 DEF Locked, Step
<1>8. EventsFollow'
  <2>1. \A v \in Workers : pc[v] \in {"startEvent", "completeEvent"} => Step(v) # Step(w)
    BY <1>1 DEF Inv, Locked, LockedSteps, CompleteStep
  <2>2. CASE StepReady(w)
    <3>1. marker'[Step(w)] \in Success /\ marker[Step(w)] = "STARTED"
      BY <1>1, <2>2 DEF Inv, TypeOK, CompleteStep, StepReady, StepStatus, Success
    <3>2. \A s \in StepNames : s # Step(w) => marker'[s] = marker[s]
      BY <1>1, <2>2 DEF Inv, TypeOK, CompleteStep
    <3>3. events[Step(w)]["SUCCEEDED"] = 0 /\ events[Step(w)]["COMPLETED_WITH_GAPS"] = 0
      BY <1>1, <3>1 DEF Inv, EventsFollow
    <3>4. \A v \in Workers : Step(v)' = Step(v)  BY DEF Step, CompleteStep
    <3>5. \A v \in Workers : pc'[v] \in {"startEvent", "completeEvent"} =>
            \/ v = w /\ pc'[v] = "completeEvent"
            \/ pc[v] = pc'[v] /\ Step(v) \in StepNames /\ Step(v) # Step(w)
      BY <2>1, <2>2, GraphAssumption DEF Inv, Assigned, TypeOK, Step, CompleteStep, Goto
    <3>6. \A s \in StepNames :
            /\ marker'[s] = "absent" => events'[s]["STARTED"] = 0
            /\ marker'[s] \in {"absent", "STARTED"} =>
                 events'[s]["SUCCEEDED"] = 0 /\ events'[s]["COMPLETED_WITH_GAPS"] = 0
      BY <3>1, <3>2 DEF Inv, EventsFollow, CompleteStep, Success
    <3> QED
      BY <1>1, <3>1, <3>2, <3>3, <3>4, <3>5, <3>6 DEF Inv, EventsFollow, CompleteStep
  <2>3. CASE ~StepReady(w)
    BY <1>1, <2>3 DEF Inv, EventsFollow, TypeOK, Step, CompleteStep, Goto
  <2> QED  BY <2>2, <2>3
<1>9. StepEventsOnce'
  <2>1. UNCHANGED events  BY DEF CompleteStep
  <2> QED  BY <2>1 DEF Inv, StepEventsOnce
<1>10. Started'
  BY <1>1 DEF Inv, Started, TypeOK, Working, Assigned, Step, Success, StepStatus, Steps,
     EarlySteps, TrySteps, FailureSteps, LockedSteps, CompleteStep, Goto
<1>11. OneWorker'
  BY <1>1 DEF Inv, OneWorker, Assigned, TypeOK, CompleteStep, Goto
<1>12. FirstRun'
  BY <1>1 DEF Inv, FirstRun, OneWorker, TypeOK, Assigned, Kept, Step, Steps, EarlySteps,
     TrySteps, FailureSteps, LockedSteps, CompleteStep, Goto
<1>13. Begun'
  BY <1>1 DEF Inv, Begun, TypeOK, Kept, Working, Assigned, Step, NoCheckpoint, CompleteStep,
     Goto
<1>14. ResultsMade'
  BY <1>1 DEF Inv, ResultsMade, TypeOK, Assigned, Working, Steps, EarlySteps, TrySteps,
     FailureSteps, LockedSteps, CompleteStep, Goto
<1>15. Checkpointed'
  <2>1. CASE StepReady(w)
    BY <1>1, <2>1 DEF Inv, Checkpointed, TypeOK, Kept, Assigned, Step, Working, Steps,
       EarlySteps, TrySteps, FailureSteps, LockedSteps, CompleteStep, Goto, StepStatus
  <2>2. CASE ~(StepReady(w))
    BY <1>1, <2>2 DEF Inv, Checkpointed, TypeOK, Kept, Assigned, Step, Working, Steps,
       EarlySteps, TrySteps, FailureSteps, LockedSteps, CompleteStep, Goto, StepStatus
  <2> QED  BY <2>1, <2>2
<1>16. CheckpointHolds'
  <2>1. CASE StepReady(w)
    BY <1>1, <1>3, <1>4, <2>1 DEF Inv, CheckpointHolds, DoomStays, UnmarkedStays, Kept,
       Succeeded, TypeOK, CompleteStep, Goto, StepReady, StepStatus
  <2>2. CASE ~(StepReady(w))
    BY <1>1, <1>3, <1>4, <2>2 DEF Inv, CheckpointHolds, DoomStays, UnmarkedStays, Kept,
       Succeeded, TypeOK, CompleteStep, Goto, StepReady, StepStatus
  <2> QED  BY <2>1, <2>2
<1>17. CompletionHolds'
  <2>1. UNCHANGED <<receipt, result, lost>>  BY DEF CompleteStep
  <2> SUFFICES ASSUME NEW s \in StepNames \ lost, marker'[s] \in Success, ~DoomedStep(s)'
               PROVE  /\ \A x \in UnitsOf(s) : Succeeded(x)' \/ Unmarked(x)'
                      /\ marker'[s] = StepStatus(s)'
    BY <2>1 DEF CompletionHolds, UnitsOf
  <2>2. StepStatus(s)' = StepStatus(s) /\ \A x \in Units : Succeeded(x) => Succeeded(x)'
    BY <2>1 DEF Succeeded, StepStatus, UnitsOf
  <2>3. CASE StepReady(w) /\ s = Step(w)
    <3>1. marker'[s] = StepStatus(s)  BY <1>1, <2>3 DEF Inv, TypeOK, CompleteStep
    <3>2. \A x \in UnitsOf(s) : x \in Units /\ Succeeded(x)  BY <2>3 DEF StepReady, UnitsOf
    <3> QED  BY <2>2, <3>1, <3>2
  <2>4. CASE ~(StepReady(w) /\ s = Step(w))
    <3>1. marker'[s] = marker[s]  BY <1>1, <2>4 DEF Inv, TypeOK, CompleteStep
    <3>2. ~DoomedStep(s)  BY <1>3, <2>1 DEF DoomStays, Success
    <3>3. (\A x \in UnitsOf(s) : Succeeded(x) \/ Unmarked(x)) /\ marker[s] = StepStatus(s)
      BY <3>1, <3>2 DEF Inv, CompletionHolds
    <3>4. \A x \in UnitsOf(s) : Unmarked(x) => Unmarked(x)'
      BY <1>4, <2>1 DEF UnmarkedStays, UnitsOf, Success
    <3>5. UnitsOf(s) \subseteq Units  BY DEF UnitsOf
    <3> QED  BY <2>2, <3>1, <3>3, <3>4, <3>5
  <2> QED  BY <2>3, <2>4
<1>18. NotLeftStarted'
  <2> SUFFICES ASSUME NEW s \in StepNames \ lost', UnitsOf(s) # {}, marker'[s] = "STARTED",
                      ~DoomedStep(s)'
               PROVE  \E x \in UnitsOf(s) : ~Past(x)' \/ Unmarked(x)'
    BY DEF NotLeftStarted, UnitsOf
  <2>1. s \notin lost /\ ~DoomedStep(s)  BY <1>3, <1>4 DEF CompleteStep, driver, DoomStays, UnmarkedStays
  <2>2. marker[s] = "STARTED"
    BY <1>1 DEF Inv, TypeOK, CompleteStep, StepReady, StepStatus
  <2>3. \A x \in Units : (Past(x)' /\ x # un[w]) => Past(x)
    BY <1>2 DEF Past, OnlyMoves, CompleteStep, driver
  <2>4. UnitsOf(s) \subseteq Units  BY DEF UnitsOf
  <2>5. CASE s # Step(w)
    <3>1. un[w] \notin UnitsOf(s)  BY <1>1, <2>5 DEF UnitsOf
    <3> QED
      BY <1>4, <2>1, <2>2, <2>3, <2>4, <3>1 DEF Inv, NotLeftStarted, UnmarkedStays, UnitsOf
  <2>6. CASE s = Step(w)
    <3>1. ~StepReady(w)
      BY <1>1, <2>6 DEF Inv, TypeOK, CompleteStep, StepStatus
    <3>2. PICK x \in UnitsOf(s) : ~Succeeded(x)  BY <2>2, <2>6, <3>1 DEF StepReady
    <3>3. x \in Units /\ StepOf[x] = s  BY DEF UnitsOf
    <3>4. CASE Unmarked(x)
      BY <1>4, <3>3, <3>4 DEF UnmarkedStays
    <3>5. CASE ~Unmarked(x)
      <4>1. checkpoint[x] = NoCheckpoint
        BY <2>1, <2>2, <3>2, <3>3, <3>5 DEF Inv, CheckpointHolds, Kept
      <4>2. checkpoint[un[w]] # NoCheckpoint  BY DEF Inv, Checkpointed, CompleteStep
      <4>3. ~Past(x)  BY <2>1, <3>3, <4>1 DEF Past, Inv, Checkpointed, Kept
      <4> QED  BY <2>3, <3>3, <4>1, <4>2, <4>3
    <3> QED  BY <3>4, <3>5
  <2> QED  BY <2>5, <2>6
<1>19. FailureHolds'
  <2>1. \A v \in Workers : pc[v] \in {"failStep", "failEvent", "failAttempt"} =>
          pc'[v] = pc[v] /\ un'[v] = un[v]
    BY <1>1, <1>2 DEF OnlyMoves, TrySteps, CompleteStep, Goto
  <2>2. \A s \in StepNames : marker[s] = "FAILED" => marker'[s] = "FAILED"
    BY <1>1 DEF Inv, TypeOK, CompleteStep, Goto, StepReady
  <2>3. UNCHANGED <<receipt, failed, lost>>  BY DEF attempt, driver, CompleteStep
  <2> QED
    BY <2>1, <2>2, <2>3, GraphAssumption DEF Inv, FailureHolds, Kept
<1>20. DepsReturned'
  BY <1>1 DEF Inv, DepsReturned, TypeOK, CompleteStep, Goto
<1>21. OrdinaryInv'
  <2>1. UNCHANGED <<job, receipt, result, returned, un, outputs>>  BY DEF CompleteStep
  <2>2. \A v \in Workers : Working(v)' => Working(v)
    BY <1>2 DEF OnlyMoves, Working, CompleteStep
  <2> QED  BY <2>1, <2>2 DEF Inv, OrdinaryInv, BuildJob, Complete
<1>22. ReuseInv'
  <2>1. UNCHANGED <<runs, receipt, result, checkpoint>>
    BY DEF CompleteStep
  <2>2. Working(w)' => Working(w) /\ un'[w] = un[w] /\ run'[w] = run[w] /\ outputs'[w] = outputs[w]
    BY <1>1 DEF Inv, TypeOK, Working, EarlySteps, TrySteps, CompleteStep, Goto
  <2>3. pc'[w] \in EarlySteps \cup {"handler"} => pc[w] \in EarlySteps \cup {"handler"}
    BY <1>1 DEF Inv, TypeOK, EarlySteps, TrySteps, CompleteStep, Goto
  <2>4. torn \subseteq torn'
    BY DEF Torn, CompleteStep
  <2>5. (un[w] # NoUnit /\ pc[w] \in {"checkpoint", "failReceipt"}) =>
          \/ un'[w] = un[w] /\ run'[w] = run[w] /\ pc'[w] \in {"checkpoint", "failReceipt"}
          \/ torn' = Torn(w)
    BY <1>1 DEF Inv, TypeOK, EarlySteps, TrySteps, CompleteStep, Goto
  <2>6. \A d \in returned' : d \in returned \/ d \in torn \/ checkpoint[d] # NoCheckpoint
    BY <1>1 DEF Inv, Checkpointed, CompleteStep
  <2> QED  BY <1>2, <2>1, <2>2, <2>3, <2>4, <2>5, <2>6, ReuseKept
<1> QED
  BY <1>5, <1>6, <1>7, <1>8, <1>9, <1>10, <1>11, <1>12, <1>13, <1>14, <1>15, <1>16, <1>17,
     <1>18, <1>19, <1>20, <1>21, <1>22 DEF Inv

LEMMA LogStepCompletedInv == ASSUME Inv, NEW w \in Workers, LogStepCompleted(w) PROVE Inv'
<1> USE UnitNamesAssumption, UnitWorkersAssumption, GraphAssumption, MaxRunsAssumption
    DEF attempt, steps, driver, locals
<1>1. un[w] \in Units /\ Step(w) \in StepNames /\ Step(w) = StepOf[un[w]] /\ un[w] # NoUnit
  BY DEF Inv, Assigned, TypeOK, Step, LogStepCompleted, Goto, Unlocked, Logged, Steps,
     EarlySteps, TrySteps, FailureSteps, LockedSteps
<1>2. OnlyMoves(w) /\ CheckpointsStay
  BY <1>1 DEF Inv, TypeOK, NoCheckpoint, LogStepCompleted, Goto, Unlocked, Logged, OnlyMoves,
     CheckpointsStay
<1>3. DoomStays
  <2>1. (un[w] # NoUnit /\ Doomed(w)) =>
           (un'[w] = un[w] /\ Doomed(w)') \/ marker'[Step(w)] = "FAILED" \/ Step(w) \in lost'
    BY <1>1 DEF Doomed, Step, LogStepCompleted, Goto, Unlocked, Logged, Inv, TypeOK, Steps,
       EarlySteps, TrySteps, FailureSteps, LockedSteps
  <2> QED  BY <1>2, <2>1, DoomKept
<1>4. UnmarkedStays
  <2>1. UNCHANGED receipt /\ returned \subseteq returned' /\ refused \subseteq refused' /\ (failed => failed')
    BY DEF LogStepCompleted
  <2>2. (un[w] \in returned /\ Step(w) \notin lost' /\ pc[w] \in {"taskStarted", "failAttempt"}) =>
          \/ un'[w] = un[w] /\ pc'[w] \in {"taskStarted", "failAttempt"}
          \/ un[w] \in refused' /\ failed'
          \/ un'[w] = un[w] /\ Doomed(w)'
    BY <1>1 DEF Inv, TypeOK, TrySteps, LogStepCompleted, Goto, Unlocked, Logged
  <2> QED  BY <1>2, <2>1, <2>2, UnmarkedKept
<1>5. TypeOK'
  <2>1. marker[Step(w)] \in StepEvents
    BY DEF Inv, EventsFollow, LogStepCompleted, Success, StepEvents
  <2>2. events' \in [StepNames -> [StepEvents -> Nat]]
    BY <1>1, <2>1 DEF Inv, TypeOK, LogStepCompleted, Logged
  <2>3. lifecycle' \in [StepNames -> Workers \cup {NoWorker}]
    BY DEF Inv, TypeOK, LogStepCompleted, Unlocked
  <2> QED
    BY <2>2, <2>3 DEF Inv, TypeOK, LogStepCompleted, Goto, Steps
<1>6. Assigned'
  BY <1>1 DEF Inv, Assigned, TypeOK, Working, Runs, NoUnit, Steps, EarlySteps, TrySteps,
     FailureSteps, LockedSteps, LogStepCompleted, Goto, Unlocked, Logged
<1>7. Locked'
  BY <1>1 DEF Inv, Locked, Assigned, TypeOK, Step, Steps, EarlySteps, TrySteps, FailureSteps,
     LockedSteps, LogStepCompleted, Goto, Unlocked, Logged
<1>8. EventsFollow'
  BY <1>1 DEF Inv, EventsFollow, Locked, TypeOK, Step, Success, StepEvents, StepStatus, Steps,
     EarlySteps, TrySteps, FailureSteps, LockedSteps, LogStepCompleted, Goto, Unlocked, Logged
<1>9. StepEventsOnce'
  BY <1>1 DEF Inv, StepEventsOnce, EventsFollow, TypeOK, Step, Success, StepEvents,
     LogStepCompleted, Goto, Unlocked, Logged
<1>10. Started'
  BY <1>1 DEF Inv, Started, TypeOK, Working, Assigned, Step, Success, StepStatus, Steps,
     EarlySteps, TrySteps, FailureSteps, LockedSteps, LogStepCompleted, Goto, Unlocked, Logged
<1>11. OneWorker'
  BY <1>1 DEF Inv, OneWorker, Assigned, TypeOK, LogStepCompleted, Goto, Unlocked, Logged
<1>12. FirstRun'
  BY <1>1 DEF Inv, FirstRun, OneWorker, TypeOK, Assigned, Kept, Step, Steps, EarlySteps,
     TrySteps, FailureSteps, LockedSteps, LogStepCompleted, Goto, Unlocked, Logged
<1>13. Begun'
  BY <1>1 DEF Inv, Begun, TypeOK, Kept, Working, Assigned, Step, NoCheckpoint, LogStepCompleted,
     Goto, Unlocked, Logged
<1>14. ResultsMade'
  BY <1>1 DEF Inv, ResultsMade, TypeOK, Assigned, Working, Steps, EarlySteps, TrySteps,
     FailureSteps, LockedSteps, LogStepCompleted, Goto, Unlocked, Logged
<1>15. Checkpointed'
  BY <1>1 DEF Inv, Checkpointed, TypeOK, Kept, Assigned, Step, Working, Steps, EarlySteps,
     TrySteps, FailureSteps, LockedSteps, LogStepCompleted, Goto, Unlocked, Logged
<1>16. CheckpointHolds'
  BY <1>1, <1>3, <1>4 DEF Inv, CheckpointHolds, DoomStays, UnmarkedStays, Kept, Succeeded,
     TypeOK, LogStepCompleted, Goto, Unlocked, Logged
<1>17. CompletionHolds'
  <2>1. UNCHANGED <<marker, receipt, result>> /\ lost \subseteq lost'  BY DEF LogStepCompleted
  <2> QED  BY <1>3, <1>4, <2>1, CompletionKept
<1>18. NotLeftStarted'
  <2> SUFFICES ASSUME NEW s \in StepNames \ lost', UnitsOf(s) # {}, marker'[s] = "STARTED",
                      ~DoomedStep(s)'
               PROVE  \E x \in UnitsOf(s) : ~Past(x)' \/ Unmarked(x)'
    BY DEF NotLeftStarted, UnitsOf
  <2>1. s \notin lost /\ ~DoomedStep(s) /\ marker[s] = "STARTED"
    BY <1>3, <1>4 DEF LogStepCompleted, driver, DoomStays, UnmarkedStays
  <2>2. \A x \in Units : (Past(x)' /\ x # un[w]) => Past(x)
    BY <1>2 DEF Past, OnlyMoves, LogStepCompleted, driver
  <2>3. UnitsOf(s) \subseteq Units  BY DEF UnitsOf
  <2>4. marker[Step(w)] # "STARTED"  BY DEF Inv, EventsFollow, LogStepCompleted, Success
  <2>5. un[w] \notin UnitsOf(s)  BY <1>1, <2>1, <2>4 DEF UnitsOf
  <2> QED  BY <1>4, <2>1, <2>2, <2>3, <2>5 DEF Inv, NotLeftStarted, UnmarkedStays, UnitsOf
<1>19. FailureHolds'
  <2>1. \A v \in Workers : pc[v] \in {"failStep", "failEvent", "failAttempt"} =>
          pc'[v] = pc[v] /\ un'[v] = un[v]
    BY <1>1, <1>2 DEF OnlyMoves, LogStepCompleted, Goto
  <2>2. UNCHANGED <<receipt, failed, lost, marker>>  BY DEF LogStepCompleted
  <2> QED  BY <2>1, <2>2 DEF Inv, FailureHolds, Kept
<1>20. DepsReturned'
  BY <1>1 DEF Inv, DepsReturned, TypeOK, LogStepCompleted, Goto, Unlocked, Logged
<1>21. OrdinaryInv'
  BY <1>1 DEF Inv, OrdinaryInv, BuildJob, Working, TypeOK, Complete, LogStepCompleted, Goto,
     Unlocked, Logged
<1>22. ReuseInv'
  <2>1. UNCHANGED <<runs, receipt, result, checkpoint>>
    BY DEF LogStepCompleted
  <2>2. Working(w)' => Working(w) /\ un'[w] = un[w] /\ run'[w] = run[w] /\ outputs'[w] = outputs[w]
    BY <1>1 DEF Inv, TypeOK, Working, EarlySteps, TrySteps, LogStepCompleted, Goto, Unlocked, Logged
  <2>3. pc'[w] \in EarlySteps \cup {"handler"} => pc[w] \in EarlySteps \cup {"handler"}
    BY <1>1 DEF Inv, TypeOK, EarlySteps, TrySteps, LogStepCompleted, Goto, Unlocked, Logged
  <2>4. torn \subseteq torn'
    BY DEF Torn, LogStepCompleted
  <2>5. (un[w] # NoUnit /\ pc[w] \in {"checkpoint", "failReceipt"}) =>
          \/ un'[w] = un[w] /\ run'[w] = run[w] /\ pc'[w] \in {"checkpoint", "failReceipt"}
          \/ torn' = Torn(w)
    BY <1>1 DEF Inv, TypeOK, EarlySteps, TrySteps, LogStepCompleted, Goto, Unlocked, Logged
  <2>6. \A d \in returned' : d \in returned \/ d \in torn \/ checkpoint[d] # NoCheckpoint
    BY <1>1 DEF Inv, Checkpointed, LogStepCompleted
  <2> QED  BY <1>2, <2>1, <2>2, <2>3, <2>4, <2>5, <2>6, ReuseKept
<1> QED
  BY <1>5, <1>6, <1>7, <1>8, <1>9, <1>10, <1>11, <1>12, <1>13, <1>14, <1>15, <1>16, <1>17,
     <1>18, <1>19, <1>20, <1>21, <1>22 DEF Inv

LEMMA ReturnUnitInv == ASSUME Inv, NEW w \in Workers, ReturnUnit(w) PROVE Inv'
<1> USE UnitNamesAssumption, UnitWorkersAssumption, GraphAssumption, MaxRunsAssumption
    DEF attempt, steps, driver, locals
<1>1. un[w] \in Units /\ Step(w) \in StepNames /\ Step(w) = StepOf[un[w]] /\ un[w] # NoUnit
  BY DEF Inv, Assigned, TypeOK, Step, ReturnUnit, Goto, Finish, Steps, EarlySteps, TrySteps,
     FailureSteps, LockedSteps
<1>2. OnlyMoves(w) /\ CheckpointsStay
  BY <1>1 DEF Inv, TypeOK, NoCheckpoint, ReturnUnit, Goto, Finish, OnlyMoves, CheckpointsStay
<1>3. DoomStays
  <2>1. (un[w] # NoUnit /\ Doomed(w)) =>
           (un'[w] = un[w] /\ Doomed(w)') \/ marker'[Step(w)] = "FAILED" \/ Step(w) \in lost'
    BY <1>1 DEF Doomed, Step, ReturnUnit, Goto, Finish, Inv, TypeOK, Steps, EarlySteps,
       TrySteps, FailureSteps, LockedSteps
  <2> QED  BY <1>2, <2>1, DoomKept
<1>4. UnmarkedStays
  <2>1. UNCHANGED receipt /\ returned \subseteq returned' /\ refused \subseteq refused' /\ (failed => failed')
    BY DEF ReturnUnit
  <2>2. (un[w] \in returned /\ Step(w) \notin lost' /\ pc[w] \in {"taskStarted", "failAttempt"}) =>
          \/ un'[w] = un[w] /\ pc'[w] \in {"taskStarted", "failAttempt"}
          \/ un[w] \in refused' /\ failed'
          \/ un'[w] = un[w] /\ Doomed(w)'
    BY <1>1 DEF Inv, TypeOK, TrySteps, ReturnUnit, Goto, Finish
  <2> QED  BY <1>2, <2>1, <2>2, UnmarkedKept
<1>5. \A x \in Units : Past(x)' => Past(x)
  BY <1>1, <1>2 DEF Inv, TypeOK, Past, OnlyMoves, ReturnUnit, Goto, Finish
<1>6. TypeOK'
  BY <1>1 DEF Inv, TypeOK, Receipts, Results, Checkpoints, Inputs, NoInputs, Runs, Markers,
     Success, StepEvents, StepStatus, Referenced, Steps, EarlySteps, TrySteps, FailureSteps,
     LockedSteps, ReturnUnit, Goto, Finish
<1>7. Assigned'
  BY <1>1 DEF Inv, Assigned, TypeOK, Working, Runs, NoUnit, Steps, EarlySteps, TrySteps,
     FailureSteps, LockedSteps, ReturnUnit, Goto, Finish
<1>8. Locked'
  BY <1>1 DEF Inv, Locked, Assigned, TypeOK, Step, Steps, EarlySteps, TrySteps, FailureSteps,
     LockedSteps, ReturnUnit, Goto, Finish
<1>9. EventsFollow'
  BY <1>1 DEF Inv, EventsFollow, Locked, TypeOK, Step, Success, StepEvents, StepStatus, Steps,
     EarlySteps, TrySteps, FailureSteps, LockedSteps, ReturnUnit, Goto, Finish
<1>10. StepEventsOnce'
  BY <1>1 DEF Inv, StepEventsOnce, EventsFollow, TypeOK, Step, Success, StepEvents, ReturnUnit,
     Goto, Finish
<1>11. Started'
  BY <1>1 DEF Inv, Started, TypeOK, Working, Assigned, Step, Success, StepStatus, Steps,
     EarlySteps, TrySteps, FailureSteps, LockedSteps, ReturnUnit, Goto, Finish
<1>12. OneWorker'
  BY <1>1 DEF Inv, OneWorker, Assigned, TypeOK, ReturnUnit, Goto, Finish
<1>13. FirstRun'
  BY <1>1 DEF Inv, FirstRun, OneWorker, TypeOK, Assigned, Kept, Step, Steps, EarlySteps,
     TrySteps, FailureSteps, LockedSteps, ReturnUnit, Goto, Finish
<1>14. Begun'
  BY <1>1 DEF Inv, Begun, TypeOK, Kept, Working, Assigned, Step, NoCheckpoint, ReturnUnit, Goto,
     Finish
<1>15. ResultsMade'
  BY <1>1 DEF Inv, ResultsMade, TypeOK, Assigned, Working, Steps, EarlySteps, TrySteps,
     FailureSteps, LockedSteps, ReturnUnit, Goto, Finish
<1>16. Checkpointed'
  <2>1. checkpoint[un[w]] # NoCheckpoint /\ marker[Step(w)] # "absent"
    BY <1>1 DEF Inv, Checkpointed, Started, Working, ReturnUnit
  <2>2. UNCHANGED <<runs, checkpoint, marker, result, lost>> /\ returned' = returned \cup {un[w]}
    BY DEF ReturnUnit
  <2>3. \A v \in Workers : un'[v] # NoUnit => v # w /\ pc'[v] = pc[v] /\ un'[v] = un[v] /\ run'[v] = run[v]
    BY <1>2 DEF Inv, TypeOK, OnlyMoves, ReturnUnit, Finish
  <2>4. \A v \in Workers : pc'[v] # "idle" => v # w /\ pc'[v] = pc[v] /\ un'[v] = un[v]
    BY <1>2 DEF Inv, TypeOK, OnlyMoves, ReturnUnit, Finish, Goto
  <2>5. \A x \in Units : /\ (Kept(x) /\ x \in returned)' =>
                              checkpoint'[x] # NoCheckpoint /\ marker'[StepOf[x]] # "absent"
                         /\ checkpoint'[x].res <= runs'[x]
    BY <1>1, <2>1, <2>2 DEF Inv, Checkpointed, Kept
  <2> QED
    BY <2>2, <2>3, <2>4, <2>5 DEF Inv, Checkpointed, Kept
<1>17. CheckpointHolds'
  BY <1>1, <1>3, <1>4 DEF Inv, CheckpointHolds, DoomStays, UnmarkedStays, Kept, Succeeded,
     TypeOK, ReturnUnit, Goto, Finish
<1>18. CompletionHolds'
  <2>1. UNCHANGED <<marker, receipt, result>> /\ lost \subseteq lost'  BY DEF ReturnUnit
  <2> QED  BY <1>3, <1>4, <2>1, CompletionKept
<1>19. NotLeftStarted'
  <2>1. UNCHANGED marker /\ lost \subseteq lost'  BY DEF ReturnUnit
  <2> QED  BY <1>3, <1>4, <1>5, <2>1, NotLeftStartedKept
<1>20. FailureHolds'
  <2>1. pc[w] = "return" /\ UNCHANGED <<attempt, steps, failed, lost>>
    BY DEF ReturnUnit
  <2>2. \A v \in Workers : pc[v] # "return" => pc'[v] = pc[v] /\ un'[v] = un[v]
    BY <1>2, <2>1 DEF OnlyMoves
  <2> QED  BY <2>1, <2>2 DEF Inv, FailureHolds, Kept
<1>21. DepsReturned'
  BY <1>1 DEF Inv, DepsReturned, TypeOK, ReturnUnit, Goto, Finish
<1>22. OrdinaryInv'
  <2> SUFFICES ASSUME ~BuildJob PROVE OrdinaryInv'
    BY DEF OrdinaryInv, BuildJob, ReturnUnit
  <2>1. UNCHANGED <<job, result, receipt, checkpoint, failed>> /\ returned' = returned \cup {un[w]}
    BY DEF ReturnUnit
  <2>2. \A v \in Workers : (un'[v] # NoUnit \/ Working(v)') =>
          v # w /\ pc'[v] = pc[v] /\ un'[v] = un[v] /\ outputs'[v] = outputs[v]
    BY <1>2 DEF Inv, TypeOK, OnlyMoves, ReturnUnit, Finish, Goto, Working
  <2>3. un[w] \notin returned  BY <1>1 DEF Inv, OrdinaryInv
  <2>4. Complete(un[w])
    <3>1. run[w] # 0  BY WorkingRun DEF Working, ReturnUnit
    <3>2. /\ receipt[un[w]] = [st |-> "SUCCEEDED", run |-> run[w], res |-> run[w]]
          /\ result[un[w]].run = run[w]
      BY <1>1, <2>3 DEF Inv, FirstRun, ReturnUnit
    <3> QED  BY <3>1, <3>2 DEF Complete
  <2>5. \A x \in returned' : Complete(x)'
    BY <2>1, <2>4 DEF Inv, OrdinaryInv, Complete
  <2>6. \A v \in Workers : un'[v] # NoUnit => un'[v] \notin returned'
    BY <1>1, <2>1, <2>2, <2>3 DEF Inv, OrdinaryInv, OneWorker
  <2>7. ASSUME NEW v \in Workers, Working(v)', NEW d \in RequiredOutputs(un'[v])
        PROVE  outputs'[v][d] = result'[d].run
    BY <2>1, <2>2, <2>7 DEF Inv, OrdinaryInv, Working
  <2>8. ASSUME NEW x \in Units, result'[x].run # 0, NEW d \in RequiredOutputs(x)
        PROVE  result'[x].from[d] = result'[d].run
    BY <2>1, <2>8 DEF Inv, OrdinaryInv
  <2> QED  BY <2>5, <2>6, <2>7, <2>8 DEF OrdinaryInv
<1>23. ReuseInv'
  <2>1. UNCHANGED <<runs, receipt, result, checkpoint>>
    BY DEF ReturnUnit
  <2>2. Working(w)' => Working(w) /\ un'[w] = un[w] /\ run'[w] = run[w] /\ outputs'[w] = outputs[w]
    BY <1>1 DEF Inv, TypeOK, Working, EarlySteps, TrySteps, ReturnUnit, Goto, Finish
  <2>3. pc'[w] \in EarlySteps \cup {"handler"} => pc[w] \in EarlySteps \cup {"handler"}
    BY <1>1 DEF Inv, TypeOK, EarlySteps, TrySteps, ReturnUnit, Goto, Finish
  <2>4. torn \subseteq torn'
    BY DEF Torn, ReturnUnit
  <2>5. (un[w] # NoUnit /\ pc[w] \in {"checkpoint", "failReceipt"}) =>
          \/ un'[w] = un[w] /\ run'[w] = run[w] /\ pc'[w] \in {"checkpoint", "failReceipt"}
          \/ torn' = Torn(w)
    BY <1>1 DEF Inv, TypeOK, EarlySteps, TrySteps, ReturnUnit, Goto, Finish
  <2>6. \A d \in returned' : d \in returned \/ d \in torn \/ checkpoint[d] # NoCheckpoint
    BY <1>1 DEF Inv, Checkpointed, ReturnUnit
  <2> QED  BY <1>2, <2>1, <2>2, <2>3, <2>4, <2>5, <2>6, ReuseKept
<1> QED
  BY <1>6, <1>7, <1>8, <1>9, <1>10, <1>11, <1>12, <1>13, <1>14, <1>15, <1>16, <1>17, <1>18,
     <1>19, <1>20, <1>21, <1>22, <1>23 DEF Inv

LEMMA RaisesInv == ASSUME Inv, NEW w \in Workers, Raises(w) PROVE Inv'
<1> USE UnitNamesAssumption, UnitWorkersAssumption, GraphAssumption, MaxRunsAssumption
    DEF attempt, steps, driver, locals
<1>1. un[w] \in Units /\ Step(w) \in StepNames /\ Step(w) = StepOf[un[w]] /\ un[w] # NoUnit
  BY DEF Inv, Assigned, TypeOK, Step, Raises, Goto, Unlocked, Steps, EarlySteps, TrySteps,
     FailureSteps, LockedSteps
<1>2. OnlyMoves(w) /\ CheckpointsStay
  BY <1>1 DEF Inv, TypeOK, NoCheckpoint, Raises, Goto, Unlocked, OnlyMoves, CheckpointsStay
<1>3. DoomStays
  <2>1. (un[w] # NoUnit /\ Doomed(w)) =>
           (un'[w] = un[w] /\ Doomed(w)') \/ marker'[Step(w)] = "FAILED" \/ Step(w) \in lost'
    BY <1>1 DEF Doomed, Step, Raises, Goto, Unlocked, Inv, TypeOK, Steps, EarlySteps, TrySteps,
       FailureSteps, LockedSteps
  <2> QED  BY <1>2, <2>1, DoomKept
<1>4. UnmarkedStays
  <2>1. UNCHANGED receipt /\ returned \subseteq returned' /\ refused \subseteq refused' /\ (failed => failed')
    BY DEF Raises
  <2>2. (un[w] \in returned /\ Step(w) \notin lost' /\ pc[w] \in {"taskStarted", "failAttempt"}) =>
          \/ un'[w] = un[w] /\ pc'[w] \in {"taskStarted", "failAttempt"}
          \/ un[w] \in refused' /\ failed'
          \/ un'[w] = un[w] /\ Doomed(w)'
    BY <1>1 DEF Inv, TypeOK, TrySteps, Raises, Goto, Unlocked
  <2> QED  BY <1>2, <2>1, <2>2, UnmarkedKept
<1>5. \A x \in Units : Past(x)' => Past(x)
  BY <1>1, <1>2 DEF Inv, TypeOK, Past, OnlyMoves, Raises, Goto, Unlocked
<1>6. TypeOK'
  BY <1>1 DEF Inv, TypeOK, Receipts, Results, Checkpoints, Inputs, NoInputs, Runs, Markers,
     Success, StepEvents, StepStatus, Referenced, Steps, EarlySteps, TrySteps, FailureSteps,
     LockedSteps, Raises, Goto, Unlocked
<1>7. Assigned'
  BY <1>1 DEF Inv, Assigned, TypeOK, Working, Runs, NoUnit, Steps, EarlySteps, TrySteps,
     FailureSteps, LockedSteps, Raises, Goto, Unlocked
<1>8. Locked'
  BY <1>1 DEF Inv, Locked, Assigned, TypeOK, Step, Steps, EarlySteps, TrySteps, FailureSteps,
     LockedSteps, Raises, Goto, Unlocked
<1>9. EventsFollow'
  BY <1>1 DEF Inv, EventsFollow, Locked, TypeOK, Step, Success, StepEvents, StepStatus, Steps,
     EarlySteps, TrySteps, FailureSteps, LockedSteps, Raises, Goto, Unlocked
<1>10. StepEventsOnce'
  BY <1>1 DEF Inv, StepEventsOnce, EventsFollow, TypeOK, Step, Success, StepEvents, Raises,
     Goto, Unlocked
<1>11. Started'
  BY <1>1 DEF Inv, Started, TypeOK, Working, Assigned, Step, Success, StepStatus, Steps,
     EarlySteps, TrySteps, FailureSteps, LockedSteps, Raises, Goto, Unlocked
<1>12. OneWorker'
  BY <1>1 DEF Inv, OneWorker, Assigned, TypeOK, Raises, Goto, Unlocked
<1>13. FirstRun'
  BY <1>1 DEF Inv, FirstRun, OneWorker, TypeOK, Assigned, Kept, Step, Steps, EarlySteps,
     TrySteps, FailureSteps, LockedSteps, Raises, Goto, Unlocked
<1>14. Begun'
  BY <1>1 DEF Inv, Begun, TypeOK, Kept, Working, Assigned, Step, NoCheckpoint, Raises, Goto,
     Unlocked
<1>15. ResultsMade'
  BY <1>1 DEF Inv, ResultsMade, TypeOK, Assigned, Working, Steps, EarlySteps, TrySteps,
     FailureSteps, LockedSteps, Raises, Goto, Unlocked
<1>16. Checkpointed'
  BY <1>1 DEF Inv, Checkpointed, TypeOK, Kept, Assigned, Step, Working, Steps, EarlySteps,
     TrySteps, FailureSteps, LockedSteps, Raises, Goto, Unlocked
<1>17. CheckpointHolds'
  BY <1>1, <1>3, <1>4 DEF Inv, CheckpointHolds, DoomStays, UnmarkedStays, Kept, Succeeded,
     TypeOK, Raises, Goto, Unlocked
<1>18. CompletionHolds'
  <2>1. UNCHANGED <<marker, receipt, result>> /\ lost \subseteq lost'  BY DEF Raises
  <2> QED  BY <1>3, <1>4, <2>1, CompletionKept
<1>19. NotLeftStarted'
  <2>1. UNCHANGED marker /\ lost \subseteq lost'  BY DEF Raises
  <2> QED  BY <1>3, <1>4, <1>5, <2>1, NotLeftStartedKept
<1>20. FailureHolds'
  <2>1. \A v \in Workers : pc[v] \in {"failStep", "failEvent", "failAttempt"} =>
          pc'[v] = pc[v] /\ un'[v] = un[v]
    BY <1>1, <1>2 DEF OnlyMoves, TrySteps, Raises, Goto, Unlocked
  <2>2. \A s \in StepNames : marker[s] = "FAILED" => marker'[s] = "FAILED"
    BY <1>1 DEF Inv, TypeOK, Raises, Goto, Unlocked
  <2>3. UNCHANGED <<receipt, failed, lost>>  BY DEF attempt, driver, Raises
  <2> QED
    BY <2>1, <2>2, <2>3, GraphAssumption DEF Inv, FailureHolds, Kept
<1>21. DepsReturned'
  BY <1>1 DEF Inv, DepsReturned, TypeOK, Raises, Goto, Unlocked
<1>22. OrdinaryInv'
  <2>1. UNCHANGED <<job, result, receipt, returned, un, outputs>>
    BY DEF Raises, attempt, driver
  <2>2. \A v \in Workers : Working(v)' => Working(v)
    BY <1>2 DEF OnlyMoves, Working, Raises, TrySteps
  <2> QED
    BY <2>1, <2>2 DEF Inv, OrdinaryInv, BuildJob, Complete
<1>23. ReuseInv'
  <2>1. UNCHANGED <<runs, receipt, result, checkpoint>>
    BY DEF Raises
  <2>2. Working(w)' => Working(w) /\ un'[w] = un[w] /\ run'[w] = run[w] /\ outputs'[w] = outputs[w]
    BY <1>1 DEF Inv, TypeOK, Working, EarlySteps, TrySteps, Raises, Goto, Unlocked
  <2>3. pc'[w] \in EarlySteps \cup {"handler"} => pc[w] \in EarlySteps \cup {"handler"}
    BY <1>1 DEF Inv, TypeOK, EarlySteps, TrySteps, Raises, Goto, Unlocked
  <2>4. torn \subseteq torn'
    BY DEF Torn, Raises
  <2>5. (un[w] # NoUnit /\ pc[w] \in {"checkpoint", "failReceipt"}) =>
          \/ un'[w] = un[w] /\ run'[w] = run[w] /\ pc'[w] \in {"checkpoint", "failReceipt"}
          \/ torn' = Torn(w)
    BY <1>1 DEF Inv, TypeOK, EarlySteps, TrySteps, Raises, Goto, Unlocked
  <2>6. \A d \in returned' : d \in returned \/ d \in torn \/ checkpoint[d] # NoCheckpoint
    BY <1>1 DEF Inv, Checkpointed, Raises
  <2> QED  BY <1>2, <2>1, <2>2, <2>3, <2>4, <2>5, <2>6, ReuseKept
<1> QED
  BY <1>6, <1>7, <1>8, <1>9, <1>10, <1>11, <1>12, <1>13, <1>14, <1>15, <1>16, <1>17, <1>18,
     <1>19, <1>20, <1>21, <1>22, <1>23 DEF Inv

LEMMA RaisesEarlyInv == ASSUME Inv, NEW w \in Workers, RaisesEarly(w) PROVE Inv'
<1> USE UnitNamesAssumption, UnitWorkersAssumption, GraphAssumption, MaxRunsAssumption
    DEF attempt, steps, driver, locals
<1>1. un[w] \in Units /\ Step(w) \in StepNames /\ Step(w) = StepOf[un[w]] /\ un[w] # NoUnit
  BY DEF Inv, Assigned, TypeOK, Step, RaisesEarly, Goto, Unlocked, Steps, EarlySteps, TrySteps,
     FailureSteps, LockedSteps
<1>2. OnlyMoves(w) /\ CheckpointsStay
  BY <1>1 DEF Inv, TypeOK, NoCheckpoint, RaisesEarly, Goto, Unlocked, OnlyMoves, CheckpointsStay
<1>3. DoomStays
  <2>1. (un[w] # NoUnit /\ Doomed(w)) =>
           (un'[w] = un[w] /\ Doomed(w)') \/ marker'[Step(w)] = "FAILED" \/ Step(w) \in lost'
    BY <1>1 DEF Doomed, Step, RaisesEarly, Goto, Unlocked, Inv, TypeOK, Steps, EarlySteps,
       TrySteps, FailureSteps, LockedSteps
  <2> QED  BY <1>2, <2>1, DoomKept
<1>4. UnmarkedStays
  <2>1. UNCHANGED receipt /\ returned \subseteq returned' /\ refused \subseteq refused' /\ (failed => failed')
    BY DEF RaisesEarly
  <2>2. (un[w] \in returned /\ Step(w) \notin lost' /\ pc[w] \in {"taskStarted", "failAttempt"}) =>
          \/ un'[w] = un[w] /\ pc'[w] \in {"taskStarted", "failAttempt"}
          \/ un[w] \in refused' /\ failed'
          \/ un'[w] = un[w] /\ Doomed(w)'
    BY <1>1 DEF Inv, TypeOK, TrySteps, RaisesEarly, Goto, Unlocked
  <2> QED  BY <1>2, <2>1, <2>2, UnmarkedKept
<1>5. \A x \in Units : Past(x)' => Past(x)
  BY <1>1, <1>2 DEF Inv, TypeOK, Past, OnlyMoves, RaisesEarly, Goto, Unlocked
<1>6. TypeOK'
  BY <1>1 DEF Inv, TypeOK, Receipts, Results, Checkpoints, Inputs, NoInputs, Runs, Markers,
     Success, StepEvents, StepStatus, Referenced, Steps, EarlySteps, TrySteps, FailureSteps,
     LockedSteps, RaisesEarly, Goto, Unlocked
<1>7. Assigned'
  BY <1>1 DEF Inv, Assigned, TypeOK, Working, Runs, NoUnit, Steps, EarlySteps, TrySteps,
     FailureSteps, LockedSteps, RaisesEarly, Goto, Unlocked
<1>8. Locked'
  BY <1>1 DEF Inv, Locked, Assigned, TypeOK, Step, Steps, EarlySteps, TrySteps, FailureSteps,
     LockedSteps, RaisesEarly, Goto, Unlocked
<1>9. EventsFollow'
  BY <1>1 DEF Inv, EventsFollow, Locked, TypeOK, Step, Success, StepEvents, StepStatus, Steps,
     EarlySteps, TrySteps, FailureSteps, LockedSteps, RaisesEarly, Goto, Unlocked
<1>10. StepEventsOnce'
  BY <1>1 DEF Inv, StepEventsOnce, EventsFollow, TypeOK, Step, Success, StepEvents, RaisesEarly,
     Goto, Unlocked
<1>11. Started'
  BY <1>1 DEF Inv, Started, TypeOK, Working, Assigned, Step, Success, StepStatus, Steps,
     EarlySteps, TrySteps, FailureSteps, LockedSteps, RaisesEarly, Goto, Unlocked
<1>12. OneWorker'
  BY <1>1 DEF Inv, OneWorker, Assigned, TypeOK, RaisesEarly, Goto, Unlocked
<1>13. FirstRun'
  BY <1>1 DEF Inv, FirstRun, OneWorker, TypeOK, Assigned, Kept, Step, Steps, EarlySteps,
     TrySteps, FailureSteps, LockedSteps, RaisesEarly, Goto, Unlocked
<1>14. Begun'
  BY <1>1 DEF Inv, Begun, TypeOK, Kept, Working, Assigned, Step, NoCheckpoint, RaisesEarly,
     Goto, Unlocked
<1>15. ResultsMade'
  BY <1>1 DEF Inv, ResultsMade, TypeOK, Assigned, Working, Steps, EarlySteps, TrySteps,
     FailureSteps, LockedSteps, RaisesEarly, Goto, Unlocked
<1>16. Checkpointed'
  BY <1>1 DEF Inv, Checkpointed, TypeOK, Kept, Assigned, Step, Working, Steps, EarlySteps,
     TrySteps, FailureSteps, LockedSteps, RaisesEarly, Goto, Unlocked
<1>17. CheckpointHolds'
  BY <1>1, <1>3, <1>4 DEF Inv, CheckpointHolds, DoomStays, UnmarkedStays, Kept, Succeeded,
     TypeOK, RaisesEarly, Goto, Unlocked
<1>18. CompletionHolds'
  <2>1. UNCHANGED <<marker, receipt, result>> /\ lost \subseteq lost'  BY DEF RaisesEarly
  <2> QED  BY <1>3, <1>4, <2>1, CompletionKept
<1>19. NotLeftStarted'
  <2>1. UNCHANGED marker /\ lost \subseteq lost'  BY DEF RaisesEarly
  <2> QED  BY <1>3, <1>4, <1>5, <2>1, NotLeftStartedKept
<1>20. FailureHolds'
  BY <1>1 DEF Inv, FailureHolds, TypeOK, Kept, Step, Assigned, Steps, EarlySteps, TrySteps,
     FailureSteps, LockedSteps, RaisesEarly, Goto, Unlocked
<1>21. DepsReturned'
  BY <1>1 DEF Inv, DepsReturned, TypeOK, RaisesEarly, Goto, Unlocked
<1>22. OrdinaryInv'
  BY <1>1 DEF Inv, OrdinaryInv, BuildJob, Working, TypeOK, Complete, RaisesEarly, Goto, Unlocked
<1>23. ReuseInv'
  <2>1. UNCHANGED <<runs, receipt, result, checkpoint>>
    BY DEF RaisesEarly
  <2>2. Working(w)' => Working(w) /\ un'[w] = un[w] /\ run'[w] = run[w] /\ outputs'[w] = outputs[w]
    BY <1>1 DEF Inv, TypeOK, Working, EarlySteps, TrySteps, RaisesEarly, Goto, Unlocked
  <2>3. pc'[w] \in EarlySteps \cup {"handler"} => pc[w] \in EarlySteps \cup {"handler"}
    BY <1>1 DEF Inv, TypeOK, EarlySteps, TrySteps, RaisesEarly, Goto, Unlocked
  <2>4. torn \subseteq torn'
    BY DEF Torn, RaisesEarly
  <2>5. (un[w] # NoUnit /\ pc[w] \in {"checkpoint", "failReceipt"}) =>
          \/ un'[w] = un[w] /\ run'[w] = run[w] /\ pc'[w] \in {"checkpoint", "failReceipt"}
          \/ torn' = Torn(w)
    BY <1>1 DEF Inv, TypeOK, EarlySteps, TrySteps, RaisesEarly, Goto, Unlocked
  <2>6. \A d \in returned' : d \in returned \/ d \in torn \/ checkpoint[d] # NoCheckpoint
    BY <1>1 DEF Inv, Checkpointed, RaisesEarly
  <2> QED  BY <1>2, <2>1, <2>2, <2>3, <2>4, <2>5, <2>6, ReuseKept
<1> QED
  BY <1>6, <1>7, <1>8, <1>9, <1>10, <1>11, <1>12, <1>13, <1>14, <1>15, <1>16, <1>17, <1>18,
     <1>19, <1>20, <1>21, <1>22, <1>23 DEF Inv

LEMMA WriteFailedInv == ASSUME Inv, NEW w \in Workers, WriteFailed(w) PROVE Inv'
<1> USE UnitNamesAssumption, UnitWorkersAssumption, GraphAssumption, MaxRunsAssumption
    DEF attempt, steps, driver, locals
<1>1. un[w] \in Units /\ Step(w) \in StepNames /\ Step(w) = StepOf[un[w]] /\ un[w] # NoUnit
  BY DEF Inv, Assigned, TypeOK, Step, WriteFailed, Goto, Steps, EarlySteps, TrySteps,
     FailureSteps, LockedSteps
<1>2. OnlyMoves(w) /\ CheckpointsStay
  BY <1>1 DEF Inv, TypeOK, NoCheckpoint, WriteFailed, Goto, OnlyMoves, CheckpointsStay
<1>3. DoomStays
  <2>1. (un[w] # NoUnit /\ Doomed(w)) =>
           (un'[w] = un[w] /\ Doomed(w)') \/ marker'[Step(w)] = "FAILED" \/ Step(w) \in lost'
    BY <1>1 DEF Doomed, Step, WriteFailed, Goto, Inv, TypeOK, Steps, EarlySteps, TrySteps,
       FailureSteps, LockedSteps
  <2> QED  BY <1>2, <2>1, DoomKept
<1>4. UnmarkedStays
  <2> SUFFICES ASSUME NEW x \in Units, StepOf[x] \notin lost', Unmarked(x)
               PROVE  Unmarked(x)' \/ DoomedStep(StepOf[x])'
    BY DEF UnmarkedStays
  <2>1. CASE x = un[w]
    BY <1>1, <2>1 DEF Inv, TypeOK, DoomedStep, Doomed, Step, WriteFailed, Goto
  <2>2. CASE x # un[w]
    <3>1. receipt'[x] = receipt[x] /\ UNCHANGED <<returned, refused, failed>>
      BY <1>1, <2>2 DEF Inv, TypeOK, WriteFailed
    <3>2. \A v \in Workers : pc[v] \in {"taskStarted", "failAttempt"} => un'[v] = un[v] /\ pc'[v] = pc[v]
      BY <1>2 DEF OnlyMoves, WriteFailed
    <3> QED  BY <3>1, <3>2 DEF Unmarked
  <2> QED  BY <2>1, <2>2
<1>5. \A x \in Units : Past(x)' => Past(x)
  BY <1>1, <1>2 DEF Inv, TypeOK, Past, OnlyMoves, WriteFailed, Goto
<1>6. TypeOK'
  BY <1>1 DEF Inv, TypeOK, Receipts, Results, Checkpoints, Inputs, NoInputs, Runs, Markers,
     Success, StepEvents, StepStatus, Referenced, Steps, EarlySteps, TrySteps, FailureSteps,
     LockedSteps, WriteFailed, Goto
<1>7. Assigned'
  BY <1>1 DEF Inv, Assigned, TypeOK, Working, Runs, NoUnit, Steps, EarlySteps, TrySteps,
     FailureSteps, LockedSteps, WriteFailed, Goto
<1>8. Locked'
  BY <1>1 DEF Inv, Locked, Assigned, TypeOK, Step, Steps, EarlySteps, TrySteps, FailureSteps,
     LockedSteps, WriteFailed, Goto
<1>9. EventsFollow'
  BY <1>1 DEF Inv, EventsFollow, Locked, TypeOK, Step, Success, StepEvents, StepStatus, Steps,
     EarlySteps, TrySteps, FailureSteps, LockedSteps, WriteFailed, Goto
<1>10. StepEventsOnce'
  BY <1>1 DEF Inv, StepEventsOnce, EventsFollow, TypeOK, Step, Success, StepEvents, WriteFailed,
     Goto
<1>11. Started'
  BY <1>1 DEF Inv, Started, TypeOK, Working, Assigned, Step, Success, StepStatus, Steps,
     EarlySteps, TrySteps, FailureSteps, LockedSteps, WriteFailed, Goto
<1>12. OneWorker'
  BY <1>1 DEF Inv, OneWorker, Assigned, TypeOK, WriteFailed, Goto
<1>13. FirstRun'
  BY <1>1 DEF Inv, FirstRun, OneWorker, TypeOK, Assigned, Kept, Step, Steps, EarlySteps,
     TrySteps, FailureSteps, LockedSteps, WriteFailed, Goto
<1>14. Begun'
  <2>1. runs[un[w]] # 0
    BY WorkingRun DEF Working, WriteFailed
  <2> QED
    BY <1>1, <2>1 DEF Inv, Begun, TypeOK, Kept, WriteFailed, Goto
<1>15. ResultsMade'
  BY <1>1 DEF Inv, ResultsMade, TypeOK, Assigned, Working, Steps, EarlySteps, TrySteps,
     FailureSteps, LockedSteps, WriteFailed, Goto
<1>16. Checkpointed'
  BY <1>1 DEF Inv, Checkpointed, TypeOK, Kept, Assigned, Step, Working, Steps, EarlySteps,
     TrySteps, FailureSteps, LockedSteps, WriteFailed, Goto
<1>17. CheckpointHolds'
  <2>1. DoomedStep(Step(w))'
    BY <1>1 DEF Inv, TypeOK, DoomedStep, Doomed, Step, WriteFailed, Goto
  <2>2. \A x \in Units : x # un[w] => receipt'[x] = receipt[x] /\ result'[x] = result[x]
    BY <1>1 DEF Inv, TypeOK, WriteFailed
  <2>3. UNCHANGED <<marker, checkpoint, lost, un>>  BY DEF WriteFailed, steps, driver
  <2> QED
    BY <1>1, <1>3, <1>4, <2>1, <2>2, <2>3, GraphAssumption
    DEF Inv, CheckpointHolds, DoomStays, UnmarkedStays, Kept, Succeeded, Step
<1>18. CompletionHolds'
  <2>1. DoomedStep(Step(w))'
    BY <1>1 DEF Inv, TypeOK, DoomedStep, Doomed, Step, WriteFailed, Goto
  <2>2. un[w] \in UnitsOf(Step(w))  BY <1>1 DEF UnitsOf
  <2> SUFFICES ASSUME NEW s \in StepNames \ lost', marker'[s] \in Success, ~DoomedStep(s)'
               PROVE  /\ \A x \in UnitsOf(s) : Succeeded(x)' \/ Unmarked(x)'
                      /\ marker'[s] = StepStatus(s)'
    BY DEF CompletionHolds, UnitsOf
  <2>3. ~DoomedStep(s)  BY <1>3, <1>4 DEF DoomStays, UnmarkedStays, Success
  <2>4. (\A x \in UnitsOf(s) : Succeeded(x) \/ Unmarked(x)) /\ marker[s] = StepStatus(s) /\ s \notin lost
    BY <2>3 DEF Inv, CompletionHolds, steps, driver, WriteFailed
  <2>5. s # Step(w)
    <3>1. Step(w)' = Step(w)  BY DEF Step, WriteFailed
    <3> QED  BY <1>1, <2>1, <2>2, <2>4, <3>1 DEF UnitsOf, Succeeded
  <2>6. \A x \in UnitsOf(s) : receipt'[x] = receipt[x] /\ result'[x] = result[x]
    BY <1>1, <2>5 DEF Inv, TypeOK, UnitsOf, WriteFailed
  <2>7. marker'[s] = marker[s]  BY DEF WriteFailed, steps
  <2>8. \A x \in UnitsOf(s) : Succeeded(x)' \/ Unmarked(x)'
    BY <1>4, <2>4, <2>6, <2>7 DEF Succeeded, UnmarkedStays, UnitsOf, Success
  <2>9. StepStatus(s)' = StepStatus(s)  BY <2>6 DEF StepStatus, UnitsOf
  <2> QED  BY <2>4, <2>8, <2>9, <2>7
<1>19. NotLeftStarted'
  <2>1. UNCHANGED marker /\ lost \subseteq lost'  BY DEF WriteFailed
  <2> QED  BY <1>3, <1>4, <1>5, <2>1, NotLeftStartedKept
<1>20. FailureHolds'
  BY <1>1 DEF Inv, FailureHolds, TypeOK, Kept, Step, Assigned, Steps, EarlySteps, TrySteps,
     FailureSteps, LockedSteps, WriteFailed, Goto
<1>21. DepsReturned'
  BY <1>1 DEF Inv, DepsReturned, TypeOK, WriteFailed, Goto
<1>22. OrdinaryInv'
  BY <1>1 DEF Inv, OrdinaryInv, BuildJob, Working, TypeOK, Complete, WriteFailed, Goto
<1>23. ReuseInv'
  <2>1. /\ receipt'[un[w]] = [st |-> "FAILED", run |-> run[w], res |-> 0]
        /\ \A x \in Units : x # un[w] => receipt'[x] = receipt[x]
        /\ UNCHANGED <<runs, result, checkpoint, torn, returned, un, run, outputs>>
    BY <1>1 DEF Inv, TypeOK, WriteFailed
  <2>2. \A v \in Workers : /\ Working(v)' => Working(v)
                           /\ pc'[v] \in EarlySteps \cup {"handler"} => pc[v] \in EarlySteps \cup {"handler"}
    BY <1>2 DEF OnlyMoves, Working, EarlySteps, Inv, TypeOK, WriteFailed, Goto
  <2>3. \A v \in Workers : (un[v] # un[w] /\ pc[v] \in {"checkpoint", "failReceipt"}) => pc'[v] = pc[v]
    BY <1>2 DEF OnlyMoves, WriteFailed
  <2>4. Fresh'
    <3>1. \A x \in Units : receipt'[x].res <= runs'[x]
      <4>1. runs[un[w]] \in Nat  BY <1>1 DEF Inv, TypeOK, Runs
      <4> QED  BY <1>1, <2>1, <4>1 DEF Inv, ReuseInv, Fresh
    <3>2. ASSUME NEW v \in Workers, pc'[v] \in EarlySteps \cup {"handler"}
          PROVE  /\ run'[v] # result'[un'[v]].run /\ run'[v] # receipt'[un'[v]].res
                 /\ run'[v] # checkpoint'[un'[v]].res
      <4>1. pc[v] \in EarlySteps \cup {"handler"}  BY <2>2, <3>2
      <4>2. run[v] # 0 /\ un[v] \in Units
        BY <4>1, WorkingRun DEF Working, EarlySteps, Inv, Assigned, TypeOK
      <4> QED  BY <2>1, <4>1, <4>2 DEF Inv, ReuseInv, Fresh
    <3> QED  BY <2>1, <2>2, <3>1, <3>2 DEF Inv, ReuseInv, Fresh
  <2>5. Backed'
    BY <2>1, <2>3 DEF Inv, ReuseInv, Backed, Complete
  <2>6. ReturnedBacked'  BY <2>1 DEF Inv, ReuseInv, ReturnedBacked
  <2>7. ReadBacked'  BY <2>1, <2>2 DEF Inv, ReuseInv, ReadBacked, FromCheckpoint
  <2> QED  BY <2>4, <2>5, <2>6, <2>7 DEF ReuseInv
<1> QED
  BY <1>6, <1>7, <1>8, <1>9, <1>10, <1>11, <1>12, <1>13, <1>14, <1>15, <1>16, <1>17, <1>18,
     <1>19, <1>20, <1>21, <1>22, <1>23 DEF Inv

LEMMA FailStepInv == ASSUME Inv, NEW w \in Workers, FailStep(w) PROVE Inv'
<1> USE UnitNamesAssumption, UnitWorkersAssumption, GraphAssumption, MaxRunsAssumption
    DEF attempt, steps, driver, locals
<1>1. un[w] \in Units /\ Step(w) \in StepNames /\ Step(w) = StepOf[un[w]] /\ un[w] # NoUnit
  BY DEF Inv, Assigned, TypeOK, Step, FailStep, Goto, Steps, EarlySteps, TrySteps, FailureSteps,
     LockedSteps
<1>2. OnlyMoves(w) /\ CheckpointsStay
  BY <1>1 DEF Inv, TypeOK, NoCheckpoint, FailStep, Goto, OnlyMoves, CheckpointsStay
<1>3. DoomStays
  <2>1. (un[w] # NoUnit /\ Doomed(w)) =>
           (un'[w] = un[w] /\ Doomed(w)') \/ marker'[Step(w)] = "FAILED" \/ Step(w) \in lost'
    BY <1>1 DEF Doomed, Step, FailStep, Goto, Inv, TypeOK, Steps, EarlySteps, TrySteps,
       FailureSteps, LockedSteps
  <2> QED  BY <1>2, <2>1, DoomKept
<1>4. UnmarkedStays
  <2>1. UNCHANGED receipt /\ returned \subseteq returned' /\ refused \subseteq refused' /\ (failed => failed')
    BY DEF FailStep
  <2>2. (un[w] \in returned /\ Step(w) \notin lost' /\ pc[w] \in {"taskStarted", "failAttempt"}) =>
          \/ un'[w] = un[w] /\ pc'[w] \in {"taskStarted", "failAttempt"}
          \/ un[w] \in refused' /\ failed'
          \/ un'[w] = un[w] /\ Doomed(w)'
    BY <1>1 DEF Inv, TypeOK, TrySteps, FailStep, Goto
  <2> QED  BY <1>2, <2>1, <2>2, UnmarkedKept
<1>5. \A x \in Units : Past(x)' => Past(x)
  BY <1>1, <1>2 DEF Inv, TypeOK, Past, OnlyMoves, FailStep, Goto
<1>6. TypeOK'
  BY <1>1 DEF Inv, TypeOK, Receipts, Results, Checkpoints, Inputs, NoInputs, Runs, Markers,
     Success, StepEvents, StepStatus, Referenced, Steps, EarlySteps, TrySteps, FailureSteps,
     LockedSteps, FailStep, Goto
<1>7. Assigned'
  BY <1>1 DEF Inv, Assigned, TypeOK, Working, Runs, NoUnit, Steps, EarlySteps, TrySteps,
     FailureSteps, LockedSteps, FailStep, Goto
<1>8. Locked'
  BY <1>1 DEF Inv, Locked, Assigned, TypeOK, Step, Steps, EarlySteps, TrySteps, FailureSteps,
     LockedSteps, FailStep, Goto
<1>9. EventsFollow'
  BY <1>1 DEF Inv, EventsFollow, Locked, TypeOK, Step, Success, StepEvents, StepStatus, Steps,
     EarlySteps, TrySteps, FailureSteps, LockedSteps, FailStep, Goto
<1>10. StepEventsOnce'
  BY <1>1 DEF Inv, StepEventsOnce, EventsFollow, TypeOK, Step, Success, StepEvents, FailStep,
     Goto
<1>11. Started'
  BY <1>1 DEF Inv, Started, TypeOK, Working, Assigned, Step, Success, StepStatus, Steps,
     EarlySteps, TrySteps, FailureSteps, LockedSteps, FailStep, Goto
<1>12. OneWorker'
  BY <1>1 DEF Inv, OneWorker, Assigned, TypeOK, FailStep, Goto
<1>13. FirstRun'
  BY <1>1 DEF Inv, FirstRun, OneWorker, TypeOK, Assigned, Kept, Step, Steps, EarlySteps,
     TrySteps, FailureSteps, LockedSteps, FailStep, Goto
<1>14. Begun'
  BY <1>1 DEF Inv, Begun, TypeOK, Kept, Working, Assigned, Step, NoCheckpoint, FailStep, Goto
<1>15. ResultsMade'
  BY <1>1 DEF Inv, ResultsMade, TypeOK, Assigned, Working, Steps, EarlySteps, TrySteps,
     FailureSteps, LockedSteps, FailStep, Goto
<1>16. Checkpointed'
  BY <1>1 DEF Inv, Checkpointed, TypeOK, Kept, Assigned, Step, Working, Steps, EarlySteps,
     TrySteps, FailureSteps, LockedSteps, FailStep, Goto
<1>17. CheckpointHolds'
  BY <1>1, <1>3, <1>4 DEF Inv, CheckpointHolds, DoomStays, UnmarkedStays, Kept, Succeeded,
     TypeOK, FailStep, Goto
<1>18. CompletionHolds'
  BY <1>1, <1>3, <1>4 DEF Inv, CompletionHolds, DoomStays, UnmarkedStays, Succeeded, UnitsOf,
     StepStatus, TypeOK, Success, FailStep, Goto
<1>19. NotLeftStarted'
  BY <1>1, <1>3, <1>4, <1>5 DEF Inv, NotLeftStarted, DoomStays, UnmarkedStays, UnitsOf, TypeOK,
     FailStep, Goto
<1>20. FailureHolds'
  BY <1>1 DEF Inv, FailureHolds, TypeOK, Kept, Step, Assigned, Steps, EarlySteps, TrySteps,
     FailureSteps, LockedSteps, FailStep, Goto
<1>21. DepsReturned'
  BY <1>1 DEF Inv, DepsReturned, TypeOK, FailStep, Goto
<1>22. OrdinaryInv'
  BY <1>1 DEF Inv, OrdinaryInv, BuildJob, Working, TypeOK, Complete, FailStep, Goto
<1>23. ReuseInv'
  <2>1. UNCHANGED <<runs, receipt, result, checkpoint>>
    BY DEF FailStep
  <2>2. Working(w)' => Working(w) /\ un'[w] = un[w] /\ run'[w] = run[w] /\ outputs'[w] = outputs[w]
    BY <1>1 DEF Inv, TypeOK, Working, EarlySteps, TrySteps, FailStep, Goto
  <2>3. pc'[w] \in EarlySteps \cup {"handler"} => pc[w] \in EarlySteps \cup {"handler"}
    BY <1>1 DEF Inv, TypeOK, EarlySteps, TrySteps, FailStep, Goto
  <2>4. torn \subseteq torn'
    BY DEF Torn, FailStep
  <2>5. (un[w] # NoUnit /\ pc[w] \in {"checkpoint", "failReceipt"}) =>
          \/ un'[w] = un[w] /\ run'[w] = run[w] /\ pc'[w] \in {"checkpoint", "failReceipt"}
          \/ torn' = Torn(w)
    BY <1>1 DEF Inv, TypeOK, EarlySteps, TrySteps, FailStep, Goto
  <2>6. \A d \in returned' : d \in returned \/ d \in torn \/ checkpoint[d] # NoCheckpoint
    BY <1>1 DEF Inv, Checkpointed, FailStep
  <2> QED  BY <1>2, <2>1, <2>2, <2>3, <2>4, <2>5, <2>6, ReuseKept
<1> QED
  BY <1>6, <1>7, <1>8, <1>9, <1>10, <1>11, <1>12, <1>13, <1>14, <1>15, <1>16, <1>17, <1>18,
     <1>19, <1>20, <1>21, <1>22, <1>23 DEF Inv

LEMMA LogStepFailedInv == ASSUME Inv, NEW w \in Workers, LogStepFailed(w) PROVE Inv'
<1> USE UnitNamesAssumption, UnitWorkersAssumption, GraphAssumption, MaxRunsAssumption
    DEF attempt, steps, driver, locals
<1>1. un[w] \in Units /\ Step(w) \in StepNames /\ Step(w) = StepOf[un[w]] /\ un[w] # NoUnit
  BY DEF Inv, Assigned, TypeOK, Step, LogStepFailed, Goto, Unlocked, Logged, Steps, EarlySteps,
     TrySteps, FailureSteps, LockedSteps
<1>2. OnlyMoves(w) /\ CheckpointsStay
  BY <1>1 DEF Inv, TypeOK, NoCheckpoint, LogStepFailed, Goto, Unlocked, Logged, OnlyMoves,
     CheckpointsStay
<1>3. DoomStays
  <2>1. (un[w] # NoUnit /\ Doomed(w)) =>
           (un'[w] = un[w] /\ Doomed(w)') \/ marker'[Step(w)] = "FAILED" \/ Step(w) \in lost'
    BY <1>1 DEF Doomed, Step, LogStepFailed, Goto, Unlocked, Logged, Inv, TypeOK, Steps,
       EarlySteps, TrySteps, FailureSteps, LockedSteps
  <2> QED  BY <1>2, <2>1, DoomKept
<1>4. UnmarkedStays
  <2>1. UNCHANGED receipt /\ returned \subseteq returned' /\ refused \subseteq refused' /\ (failed => failed')
    BY DEF LogStepFailed
  <2>2. (un[w] \in returned /\ Step(w) \notin lost' /\ pc[w] \in {"taskStarted", "failAttempt"}) =>
          \/ un'[w] = un[w] /\ pc'[w] \in {"taskStarted", "failAttempt"}
          \/ un[w] \in refused' /\ failed'
          \/ un'[w] = un[w] /\ Doomed(w)'
    BY <1>1 DEF Inv, TypeOK, TrySteps, LogStepFailed, Goto, Unlocked, Logged
  <2> QED  BY <1>2, <2>1, <2>2, UnmarkedKept
<1>5. \A x \in Units : Past(x)' => Past(x)
  BY <1>1, <1>2 DEF Inv, TypeOK, Past, OnlyMoves, LogStepFailed, Goto, Unlocked, Logged
<1>6. TypeOK'
  BY <1>1 DEF Inv, TypeOK, Receipts, Results, Checkpoints, Inputs, NoInputs, Runs, Markers,
     Success, StepEvents, StepStatus, Referenced, Steps, EarlySteps, TrySteps, FailureSteps,
     LockedSteps, LogStepFailed, Goto, Unlocked, Logged
<1>7. Assigned'
  BY <1>1 DEF Inv, Assigned, TypeOK, Working, Runs, NoUnit, Steps, EarlySteps, TrySteps,
     FailureSteps, LockedSteps, LogStepFailed, Goto, Unlocked, Logged
<1>8. Locked'
  BY <1>1 DEF Inv, Locked, Assigned, TypeOK, Step, Steps, EarlySteps, TrySteps, FailureSteps,
     LockedSteps, LogStepFailed, Goto, Unlocked, Logged
<1>9. EventsFollow'
  BY <1>1 DEF Inv, EventsFollow, Locked, TypeOK, Step, Success, StepEvents, StepStatus, Steps,
     EarlySteps, TrySteps, FailureSteps, LockedSteps, LogStepFailed, Goto, Unlocked, Logged
<1>10. StepEventsOnce'
  BY <1>1 DEF Inv, StepEventsOnce, EventsFollow, TypeOK, Step, Success, StepEvents,
     LogStepFailed, Goto, Unlocked, Logged
<1>11. Started'
  BY <1>1 DEF Inv, Started, TypeOK, Working, Assigned, Step, Success, StepStatus, Steps,
     EarlySteps, TrySteps, FailureSteps, LockedSteps, LogStepFailed, Goto, Unlocked, Logged
<1>12. OneWorker'
  BY <1>1 DEF Inv, OneWorker, Assigned, TypeOK, LogStepFailed, Goto, Unlocked, Logged
<1>13. FirstRun'
  BY <1>1 DEF Inv, FirstRun, OneWorker, TypeOK, Assigned, Kept, Step, Steps, EarlySteps,
     TrySteps, FailureSteps, LockedSteps, LogStepFailed, Goto, Unlocked, Logged
<1>14. Begun'
  BY <1>1 DEF Inv, Begun, TypeOK, Kept, Working, Assigned, Step, NoCheckpoint, LogStepFailed,
     Goto, Unlocked, Logged
<1>15. ResultsMade'
  BY <1>1 DEF Inv, ResultsMade, TypeOK, Assigned, Working, Steps, EarlySteps, TrySteps,
     FailureSteps, LockedSteps, LogStepFailed, Goto, Unlocked, Logged
<1>16. Checkpointed'
  BY <1>1 DEF Inv, Checkpointed, TypeOK, Kept, Assigned, Step, Working, Steps, EarlySteps,
     TrySteps, FailureSteps, LockedSteps, LogStepFailed, Goto, Unlocked, Logged
<1>17. CheckpointHolds'
  BY <1>1, <1>3, <1>4 DEF Inv, CheckpointHolds, DoomStays, UnmarkedStays, Kept, Succeeded,
     TypeOK, LogStepFailed, Goto, Unlocked, Logged
<1>18. CompletionHolds'
  <2>1. UNCHANGED <<marker, receipt, result>> /\ lost \subseteq lost'  BY DEF LogStepFailed
  <2> QED  BY <1>3, <1>4, <2>1, CompletionKept
<1>19. NotLeftStarted'
  <2>1. UNCHANGED marker /\ lost \subseteq lost'  BY DEF LogStepFailed
  <2> QED  BY <1>3, <1>4, <1>5, <2>1, NotLeftStartedKept
<1>20. FailureHolds'
  BY <1>1 DEF Inv, FailureHolds, TypeOK, Kept, Step, Assigned, Steps, EarlySteps, TrySteps,
     FailureSteps, LockedSteps, LogStepFailed, Goto, Unlocked, Logged
<1>21. DepsReturned'
  BY <1>1 DEF Inv, DepsReturned, TypeOK, LogStepFailed, Goto, Unlocked, Logged
<1>22. OrdinaryInv'
  BY <1>1 DEF Inv, OrdinaryInv, BuildJob, Working, TypeOK, Complete, LogStepFailed, Goto,
     Unlocked, Logged
<1>23. ReuseInv'
  <2>1. UNCHANGED <<runs, receipt, result, checkpoint>>
    BY DEF LogStepFailed
  <2>2. Working(w)' => Working(w) /\ un'[w] = un[w] /\ run'[w] = run[w] /\ outputs'[w] = outputs[w]
    BY <1>1 DEF Inv, TypeOK, Working, EarlySteps, TrySteps, LogStepFailed, Goto, Unlocked, Logged
  <2>3. pc'[w] \in EarlySteps \cup {"handler"} => pc[w] \in EarlySteps \cup {"handler"}
    BY <1>1 DEF Inv, TypeOK, EarlySteps, TrySteps, LogStepFailed, Goto, Unlocked, Logged
  <2>4. torn \subseteq torn'
    BY DEF Torn, LogStepFailed
  <2>5. (un[w] # NoUnit /\ pc[w] \in {"checkpoint", "failReceipt"}) =>
          \/ un'[w] = un[w] /\ run'[w] = run[w] /\ pc'[w] \in {"checkpoint", "failReceipt"}
          \/ torn' = Torn(w)
    BY <1>1 DEF Inv, TypeOK, EarlySteps, TrySteps, LogStepFailed, Goto, Unlocked, Logged
  <2>6. \A d \in returned' : d \in returned \/ d \in torn \/ checkpoint[d] # NoCheckpoint
    BY <1>1 DEF Inv, Checkpointed, LogStepFailed
  <2> QED  BY <1>2, <2>1, <2>2, <2>3, <2>4, <2>5, <2>6, ReuseKept
<1> QED
  BY <1>6, <1>7, <1>8, <1>9, <1>10, <1>11, <1>12, <1>13, <1>14, <1>15, <1>16, <1>17, <1>18,
     <1>19, <1>20, <1>21, <1>22, <1>23 DEF Inv

LEMMA FailAttemptInv == ASSUME Inv, NEW w \in Workers, FailAttempt(w) PROVE Inv'
<1> USE UnitNamesAssumption, UnitWorkersAssumption, GraphAssumption, MaxRunsAssumption
    DEF attempt, steps, driver, locals
<1>1. un[w] \in Units /\ Step(w) \in StepNames /\ Step(w) = StepOf[un[w]] /\ un[w] # NoUnit
  BY DEF Inv, Assigned, TypeOK, Step, FailAttempt, Goto, Finish, Steps, EarlySteps, TrySteps,
     FailureSteps, LockedSteps
<1>2. OnlyMoves(w) /\ CheckpointsStay
  BY <1>1 DEF Inv, TypeOK, NoCheckpoint, FailAttempt, Goto, Finish, OnlyMoves, CheckpointsStay
<1>3. DoomStays
  <2>1. (un[w] # NoUnit /\ Doomed(w)) =>
           (un'[w] = un[w] /\ Doomed(w)') \/ marker'[Step(w)] = "FAILED" \/ Step(w) \in lost'
    BY <1>1 DEF Doomed, Step, FailAttempt, Goto, Finish, Inv, TypeOK, Steps, EarlySteps,
       TrySteps, FailureSteps, LockedSteps
  <2> QED  BY <1>2, <2>1, DoomKept
<1>4. UnmarkedStays
  <2>1. UNCHANGED receipt /\ returned \subseteq returned' /\ refused \subseteq refused' /\ (failed => failed')
    BY DEF FailAttempt
  <2>2. (un[w] \in returned /\ Step(w) \notin lost' /\ pc[w] \in {"taskStarted", "failAttempt"}) =>
          \/ un'[w] = un[w] /\ pc'[w] \in {"taskStarted", "failAttempt"}
          \/ un[w] \in refused' /\ failed'
          \/ un'[w] = un[w] /\ Doomed(w)'
    BY <1>1 DEF Inv, TypeOK, TrySteps, FailAttempt, Goto, Finish
  <2> QED  BY <1>2, <2>1, <2>2, UnmarkedKept
<1>5. \A x \in Units : Past(x)' => Past(x)
  BY <1>1, <1>2 DEF Inv, TypeOK, Past, OnlyMoves, FailAttempt, Goto, Finish
<1>6. TypeOK'
  BY <1>1 DEF Inv, TypeOK, Receipts, Results, Checkpoints, Inputs, NoInputs, Runs, Markers,
     Success, StepEvents, StepStatus, Referenced, Steps, EarlySteps, TrySteps, FailureSteps,
     LockedSteps, FailAttempt, Goto, Finish
<1>7. Assigned'
  BY <1>1 DEF Inv, Assigned, TypeOK, Working, Runs, NoUnit, Steps, EarlySteps, TrySteps,
     FailureSteps, LockedSteps, FailAttempt, Goto, Finish
<1>8. Locked'
  BY <1>1 DEF Inv, Locked, Assigned, TypeOK, Step, Steps, EarlySteps, TrySteps, FailureSteps,
     LockedSteps, FailAttempt, Goto, Finish
<1>9. EventsFollow'
  BY <1>1 DEF Inv, EventsFollow, Locked, TypeOK, Step, Success, StepEvents, StepStatus, Steps,
     EarlySteps, TrySteps, FailureSteps, LockedSteps, FailAttempt, Goto, Finish
<1>10. StepEventsOnce'
  BY <1>1 DEF Inv, StepEventsOnce, EventsFollow, TypeOK, Step, Success, StepEvents, FailAttempt,
     Goto, Finish
<1>11. Started'
  BY <1>1 DEF Inv, Started, TypeOK, Working, Assigned, Step, Success, StepStatus, Steps,
     EarlySteps, TrySteps, FailureSteps, LockedSteps, FailAttempt, Goto, Finish
<1>12. OneWorker'
  BY <1>1 DEF Inv, OneWorker, Assigned, TypeOK, FailAttempt, Goto, Finish
<1>13. FirstRun'
  BY <1>1 DEF Inv, FirstRun, OneWorker, TypeOK, Assigned, Kept, Step, Steps, EarlySteps,
     TrySteps, FailureSteps, LockedSteps, FailAttempt, Goto, Finish
<1>14. Begun'
  BY <1>1 DEF Inv, Begun, TypeOK, Kept, Working, Assigned, Step, NoCheckpoint, FailAttempt,
     Goto, Finish
<1>15. ResultsMade'
  BY <1>1 DEF Inv, ResultsMade, TypeOK, Assigned, Working, Steps, EarlySteps, TrySteps,
     FailureSteps, LockedSteps, FailAttempt, Goto, Finish
<1>16. Checkpointed'
  BY <1>1 DEF Inv, Checkpointed, TypeOK, Kept, Assigned, Step, Working, Steps, EarlySteps,
     TrySteps, FailureSteps, LockedSteps, FailAttempt, Goto, Finish
<1>17. CheckpointHolds'
  BY <1>1, <1>3, <1>4 DEF Inv, CheckpointHolds, DoomStays, UnmarkedStays, Kept, Succeeded,
     TypeOK, FailAttempt, Goto, Finish
<1>18. CompletionHolds'
  <2>1. UNCHANGED <<marker, receipt, result>> /\ lost \subseteq lost'  BY DEF FailAttempt
  <2> QED  BY <1>3, <1>4, <2>1, CompletionKept
<1>19. NotLeftStarted'
  <2>1. UNCHANGED marker /\ lost \subseteq lost'  BY DEF FailAttempt
  <2> QED  BY <1>3, <1>4, <1>5, <2>1, NotLeftStartedKept
<1>20. FailureHolds'
  BY <1>1 DEF Inv, FailureHolds, TypeOK, Kept, Step, Assigned, Steps, EarlySteps, TrySteps,
     FailureSteps, LockedSteps, FailAttempt, Goto, Finish
<1>21. DepsReturned'
  BY <1>1 DEF Inv, DepsReturned, TypeOK, FailAttempt, Goto, Finish
<1>22. OrdinaryInv'
  BY <1>1 DEF Inv, OrdinaryInv, BuildJob, Working, TypeOK, Complete, FailAttempt, Goto, Finish
<1>23. ReuseInv'
  <2>1. UNCHANGED <<runs, receipt, result, checkpoint>>
    BY DEF FailAttempt
  <2>2. Working(w)' => Working(w) /\ un'[w] = un[w] /\ run'[w] = run[w] /\ outputs'[w] = outputs[w]
    BY <1>1 DEF Inv, TypeOK, Working, EarlySteps, TrySteps, FailAttempt, Goto, Finish
  <2>3. pc'[w] \in EarlySteps \cup {"handler"} => pc[w] \in EarlySteps \cup {"handler"}
    BY <1>1 DEF Inv, TypeOK, EarlySteps, TrySteps, FailAttempt, Goto, Finish
  <2>4. torn \subseteq torn'
    BY DEF Torn, FailAttempt
  <2>5. (un[w] # NoUnit /\ pc[w] \in {"checkpoint", "failReceipt"}) =>
          \/ un'[w] = un[w] /\ run'[w] = run[w] /\ pc'[w] \in {"checkpoint", "failReceipt"}
          \/ torn' = Torn(w)
    BY <1>1 DEF Inv, TypeOK, EarlySteps, TrySteps, FailAttempt, Goto, Finish
  <2>6. \A d \in returned' : d \in returned \/ d \in torn \/ checkpoint[d] # NoCheckpoint
    BY <1>1 DEF Inv, Checkpointed, FailAttempt
  <2> QED  BY <1>2, <2>1, <2>2, <2>3, <2>4, <2>5, <2>6, ReuseKept
<1> QED
  BY <1>6, <1>7, <1>8, <1>9, <1>10, <1>11, <1>12, <1>13, <1>14, <1>15, <1>16, <1>17, <1>18,
     <1>19, <1>20, <1>21, <1>22, <1>23 DEF Inv

LEMMA ReuseReceiptInv == ASSUME Inv, NEW w \in Workers, NEW u \in Units, ReuseReceipt(w, u) PROVE Inv'
<1> USE UnitNamesAssumption, UnitWorkersAssumption, GraphAssumption, MaxRunsAssumption
    DEF attempt, steps, driver, locals
<1>1. un[w] = NoUnit /\ pc[w] = "idle"
  BY DEF Inv, Assigned, ReuseReceipt, Goto, Callable
<1>2. OnlyMoves(w) /\ CheckpointsStay
  BY <1>1 DEF Inv, TypeOK, NoCheckpoint, ReuseReceipt, Goto, Callable, OnlyMoves, CheckpointsStay
<1>3. DoomStays
  <2>1. (un[w] # NoUnit /\ Doomed(w)) =>
           (un'[w] = un[w] /\ Doomed(w)') \/ marker'[Step(w)] = "FAILED" \/ Step(w) \in lost'
    BY <1>1 DEF Doomed, Step, ReuseReceipt, Goto, Callable, Inv, TypeOK, Steps, EarlySteps,
       TrySteps, FailureSteps, LockedSteps
  <2> QED  BY <1>2, <2>1, DoomKept
<1>4. UnmarkedStays
  <2>1. UNCHANGED receipt /\ returned \subseteq returned' /\ refused \subseteq refused' /\ (failed => failed')
    BY DEF ReuseReceipt
  <2>2. (un[w] \in returned /\ Step(w) \notin lost' /\ pc[w] \in {"taskStarted", "failAttempt"}) =>
          \/ un'[w] = un[w] /\ pc'[w] \in {"taskStarted", "failAttempt"}
          \/ un[w] \in refused' /\ failed'
          \/ un'[w] = un[w] /\ Doomed(w)'
    BY <1>1 DEF Inv, TypeOK, TrySteps, ReuseReceipt, Goto, Callable
  <2> QED  BY <1>2, <2>1, <2>2, UnmarkedKept
<1>5. TypeOK'
  BY <1>1 DEF Inv, TypeOK, Receipts, Results, Checkpoints, Inputs, NoInputs, Runs, Markers,
     Success, StepEvents, StepStatus, Referenced, Steps, EarlySteps, TrySteps, FailureSteps,
     LockedSteps, ReuseReceipt, Goto, Callable
<1>6. Assigned'
  BY <1>1 DEF Inv, Assigned, TypeOK, Working, Runs, NoUnit, Steps, EarlySteps, TrySteps,
     FailureSteps, LockedSteps, ReuseReceipt, Goto, Callable
<1>7. Locked'
  BY <1>1 DEF Inv, Locked, Assigned, TypeOK, Step, Steps, EarlySteps, TrySteps, FailureSteps,
     LockedSteps, ReuseReceipt, Goto, Callable
<1>8. EventsFollow'
  BY <1>1 DEF Inv, EventsFollow, Locked, TypeOK, Step, Success, StepEvents, StepStatus, Steps,
     EarlySteps, TrySteps, FailureSteps, LockedSteps, ReuseReceipt, Goto, Callable
<1>9. StepEventsOnce'
  BY <1>1 DEF Inv, StepEventsOnce, EventsFollow, TypeOK, Step, Success, StepEvents,
     ReuseReceipt, Goto, Callable
<1>10. Started'
  BY <1>1 DEF Inv, Started, TypeOK, Working, Assigned, Step, Success, StepStatus, Steps,
     EarlySteps, TrySteps, FailureSteps, LockedSteps, ReuseReceipt, Goto, Callable
<1>11. OneWorker'
  BY <1>1 DEF Inv, OneWorker, Assigned, TypeOK, ReuseReceipt, Goto, Callable
<1>12. FirstRun'
  BY <1>1 DEF Inv, FirstRun, OneWorker, TypeOK, Assigned, Kept, Step, Steps, EarlySteps,
     TrySteps, FailureSteps, LockedSteps, ReuseReceipt, Goto, Callable
<1>13. Begun'
  BY <1>1 DEF Inv, Begun, TypeOK, Kept, Working, Assigned, Step, NoCheckpoint, ReuseReceipt,
     Goto, Callable
<1>14. ResultsMade'
  BY <1>1 DEF Inv, ResultsMade, TypeOK, Assigned, Working, Steps, EarlySteps, TrySteps,
     FailureSteps, LockedSteps, ReuseReceipt, Goto, Callable
<1>15. Checkpointed'
  <2>1. ~Kept(u)
    BY DEF Inv, Begun, ReuseReceipt, Callable, Complete
  <2> QED
    BY <2>1 DEF Inv, Checkpointed, Kept, ReuseReceipt
<1>16. CheckpointHolds'
  BY <1>1, <1>3, <1>4 DEF Inv, CheckpointHolds, DoomStays, UnmarkedStays, Kept, Succeeded,
     TypeOK, ReuseReceipt, Goto, Callable
<1>17. CompletionHolds'
  BY <1>1, <1>3, <1>4 DEF Inv, CompletionHolds, DoomStays, UnmarkedStays, Succeeded, UnitsOf,
     StepStatus, TypeOK, Success, ReuseReceipt, Goto, Callable
<1>18. NotLeftStarted'
  <2>1. ~Kept(u)
    BY DEF Inv, Begun, ReuseReceipt, Callable, Complete
  <2>2. \A s \in StepNames \ lost : \A x \in UnitsOf(s) : Past(x)' => Past(x)
    BY <2>1 DEF Past, Kept, UnitsOf, ReuseReceipt
  <2> QED
    BY <1>3, <1>4, <2>2 DEF Inv, NotLeftStarted, DoomStays, UnmarkedStays, UnitsOf, ReuseReceipt
<1>19. FailureHolds'
  BY <1>1 DEF Inv, FailureHolds, TypeOK, Kept, Step, Assigned, Steps, EarlySteps, TrySteps,
     FailureSteps, LockedSteps, ReuseReceipt, Goto, Callable
<1>20. DepsReturned'
  BY <1>1 DEF Inv, DepsReturned, TypeOK, ReuseReceipt, Goto, Callable
<1>21. OrdinaryInv'
  BY <1>1 DEF Inv, OrdinaryInv, BuildJob, Working, TypeOK, Complete, ReuseReceipt, Goto,
     Callable
<1>22. ReuseInv'
  <2>1. UNCHANGED <<runs, receipt, result, checkpoint>>
    BY DEF ReuseReceipt
  <2>2. Working(w)' => Working(w) /\ un'[w] = un[w] /\ run'[w] = run[w] /\ outputs'[w] = outputs[w]
    BY <1>1 DEF Inv, TypeOK, Working, EarlySteps, TrySteps, ReuseReceipt, Goto, Callable
  <2>3. pc'[w] \in EarlySteps \cup {"handler"} => pc[w] \in EarlySteps \cup {"handler"}
    BY <1>1 DEF Inv, TypeOK, EarlySteps, TrySteps, ReuseReceipt, Goto, Callable
  <2>4. torn \subseteq torn'
    BY DEF Torn, ReuseReceipt
  <2>5. (un[w] # NoUnit /\ pc[w] \in {"checkpoint", "failReceipt"}) =>
          \/ un'[w] = un[w] /\ run'[w] = run[w] /\ pc'[w] \in {"checkpoint", "failReceipt"}
          \/ torn' = Torn(w)
    BY <1>1 DEF Inv, TypeOK, EarlySteps, TrySteps, ReuseReceipt, Goto, Callable
  <2>6. \A d \in returned' : d \in returned \/ d \in torn \/ checkpoint[d] # NoCheckpoint
    <3>1. Complete(u) /\ \A v \in Workers : un[v] # u  BY DEF ReuseReceipt, Callable
    <3>2. u \in torn \/ checkpoint[u] # NoCheckpoint  BY <3>1 DEF Inv, ReuseInv, Backed
    <3> QED  BY <3>2 DEF ReuseReceipt
  <2> QED  BY <1>2, <2>1, <2>2, <2>3, <2>4, <2>5, <2>6, ReuseKept
<1> QED
  BY <1>5, <1>6, <1>7, <1>8, <1>9, <1>10, <1>11, <1>12, <1>13, <1>14, <1>15, <1>16, <1>17,
     <1>18, <1>19, <1>20, <1>21, <1>22 DEF Inv

LEMMA BeginUnitInv == ASSUME Inv, NEW w \in Workers, NEW u \in Units, BeginUnit(w, u) PROVE Inv'
<1> USE UnitNamesAssumption, UnitWorkersAssumption, GraphAssumption, MaxRunsAssumption
    DEF attempt, steps, driver, locals
<1>1. un[w] = NoUnit /\ pc[w] = "idle"
  BY DEF Inv, Assigned, BeginUnit, Goto, Callable
<1>2. OnlyMoves(w) /\ CheckpointsStay
  BY <1>1 DEF Inv, TypeOK, NoCheckpoint, BeginUnit, Goto, Callable, OnlyMoves, CheckpointsStay
<1>3. DoomStays
  <2>1. (un[w] # NoUnit /\ Doomed(w)) =>
           (un'[w] = un[w] /\ Doomed(w)') \/ marker'[Step(w)] = "FAILED" \/ Step(w) \in lost'
    BY <1>1 DEF Doomed, Step, BeginUnit, Goto, Callable, Inv, TypeOK, Steps, EarlySteps,
       TrySteps, FailureSteps, LockedSteps
  <2> QED  BY <1>2, <2>1, DoomKept
<1>4. UnmarkedStays
  <2>1. UNCHANGED receipt /\ returned \subseteq returned' /\ refused \subseteq refused' /\ (failed => failed')
    BY DEF BeginUnit
  <2>2. (un[w] \in returned /\ Step(w) \notin lost' /\ pc[w] \in {"taskStarted", "failAttempt"}) =>
          \/ un'[w] = un[w] /\ pc'[w] \in {"taskStarted", "failAttempt"}
          \/ un[w] \in refused' /\ failed'
          \/ un'[w] = un[w] /\ Doomed(w)'
    BY <1>1 DEF Inv, TypeOK, TrySteps, BeginUnit, Goto, Callable
  <2> QED  BY <1>2, <2>1, <2>2, UnmarkedKept
<1>5. \A x \in Units : Past(x)' => Past(x)
  BY <1>1, <1>2 DEF Inv, TypeOK, Past, OnlyMoves, BeginUnit, Goto, Callable
<1>6. TypeOK'
  BY <1>1 DEF Inv, TypeOK, Receipts, Results, Checkpoints, Inputs, NoInputs, Runs, Markers,
     Success, StepEvents, StepStatus, Referenced, Steps, EarlySteps, TrySteps, FailureSteps,
     LockedSteps, BeginUnit, Goto, Callable
<1>7. Assigned'
  BY <1>1 DEF Inv, Assigned, TypeOK, Working, Runs, NoUnit, Steps, EarlySteps, TrySteps,
     FailureSteps, LockedSteps, BeginUnit, Goto, Callable
<1>8. Locked'
  BY <1>1 DEF Inv, Locked, Assigned, TypeOK, Step, Steps, EarlySteps, TrySteps, FailureSteps,
     LockedSteps, BeginUnit, Goto, Callable
<1>9. EventsFollow'
  BY <1>1 DEF Inv, EventsFollow, Locked, TypeOK, Step, Success, StepEvents, StepStatus, Steps,
     EarlySteps, TrySteps, FailureSteps, LockedSteps, BeginUnit, Goto, Callable
<1>10. StepEventsOnce'
  BY <1>1 DEF Inv, StepEventsOnce, EventsFollow, TypeOK, Step, Success, StepEvents, BeginUnit,
     Goto, Callable
<1>11. Started'
  BY <1>1 DEF Inv, Started, TypeOK, Working, Assigned, Step, Success, StepStatus, Steps,
     EarlySteps, TrySteps, FailureSteps, LockedSteps, BeginUnit, Goto, Callable
<1>12. OneWorker'
  BY <1>1 DEF Inv, OneWorker, Assigned, TypeOK, BeginUnit, Goto, Callable
<1>13. FirstRun'
  <2>1. UNCHANGED <<job, receipt, result, checkpoint, failed, returned, refused, lost, marker>>
    BY DEF BeginUnit, steps, driver
  <2>2. un'[w] = u /\ run'[w] = runs[u] + 1 /\ pc'[w] = "startStep"
    BY DEF Inv, TypeOK, BeginUnit, Goto
  <2>3. runs'[u] = runs[u] + 1 /\ \A x \in Units : x # u => runs'[x] = runs[x]
    BY DEF Inv, TypeOK, BeginUnit
  <2>4. (Kept(u) /\ u \notin returned) => runs[u] = 0
    BY DEF Inv, Begun, BeginUnit, Callable
  <2>5. (Kept(u) /\ u \notin returned) => receipt[u].st = "absent"
    BY <2>4 DEF Inv, Begun
  <2>6. \A v \in Workers \ {w} : pc'[v] = pc[v] /\ un'[v] = un[v] /\ run'[v] = run[v]
    BY <1>2 DEF OnlyMoves
  <2> QED
    BY <2>1, <2>2, <2>5, <2>6 DEF Inv, FirstRun, Kept, EarlySteps
<1>14. Begun'
  <2>1. \A x \in Units : (\E v \in Workers : un[v] = x) => \E v \in Workers : un'[v] = x
    BY <1>1, <1>2, UnitNamesAssumption DEF OnlyMoves, NoUnit
  <2>2. un'[w] = u  BY DEF Inv, TypeOK, BeginUnit
  <2>3. \A x \in Units : x # u => runs'[x] = runs[x]  BY DEF Inv, TypeOK, BeginUnit, attempt
  <2>4. runs'[u] = 0 => runs[u] = 0  BY DEF Inv, TypeOK, Runs, BeginUnit, attempt
  <2> QED
    BY <2>1, <2>2, <2>3, <2>4 DEF Inv, Begun, Kept, BeginUnit
<1>15. ResultsMade'
  <2>1. UNCHANGED <<job, receipt, result, checkpoint, failed, returned, refused, lost, marker>>
    BY DEF BeginUnit, steps, driver
  <2>2. un'[w] = u /\ run'[w] = runs[u] + 1 /\ pc'[w] = "startStep"
    BY DEF Inv, TypeOK, BeginUnit, Goto
  <2>3. runs'[u] = runs[u] + 1 /\ \A x \in Units : x # u => runs'[x] = runs[x]
    BY DEF Inv, TypeOK, BeginUnit
  <2>4. \A x \in Units : runs[x] \in Nat /\ result[x].run \in Nat
    BY MaxRunsAssumption DEF Inv, TypeOK, Runs, Results
  <2>5. \A x \in Units : result'[x].run <= runs'[x]
    BY <2>1, <2>3, <2>4 DEF Inv, ResultsMade
  <2> QED
    BY <1>2, <2>1, <2>2, <2>5 DEF Inv, ResultsMade, OnlyMoves
<1>16. Checkpointed'
  <2>1. UNCHANGED <<job, receipt, result, checkpoint, failed, returned, refused, lost, marker>>
    BY DEF BeginUnit, steps, driver
  <2>2. un'[w] = u /\ run'[w] = runs[u] + 1 /\ pc'[w] = "startStep"
    BY DEF Inv, TypeOK, BeginUnit, Goto
  <2>3. runs'[u] = runs[u] + 1 /\ \A x \in Units : x # u => runs'[x] = runs[x]
    BY DEF Inv, TypeOK, BeginUnit
  <2>4. \A x \in Units : runs[x] \in Nat /\ checkpoint[x].res \in Nat
    BY MaxRunsAssumption DEF Inv, TypeOK, Runs, Checkpoints
  <2>5. \A x \in Units : checkpoint'[x].res <= runs'[x]
    BY <2>1, <2>3, <2>4 DEF Inv, Checkpointed
  <2>6. run'[w] # checkpoint[u].res  BY <2>2, <2>4 DEF Inv, Checkpointed
  <2>7. \A v \in Workers \ {w} : pc'[v] = pc[v] /\ un'[v] = un[v] /\ run'[v] = run[v]
    BY <1>2 DEF OnlyMoves
  <2> QED
    BY <2>1, <2>2, <2>5, <2>6, <2>7 DEF Inv, Checkpointed, Kept
<1>17. CheckpointHolds'
  BY <1>1, <1>3, <1>4 DEF Inv, CheckpointHolds, DoomStays, UnmarkedStays, Kept, Succeeded,
     TypeOK, BeginUnit, Goto, Callable
<1>18. CompletionHolds'
  <2>1. UNCHANGED <<marker, receipt, result>> /\ lost \subseteq lost'  BY DEF BeginUnit
  <2> QED  BY <1>3, <1>4, <2>1, CompletionKept
<1>19. NotLeftStarted'
  <2>1. UNCHANGED marker /\ lost \subseteq lost'  BY DEF BeginUnit
  <2> QED  BY <1>3, <1>4, <1>5, <2>1, NotLeftStartedKept
<1>20. FailureHolds'
  <2>1. \A v \in Workers : pc[v] \in {"failStep", "failEvent", "failAttempt"} =>
          pc'[v] = pc[v] /\ un'[v] = un[v]
    BY <1>1, <1>2 DEF OnlyMoves, TrySteps, BeginUnit, Goto, Callable
  <2>2. \A s \in StepNames : marker[s] = "FAILED" => marker'[s] = "FAILED"
    BY <1>1 DEF Inv, TypeOK, BeginUnit, Goto, Callable
  <2>3. UNCHANGED <<receipt, failed, lost>>  BY DEF attempt, driver, BeginUnit
  <2> QED
    BY <2>1, <2>2, <2>3, GraphAssumption DEF Inv, FailureHolds, Kept
<1>21. DepsReturned'
  BY <1>1 DEF Inv, DepsReturned, TypeOK, BeginUnit, Goto, Callable
<1>22. OrdinaryInv'
  <2>1. UNCHANGED <<job, receipt, result, checkpoint, failed, returned, refused, lost, marker>>
    BY DEF BeginUnit, steps, driver
  <2>2. un'[w] = u /\ run'[w] = runs[u] + 1 /\ pc'[w] = "startStep"
    BY DEF Inv, TypeOK, BeginUnit, Goto
  <2>3. runs'[u] = runs[u] + 1 /\ \A x \in Units : x # u => runs'[x] = runs[x]
    BY DEF Inv, TypeOK, BeginUnit
  <2>4. \A d \in RequiredOutputs(u) : outputs'[w][d] = result[d].run
    BY DEF Inv, TypeOK, BeginUnit, RequiredOutputs
  <2>5. \A v \in Workers \ {w} : pc'[v] = pc[v] /\ un'[v] = un[v] /\ outputs'[v] = outputs[v]
    BY <1>2 DEF OnlyMoves
  <2>6. ~BuildJob => u \notin returned  BY DEF Inv, OrdinaryInv, BeginUnit
  <2> QED
    BY <2>1, <2>2, <2>4, <2>5, <2>6 DEF Inv, OrdinaryInv, BuildJob, Complete, Working
<1>23. ReuseInv'
  <2>1. UNCHANGED <<receipt, result, checkpoint, returned, torn>>
    BY DEF BeginUnit
  <2>2. un'[w] = u /\ run'[w] = runs[u] + 1 /\ pc'[w] = "startStep"
    BY DEF Inv, TypeOK, BeginUnit, Goto
  <2>3. runs'[u] = runs[u] + 1 /\ \A x \in Units : x # u => runs'[x] = runs[x]
    BY DEF Inv, TypeOK, BeginUnit
  <2>4. \A d \in RequiredOutputs(u) : outputs'[w][d] = result[d].run
    BY DEF Inv, TypeOK, BeginUnit, RequiredOutputs
  <2>5. \A v \in Workers \ {w} : /\ pc'[v] = pc[v] /\ un'[v] = un[v]
                                 /\ run'[v] = run[v] /\ outputs'[v] = outputs[v]
    BY <1>2 DEF OnlyMoves
  <2>6. \A x \in Units : /\ runs[x] \in Nat /\ receipt[x].res \in Nat /\ result[x].run \in Nat
                         /\ checkpoint[x].res \in Nat
    BY DEF Inv, TypeOK, Runs, Receipts, Results, Checkpoints
  <2>7. Fresh'
    <3>1. \A x \in Units : receipt'[x].res <= runs'[x]
      BY <2>1, <2>3, <2>6 DEF Inv, ReuseInv, Fresh
    <3>2. /\ run'[w] # result[u].run /\ run'[w] # receipt[u].res /\ run'[w] # checkpoint[u].res
      BY <2>2, <2>6 DEF Inv, ReuseInv, Fresh, ResultsMade, Checkpointed
    <3>3. \A v \in Workers \ {w} : (un[v] = u /\ Working(v)) => run[v] # run'[w]
      <4>1. \A v \in Workers : run[v] \in Nat  BY DEF Inv, TypeOK, Runs
      <4> QED  BY <2>2, <2>6, <4>1 DEF Inv, Assigned
    <3>4. ASSUME NEW v \in Workers, NEW x \in Workers, v # x, un'[v] = un'[x], Working(v)', Working(x)'
          PROVE  run'[v] # run'[x]
      <4>1. CASE v = w  BY <2>2, <2>5, <3>3, <3>4, <4>1 DEF Working
      <4>2. CASE x = w  BY <2>2, <2>5, <3>3, <3>4, <4>2 DEF Working
      <4>3. CASE v # w /\ x # w
        BY <2>5, <3>4, <4>3 DEF Working, Inv, ReuseInv, Fresh
      <4> QED  BY <4>1, <4>2, <4>3
    <3> QED  BY <2>1, <2>2, <2>5, <3>1, <3>2, <3>4 DEF Inv, ReuseInv, Fresh
  <2>8. Backed'
    <3>1. \A v \in Workers : pc[v] \in {"checkpoint", "failReceipt"} => v # w  BY <1>1
    <3> QED  BY <2>1, <2>5, <3>1 DEF Inv, ReuseInv, Backed, Complete
  <2>9. ReturnedBacked'  BY <2>1 DEF Inv, ReuseInv, ReturnedBacked
  <2>10. ReadBacked'
    BY <2>1, <2>2, <2>4, <2>5 DEF Inv, ReuseInv, ReadBacked, FromCheckpoint, Working
  <2> QED  BY <2>7, <2>8, <2>9, <2>10 DEF ReuseInv
<1> QED
  BY <1>6, <1>7, <1>8, <1>9, <1>10, <1>11, <1>12, <1>13, <1>14, <1>15, <1>16, <1>17, <1>18,
     <1>19, <1>20, <1>21, <1>22, <1>23 DEF Inv

LEMMA DependencyUnavailableInv == ASSUME Inv, NEW w \in Workers, NEW u \in Units, DependencyUnavailable(w, u) PROVE Inv'
<1> USE UnitNamesAssumption, UnitWorkersAssumption, GraphAssumption, MaxRunsAssumption
    DEF attempt, steps, driver, locals
<1>1. un[w] = NoUnit /\ pc[w] = "idle"
  BY DEF Inv, Assigned, DependencyUnavailable, Goto, Callable
<1>2. OnlyMoves(w) /\ CheckpointsStay
  BY <1>1 DEF Inv, TypeOK, NoCheckpoint, DependencyUnavailable, Goto, Callable, OnlyMoves,
     CheckpointsStay
<1>3. DoomStays
  <2>1. (un[w] # NoUnit /\ Doomed(w)) =>
           (un'[w] = un[w] /\ Doomed(w)') \/ marker'[Step(w)] = "FAILED" \/ Step(w) \in lost'
    BY <1>1 DEF Doomed, Step, DependencyUnavailable, Goto, Callable, Inv, TypeOK, Steps,
       EarlySteps, TrySteps, FailureSteps, LockedSteps
  <2> QED  BY <1>2, <2>1, DoomKept
<1>4. UnmarkedStays
  <2>1. UNCHANGED receipt /\ returned \subseteq returned' /\ refused \subseteq refused' /\ (failed => failed')
    BY DEF DependencyUnavailable
  <2>2. (un[w] \in returned /\ Step(w) \notin lost' /\ pc[w] \in {"taskStarted", "failAttempt"}) =>
          \/ un'[w] = un[w] /\ pc'[w] \in {"taskStarted", "failAttempt"}
          \/ un[w] \in refused' /\ failed'
          \/ un'[w] = un[w] /\ Doomed(w)'
    BY <1>1 DEF Inv, TypeOK, TrySteps, DependencyUnavailable, Goto, Callable
  <2> QED  BY <1>2, <2>1, <2>2, UnmarkedKept
<1>5. \A x \in Units : Past(x)' => Past(x)
  BY <1>1, <1>2 DEF Inv, TypeOK, Past, OnlyMoves, DependencyUnavailable, Goto, Callable
<1>6. TypeOK'
  BY <1>1 DEF Inv, TypeOK, Receipts, Results, Checkpoints, Inputs, NoInputs, Runs, Markers,
     Success, StepEvents, StepStatus, Referenced, Steps, EarlySteps, TrySteps, FailureSteps,
     LockedSteps, DependencyUnavailable, Goto, Callable
<1>7. Assigned'
  BY <1>1 DEF Inv, Assigned, TypeOK, Working, Runs, NoUnit, Steps, EarlySteps, TrySteps,
     FailureSteps, LockedSteps, DependencyUnavailable, Goto, Callable
<1>8. Locked'
  BY <1>1 DEF Inv, Locked, Assigned, TypeOK, Step, Steps, EarlySteps, TrySteps, FailureSteps,
     LockedSteps, DependencyUnavailable, Goto, Callable
<1>9. EventsFollow'
  BY <1>1 DEF Inv, EventsFollow, Locked, TypeOK, Step, Success, StepEvents, StepStatus, Steps,
     EarlySteps, TrySteps, FailureSteps, LockedSteps, DependencyUnavailable, Goto, Callable
<1>10. StepEventsOnce'
  BY <1>1 DEF Inv, StepEventsOnce, EventsFollow, TypeOK, Step, Success, StepEvents,
     DependencyUnavailable, Goto, Callable
<1>11. Started'
  BY <1>1 DEF Inv, Started, TypeOK, Working, Assigned, Step, Success, StepStatus, Steps,
     EarlySteps, TrySteps, FailureSteps, LockedSteps, DependencyUnavailable, Goto, Callable
<1>12. OneWorker'
  BY <1>1 DEF Inv, OneWorker, Assigned, TypeOK, DependencyUnavailable, Goto, Callable
<1>13. FirstRun'
  BY <1>1 DEF Inv, FirstRun, OneWorker, TypeOK, Assigned, Kept, Step, Steps, EarlySteps,
     TrySteps, FailureSteps, LockedSteps, DependencyUnavailable, Goto, Callable
<1>14. Begun'
  <2>1. \A x \in Units : (\E v \in Workers : un[v] = x) => \E v \in Workers : un'[v] = x
    BY <1>1, <1>2, UnitNamesAssumption DEF OnlyMoves, NoUnit
  <2>2. un'[w] = u  BY DEF Inv, TypeOK, DependencyUnavailable
  <2>3. \A x \in Units : x # u => runs'[x] = runs[x]  BY DEF Inv, TypeOK, DependencyUnavailable, attempt
  <2>4. runs'[u] = 0 => runs[u] = 0  BY DEF Inv, TypeOK, Runs, DependencyUnavailable, attempt
  <2> QED
    BY <2>1, <2>2, <2>3, <2>4 DEF Inv, Begun, Kept, DependencyUnavailable
<1>15. ResultsMade'
  BY <1>1 DEF Inv, ResultsMade, TypeOK, Assigned, Working, Steps, EarlySteps, TrySteps,
     FailureSteps, LockedSteps, DependencyUnavailable, Goto, Callable
<1>16. Checkpointed'
  BY <1>1 DEF Inv, Checkpointed, TypeOK, Kept, Assigned, Step, Working, Steps, EarlySteps,
     TrySteps, FailureSteps, LockedSteps, DependencyUnavailable, Goto, Callable
<1>17. CheckpointHolds'
  BY <1>1, <1>3, <1>4 DEF Inv, CheckpointHolds, DoomStays, UnmarkedStays, Kept, Succeeded, TypeOK,
     DependencyUnavailable, Goto, Callable
<1>18. CompletionHolds'
  <2>1. UNCHANGED <<marker, receipt, result>> /\ lost \subseteq lost'  BY DEF DependencyUnavailable
  <2> QED  BY <1>3, <1>4, <2>1, CompletionKept
<1>19. NotLeftStarted'
  <2>1. UNCHANGED marker /\ lost \subseteq lost'  BY DEF DependencyUnavailable
  <2> QED  BY <1>3, <1>4, <1>5, <2>1, NotLeftStartedKept
<1>20. FailureHolds'
  <2>1. \A v \in Workers : pc[v] \in {"failStep", "failEvent", "failAttempt"} =>
          pc'[v] = pc[v] /\ un'[v] = un[v]
    BY <1>1, <1>2 DEF OnlyMoves, TrySteps, DependencyUnavailable, Goto, Callable
  <2>2. \A s \in StepNames : marker[s] = "FAILED" => marker'[s] = "FAILED"
    BY <1>1 DEF Inv, TypeOK, DependencyUnavailable, Goto, Callable
  <2>3. UNCHANGED <<receipt, failed, lost>>  BY DEF attempt, driver, DependencyUnavailable
  <2> QED
    BY <2>1, <2>2, <2>3, GraphAssumption DEF Inv, FailureHolds, Kept
<1>21. DepsReturned'
  BY <1>1 DEF Inv, DepsReturned, TypeOK, DependencyUnavailable, Goto, Callable
<1>22. OrdinaryInv'
  BY <1>1 DEF Inv, OrdinaryInv, BuildJob, Working, TypeOK, Complete, DependencyUnavailable,
     Goto, Callable
<1>23. ReuseInv'
  <2>1. UNCHANGED <<runs, receipt, result, checkpoint>>
    BY DEF DependencyUnavailable
  <2>2. Working(w)' => Working(w) /\ un'[w] = un[w] /\ run'[w] = run[w] /\ outputs'[w] = outputs[w]
    BY <1>1 DEF Inv, TypeOK, Working, EarlySteps, TrySteps, DependencyUnavailable, Goto, Callable
  <2>3. pc'[w] \in EarlySteps \cup {"handler"} => pc[w] \in EarlySteps \cup {"handler"}
    BY <1>1 DEF Inv, TypeOK, EarlySteps, TrySteps, DependencyUnavailable, Goto, Callable
  <2>4. torn \subseteq torn'
    BY DEF Torn, DependencyUnavailable
  <2>5. (un[w] # NoUnit /\ pc[w] \in {"checkpoint", "failReceipt"}) =>
          \/ un'[w] = un[w] /\ run'[w] = run[w] /\ pc'[w] \in {"checkpoint", "failReceipt"}
          \/ torn' = Torn(w)
    BY <1>1 DEF Inv, TypeOK, EarlySteps, TrySteps, DependencyUnavailable, Goto, Callable
  <2>6. \A d \in returned' : d \in returned \/ d \in torn \/ checkpoint[d] # NoCheckpoint
    BY <1>1 DEF Inv, Checkpointed, DependencyUnavailable
  <2> QED  BY <1>2, <2>1, <2>2, <2>3, <2>4, <2>5, <2>6, ReuseKept
<1> QED
  BY <1>6, <1>7, <1>8, <1>9, <1>10, <1>11, <1>12, <1>13, <1>14, <1>15, <1>16, <1>17, <1>18,
     <1>19, <1>20, <1>21, <1>22, <1>23 DEF Inv

LEMMA FailStepUnavailableInv == ASSUME Inv, NEW w \in Workers, FailStepUnavailable(w) PROVE Inv'
<1> USE UnitNamesAssumption, UnitWorkersAssumption, GraphAssumption, MaxRunsAssumption
    DEF attempt, steps, driver, locals
<1>1. un[w] \in Units /\ Step(w) \in StepNames /\ Step(w) = StepOf[un[w]] /\ un[w] # NoUnit
  BY DEF Inv, Assigned, TypeOK, Step, FailStepUnavailable, Goto, Unlocked, Steps, EarlySteps,
     TrySteps, FailureSteps, LockedSteps
<1>2. OnlyMoves(w) /\ CheckpointsStay
  BY <1>1 DEF Inv, TypeOK, NoCheckpoint, FailStepUnavailable, Goto, Unlocked, OnlyMoves,
     CheckpointsStay
<1>3. DoomStays
  <2>1. (un[w] # NoUnit /\ Doomed(w)) =>
           (un'[w] = un[w] /\ Doomed(w)') \/ marker'[Step(w)] = "FAILED" \/ Step(w) \in lost'
    BY <1>1 DEF Doomed, Step, FailStepUnavailable, Goto, Unlocked, Inv, TypeOK, Steps,
       EarlySteps, TrySteps, FailureSteps, LockedSteps
  <2> QED  BY <1>2, <2>1, DoomKept
<1>4. UnmarkedStays
  <2>1. UNCHANGED receipt /\ returned \subseteq returned' /\ refused \subseteq refused' /\ (failed => failed')
    BY DEF FailStepUnavailable
  <2>2. (un[w] \in returned /\ Step(w) \notin lost' /\ pc[w] \in {"taskStarted", "failAttempt"}) =>
          \/ un'[w] = un[w] /\ pc'[w] \in {"taskStarted", "failAttempt"}
          \/ un[w] \in refused' /\ failed'
          \/ un'[w] = un[w] /\ Doomed(w)'
    BY <1>1 DEF Inv, TypeOK, TrySteps, FailStepUnavailable, Goto, Unlocked
  <2> QED  BY <1>2, <2>1, <2>2, UnmarkedKept
<1>5. \A x \in Units : Past(x)' => Past(x)
  BY <1>1, <1>2 DEF Inv, TypeOK, Past, OnlyMoves, FailStepUnavailable, Goto, Unlocked
<1>6. TypeOK'
  <2>1. torn' \subseteq Units  BY <1>1 DEF Inv, TypeOK, Torn, FailStepUnavailable
  <2>2. lifecycle' \in [StepNames -> Workers \cup {NoWorker}]
    BY DEF Inv, TypeOK, Unlocked, FailStepUnavailable
  <2>3. /\ pc' \in [Workers -> Steps] /\ un' \in [Workers -> Units \cup {NoUnit}]
        /\ run' \in [Workers -> Runs] /\ outputs' \in [Workers -> Inputs]
    BY DEF Inv, TypeOK, Runs, Inputs, NoInputs, Steps, FailureSteps, FailStepUnavailable, Goto,
       Finish
  <2>4. lost' \subseteq StepNames  BY <1>1 DEF Inv, TypeOK, FailStepUnavailable
  <2>5. UNCHANGED <<job, runs, receipt, result, checkpoint, marker, events, failed, returned, refused>>
    BY DEF FailStepUnavailable
  <2> QED  BY <2>1, <2>2, <2>3, <2>4, <2>5 DEF Inv, TypeOK
<1>7. Assigned'
  BY <1>1 DEF Inv, Assigned, TypeOK, Working, Runs, NoUnit, Steps, EarlySteps, TrySteps,
     FailureSteps, LockedSteps, FailStepUnavailable, Goto, Unlocked
<1>8. Locked'
  BY <1>1 DEF Inv, Locked, Assigned, TypeOK, Step, Steps, EarlySteps, TrySteps, FailureSteps,
     LockedSteps, FailStepUnavailable, Goto, Unlocked
<1>9. EventsFollow'
  BY <1>1 DEF Inv, EventsFollow, Locked, TypeOK, Step, Success, StepEvents, StepStatus, Steps,
     EarlySteps, TrySteps, FailureSteps, LockedSteps, FailStepUnavailable, Goto, Unlocked
<1>10. StepEventsOnce'
  BY <1>1 DEF Inv, StepEventsOnce, EventsFollow, TypeOK, Step, Success, StepEvents,
     FailStepUnavailable, Goto, Unlocked
<1>11. Started'
  BY <1>1 DEF Inv, Started, TypeOK, Working, Assigned, Step, Success, StepStatus, Steps,
     EarlySteps, TrySteps, FailureSteps, LockedSteps, FailStepUnavailable, Goto, Unlocked
<1>12. OneWorker'
  BY <1>1 DEF Inv, OneWorker, Assigned, TypeOK, FailStepUnavailable, Goto, Unlocked
<1>13. FirstRun'
  BY <1>1 DEF Inv, FirstRun, OneWorker, TypeOK, Assigned, Kept, Step, Steps, EarlySteps,
     TrySteps, FailureSteps, LockedSteps, FailStepUnavailable, Goto, Unlocked
<1>14. Begun'
  BY <1>1 DEF Inv, Begun, TypeOK, Kept, Working, Assigned, Step, NoCheckpoint,
     FailStepUnavailable, Goto, Unlocked
<1>15. ResultsMade'
  BY <1>1 DEF Inv, ResultsMade, TypeOK, Assigned, Working, Steps, EarlySteps, TrySteps,
     FailureSteps, LockedSteps, FailStepUnavailable, Goto, Unlocked
<1>16. Checkpointed'
  BY <1>1 DEF Inv, Checkpointed, TypeOK, Kept, Assigned, Step, Working, Steps, EarlySteps,
     TrySteps, FailureSteps, LockedSteps, FailStepUnavailable, Goto, Unlocked
<1>17. CheckpointHolds'
  BY <1>1, <1>3, <1>4 DEF Inv, CheckpointHolds, DoomStays, UnmarkedStays, Kept, Succeeded, TypeOK,
     FailStepUnavailable, Goto, Unlocked
<1>18. CompletionHolds'
  <2>1. UNCHANGED <<marker, receipt, result>> /\ lost \subseteq lost'  BY DEF FailStepUnavailable
  <2> QED  BY <1>3, <1>4, <2>1, CompletionKept
<1>19. NotLeftStarted'
  <2>1. UNCHANGED marker /\ lost \subseteq lost'  BY DEF FailStepUnavailable
  <2> QED  BY <1>3, <1>4, <1>5, <2>1, NotLeftStartedKept
<1>20. FailureHolds'
  BY <1>1 DEF Inv, FailureHolds, TypeOK, Kept, Step, Assigned, Steps, EarlySteps, TrySteps,
     FailureSteps, LockedSteps, FailStepUnavailable, Goto, Unlocked
<1>21. DepsReturned'
  BY <1>1 DEF Inv, DepsReturned, TypeOK, FailStepUnavailable, Goto, Unlocked
<1>22. OrdinaryInv'
  BY <1>1 DEF Inv, OrdinaryInv, BuildJob, Working, TypeOK, Complete, FailStepUnavailable, Goto,
     Unlocked
<1>23. ReuseInv'
  <2>1. UNCHANGED <<runs, receipt, result, checkpoint>>
    BY DEF FailStepUnavailable
  <2>2. Working(w)' => Working(w) /\ un'[w] = un[w] /\ run'[w] = run[w] /\ outputs'[w] = outputs[w]
    BY <1>1 DEF Inv, TypeOK, Working, EarlySteps, TrySteps, FailStepUnavailable, Goto, Unlocked
  <2>3. pc'[w] \in EarlySteps \cup {"handler"} => pc[w] \in EarlySteps \cup {"handler"}
    BY <1>1 DEF Inv, TypeOK, EarlySteps, TrySteps, FailStepUnavailable, Goto, Unlocked
  <2>4. torn \subseteq torn'
    BY DEF Torn, FailStepUnavailable
  <2>5. (un[w] # NoUnit /\ pc[w] \in {"checkpoint", "failReceipt"}) =>
          \/ un'[w] = un[w] /\ run'[w] = run[w] /\ pc'[w] \in {"checkpoint", "failReceipt"}
          \/ torn' = Torn(w)
    BY <1>1 DEF Inv, TypeOK, EarlySteps, TrySteps, FailStepUnavailable, Goto, Unlocked
  <2>6. \A d \in returned' : d \in returned \/ d \in torn \/ checkpoint[d] # NoCheckpoint
    BY <1>1 DEF Inv, Checkpointed, FailStepUnavailable
  <2> QED  BY <1>2, <2>1, <2>2, <2>3, <2>4, <2>5, <2>6, ReuseKept
<1> QED
  BY <1>6, <1>7, <1>8, <1>9, <1>10, <1>11, <1>12, <1>13, <1>14, <1>15, <1>16, <1>17, <1>18,
     <1>19, <1>20, <1>21, <1>22, <1>23 DEF Inv

LEMMA CrashInv == ASSUME Inv, NEW w \in Workers, Crash(w) PROVE Inv'
<1> USE UnitNamesAssumption, UnitWorkersAssumption, GraphAssumption, MaxRunsAssumption
    DEF attempt, steps, driver, locals
<1>1. un[w] \in Units /\ Step(w) \in StepNames /\ Step(w) = StepOf[un[w]] /\ un[w] # NoUnit
  BY DEF Inv, Assigned, TypeOK, Step, Crash, Goto, Finish, Unlocked, Steps, EarlySteps,
     TrySteps, FailureSteps, LockedSteps
<1>2. OnlyMoves(w) /\ CheckpointsStay
  BY <1>1 DEF Inv, TypeOK, NoCheckpoint, Crash, Goto, Finish, Unlocked, OnlyMoves, CheckpointsStay
<1>3. DoomStays
  <2>1. (un[w] # NoUnit /\ Doomed(w)) =>
           (un'[w] = un[w] /\ Doomed(w)') \/ marker'[Step(w)] = "FAILED" \/ Step(w) \in lost'
    BY <1>1 DEF Doomed, Step, Crash, Goto, Finish, Unlocked, Inv, TypeOK, Steps, EarlySteps,
       TrySteps, FailureSteps, LockedSteps
  <2> QED  BY <1>2, <2>1, DoomKept
<1>4. UnmarkedStays
  <2>1. UNCHANGED receipt /\ returned \subseteq returned' /\ refused \subseteq refused' /\ (failed => failed')
    BY DEF Crash
  <2>2. (un[w] \in returned /\ Step(w) \notin lost' /\ pc[w] \in {"taskStarted", "failAttempt"}) =>
          \/ un'[w] = un[w] /\ pc'[w] \in {"taskStarted", "failAttempt"}
          \/ un[w] \in refused' /\ failed'
          \/ un'[w] = un[w] /\ Doomed(w)'
    BY <1>1 DEF Inv, TypeOK, TrySteps, Crash, Goto, Finish, Unlocked
  <2> QED  BY <1>2, <2>1, <2>2, UnmarkedKept
<1>5. \A x \in Units : Past(x)' => Past(x)
  BY <1>1, <1>2 DEF Inv, TypeOK, Past, OnlyMoves, Crash, Goto, Finish, Unlocked
<1>6. TypeOK'
  <2>1. torn' \subseteq Units  BY <1>1 DEF Inv, TypeOK, Torn, Crash
  <2>2. lifecycle' \in [StepNames -> Workers \cup {NoWorker}]
    BY DEF Inv, TypeOK, Unlocked, Crash
  <2>3. /\ pc' \in [Workers -> Steps] /\ un' \in [Workers -> Units \cup {NoUnit}]
        /\ run' \in [Workers -> Runs] /\ outputs' \in [Workers -> Inputs]
    BY DEF Inv, TypeOK, Runs, Inputs, NoInputs, Steps, FailureSteps, Crash, Goto, Finish
  <2>4. lost' \subseteq StepNames  BY <1>1 DEF Inv, TypeOK, Crash
  <2>5. UNCHANGED <<job, runs, receipt, result, checkpoint, marker, events, failed, returned, refused>>
    BY DEF Crash
  <2> QED  BY <2>1, <2>2, <2>3, <2>4, <2>5 DEF Inv, TypeOK
<1>7. Assigned'
  BY <1>1 DEF Inv, Assigned, TypeOK, Working, Runs, NoUnit, Steps, EarlySteps, TrySteps,
     FailureSteps, LockedSteps, Crash, Goto, Finish, Unlocked
<1>8. Locked'
  BY <1>1 DEF Inv, Locked, Assigned, TypeOK, Step, Steps, EarlySteps, TrySteps, FailureSteps,
     LockedSteps, Crash, Goto, Finish, Unlocked
<1>9. EventsFollow'
  BY <1>1 DEF Inv, EventsFollow, Locked, TypeOK, Step, Success, StepEvents, StepStatus, Steps,
     EarlySteps, TrySteps, FailureSteps, LockedSteps, Crash, Goto, Finish, Unlocked
<1>10. StepEventsOnce'
  BY <1>1 DEF Inv, StepEventsOnce, EventsFollow, TypeOK, Step, Success, StepEvents, Crash, Goto,
     Finish, Unlocked
<1>11. Started'
  BY <1>1 DEF Inv, Started, TypeOK, Working, Assigned, Step, Success, StepStatus, Steps,
     EarlySteps, TrySteps, FailureSteps, LockedSteps, Crash, Goto, Finish, Unlocked
<1>12. OneWorker'
  BY <1>1 DEF Inv, OneWorker, Assigned, TypeOK, Crash, Goto, Finish, Unlocked
<1>13. FirstRun'
  BY <1>1 DEF Inv, FirstRun, OneWorker, TypeOK, Assigned, Kept, Step, Steps, EarlySteps,
     TrySteps, FailureSteps, LockedSteps, Crash, Goto, Finish, Unlocked
<1>14. Begun'
  BY <1>1 DEF Inv, Begun, TypeOK, Kept, Working, Assigned, Step, NoCheckpoint, Crash, Goto,
     Finish, Unlocked
<1>15. ResultsMade'
  BY <1>1 DEF Inv, ResultsMade, TypeOK, Assigned, Working, Steps, EarlySteps, TrySteps,
     FailureSteps, LockedSteps, Crash, Goto, Finish, Unlocked
<1>16. Checkpointed'
  BY <1>1 DEF Inv, Checkpointed, TypeOK, Kept, Assigned, Step, Working, Steps, EarlySteps,
     TrySteps, FailureSteps, LockedSteps, Crash, Goto, Finish, Unlocked
<1>17. CheckpointHolds'
  BY <1>1, <1>3, <1>4 DEF Inv, CheckpointHolds, DoomStays, UnmarkedStays, Kept, Succeeded,
     TypeOK, Crash, Goto, Finish, Unlocked
<1>18. CompletionHolds'
  <2>1. UNCHANGED <<marker, receipt, result>> /\ lost \subseteq lost'  BY DEF Crash
  <2> QED  BY <1>3, <1>4, <2>1, CompletionKept
<1>19. NotLeftStarted'
  <2>1. UNCHANGED marker /\ lost \subseteq lost'  BY DEF Crash
  <2> QED  BY <1>3, <1>4, <1>5, <2>1, NotLeftStartedKept
<1>20. FailureHolds'
  BY <1>1 DEF Inv, FailureHolds, TypeOK, Kept, Step, Assigned, Steps, EarlySteps, TrySteps,
     FailureSteps, LockedSteps, Crash, Goto, Finish, Unlocked
<1>21. DepsReturned'
  BY <1>1 DEF Inv, DepsReturned, TypeOK, Crash, Goto, Finish, Unlocked
<1>22. OrdinaryInv'
  BY <1>1 DEF Inv, OrdinaryInv, BuildJob, Working, TypeOK, Complete, Crash, Goto, Finish,
     Unlocked
<1>23. ReuseInv'
  <2>1. UNCHANGED <<runs, receipt, result, checkpoint>>
    BY DEF Crash
  <2>2. Working(w)' => Working(w) /\ un'[w] = un[w] /\ run'[w] = run[w] /\ outputs'[w] = outputs[w]
    BY <1>1 DEF Inv, TypeOK, Working, EarlySteps, TrySteps, Crash, Goto, Finish, Unlocked
  <2>3. pc'[w] \in EarlySteps \cup {"handler"} => pc[w] \in EarlySteps \cup {"handler"}
    BY <1>1 DEF Inv, TypeOK, EarlySteps, TrySteps, Crash, Goto, Finish, Unlocked
  <2>4. torn \subseteq torn'
    BY DEF Torn, Crash
  <2>5. (un[w] # NoUnit /\ pc[w] \in {"checkpoint", "failReceipt"}) =>
          \/ un'[w] = un[w] /\ run'[w] = run[w] /\ pc'[w] \in {"checkpoint", "failReceipt"}
          \/ torn' = Torn(w)
    BY <1>1 DEF Inv, TypeOK, EarlySteps, TrySteps, Crash, Goto, Finish, Unlocked
  <2>6. \A d \in returned' : d \in returned \/ d \in torn \/ checkpoint[d] # NoCheckpoint
    BY <1>1 DEF Inv, Checkpointed, Crash
  <2> QED  BY <1>2, <2>1, <2>2, <2>3, <2>4, <2>5, <2>6, ReuseKept
<1> QED
  BY <1>6, <1>7, <1>8, <1>9, <1>10, <1>11, <1>12, <1>13, <1>14, <1>15, <1>16, <1>17, <1>18,
     <1>19, <1>20, <1>21, <1>22, <1>23 DEF Inv

LEMMA InitInv == Init => Inv
<1> SUFFICES ASSUME Init PROVE Inv
  OBVIOUS
<1> USE UnitNamesAssumption, UnitWorkersAssumption, GraphAssumption, MaxRunsAssumption DEF Init
<1>1. TypeOK
  <2>1. 0 \in Runs /\ NoInputs \in Inputs  BY DEF Runs, NoInputs, Inputs
  <2>2. receipt \in [Units -> Receipts] /\ checkpoint \in [Units -> Checkpoints]
    BY <2>1 DEF Receipts, Checkpoints, NoCheckpoint
  <2>3. result \in [Units -> Results]  BY <2>1 DEF Results
  <2>4. events \in [StepNames -> [StepEvents -> Nat]] /\ marker \in [StepNames -> Markers]
    BY DEF Markers
  <2> QED  BY <2>1, <2>2, <2>3, <2>4 DEF TypeOK, Steps
<1>2. Assigned /\ Locked  BY DEF Assigned, Locked, Working, LockedSteps
<1>3. EventsFollow /\ StepEventsOnce  BY DEF EventsFollow, StepEventsOnce, StepEvents
<1>4. Started /\ OneWorker /\ FirstRun  BY DEF Started, OneWorker, FirstRun, Working
<1>5. Begun /\ ResultsMade /\ Checkpointed
  BY DEF Begun, ResultsMade, Checkpointed, NoCheckpoint
<1>6. CheckpointHolds /\ CompletionHolds /\ NotLeftStarted /\ FailureHolds
  BY DEF CheckpointHolds, CompletionHolds, NotLeftStarted, FailureHolds, Success
<1>7. DepsReturned  BY DEF DepsReturned
<1>8. OrdinaryInv  BY DEF OrdinaryInv, Working
<1>9. ReuseInv
  BY DEF ReuseInv, Fresh, Backed, ReturnedBacked, ReadBacked, Complete, Working, EarlySteps
<1> QED  BY <1>1, <1>2, <1>3, <1>4, <1>5, <1>6, <1>7, <1>8, <1>9 DEF Inv

LEMMA StutterInv == ASSUME Inv, UNCHANGED vars PROVE Inv'
<1> USE DEF vars, Inv
<1>1. TypeOK'  BY DEF TypeOK
<1>2. Assigned' /\ Locked' /\ Started'  BY DEF Assigned, Locked, Working, Started, Step
<1>3. EventsFollow' /\ StepEventsOnce'  BY DEF EventsFollow, StepEventsOnce, Step
<1>4. OneWorker' /\ FirstRun'  BY DEF OneWorker, FirstRun, Kept
<1>5. Begun' /\ ResultsMade' /\ Checkpointed'  BY DEF Begun, ResultsMade, Checkpointed, Kept
<1>6. /\ \A s : DoomedStep(s)' <=> DoomedStep(s)
      /\ \A u : Unmarked(u)' <=> Unmarked(u)
  BY DEF DoomedStep, Doomed, Step, Unmarked
<1>7. CheckpointHolds'  BY <1>6 DEF CheckpointHolds, Kept, Succeeded
<1>8. CompletionHolds'  BY <1>6 DEF CompletionHolds, Succeeded, StepStatus, UnitsOf
<1>9. NotLeftStarted'  BY <1>6 DEF NotLeftStarted, Past, UnitsOf
<1>10. FailureHolds' /\ DepsReturned'  BY DEF FailureHolds, Kept, DepsReturned
<1>11. OrdinaryInv'  BY DEF OrdinaryInv, BuildJob, Complete, Working
<1>12. ReuseInv'
  BY DEF ReuseInv, Fresh, Backed, ReturnedBacked, ReadBacked, Complete, FromCheckpoint, Working
<1> QED
  BY <1>1, <1>2, <1>3, <1>4, <1>5, <1>7, <1>8, <1>9, <1>10, <1>11, <1>12

LEMMA NextInv == Inv /\ [Next]_vars => Inv'
<1> SUFFICES ASSUME Inv, [Next]_vars PROVE Inv'
  OBVIOUS
<1>1. CASE UNCHANGED vars  BY <1>1, StutterInv
<1>2. ASSUME NEW w \in Workers, WorkerStep(w) PROVE Inv'
  BY <1>2, StartStepInv, LogStepStartedInv, WriteRunningInv, LogTaskStartedInv, WriteResultInv,
     WriteSucceededInv, PublishCheckpointInv, CompleteStepInv, LogStepCompletedInv, ReturnUnitInv, RaisesInv,
     RaisesEarlyInv, WriteFailedInv, FailStepInv, LogStepFailedInv, FailAttemptInv DEF WorkerStep
<1>3. ASSUME NEW w \in Workers, DriverStep(w) PROVE Inv'
  BY <1>3, ReuseReceiptInv, BeginUnitInv, DependencyUnavailableInv DEF DriverStep
<1>4. ASSUME NEW w \in Workers, FailStepUnavailable(w) \/ Crash(w) PROVE Inv'
  BY <1>4, FailStepUnavailableInv, CrashInv
<1> QED  BY <1>1, <1>2, <1>3, <1>4 DEF Next

(* The inductive invariant holds in every reachable state.                 *)
LEMMA Correct == Spec => []Inv
<1> QED  BY InitInv, NextInv, PTL DEF Spec

-----------------------------------------------------------------------------

(* Every variable keeps its type.                                          *)
THEOREM TypeCorrect == Spec => []TypeOK
<1>1. Inv => TypeOK  BY DEF Inv
<1> QED  BY <1>1, Correct, PTL

(* The run log holds each lifecycle event of a step at most once, wherever *)
(* a process dies between a marker and its event.                          *)
THEOREM EventsOnce == Spec => []StepEventsOnce
<1>1. Inv => StepEventsOnce  BY DEF Inv
<1> QED  BY <1>1, Correct, PTL

(* When nobody works on a step that no process died in, its lifecycle      *)
(* marker agrees with the receipts of its units.                           *)
THEOREM MarkersAgree == Spec => []StepAgrees
<1>1. Inv => StepAgrees
  <2> SUFFICES ASSUME Inv, NEW s \in StepNames \ lost, Quiet(s)
               PROVE  /\ marker[s] \in Success =>
                           /\ \A u \in UnitsOf(s) : Succeeded(u) \/ Unannounced(u)
                           /\ marker[s] = StepStatus(s)
                      /\ (\E u \in UnitsOf(s) : receipt[u].st = "FAILED") =>
                           marker[s] = "FAILED" /\ failed
                      /\ (UnitsOf(s) # {} /\ UnitsOf(s) \subseteq returned \ refused) =>
                           marker[s] \in Success \cup {"FAILED"}
    BY DEF StepAgrees
  <2>1. ~DoomedStep(s)  BY DEF DoomedStep, Quiet
  <2>2. \A u \in UnitsOf(s) : u \in Units /\ Kept(u) /\ StepOf[u] = s  BY DEF UnitsOf, Kept
  <2>3. \A u \in UnitsOf(s) : \A w \in Workers : un[w] # u
    BY <2>2, UnitNamesAssumption DEF Quiet, Step, NoUnit
  <2>4. \A u \in UnitsOf(s) : Unmarked(u) => Unannounced(u)
    BY <2>3 DEF Unmarked, Unannounced
  <2>5. marker[s] \in Success =>
          (\A u \in UnitsOf(s) : Succeeded(u) \/ Unannounced(u)) /\ marker[s] = StepStatus(s)
    BY <2>1, <2>4 DEF Inv, CompletionHolds
  <2>6. (\E u \in UnitsOf(s) : receipt[u].st = "FAILED") => marker[s] = "FAILED" /\ failed
    BY <2>2, <2>3 DEF Inv, FailureHolds
  <2>7. ASSUME UnitsOf(s) # {}, UnitsOf(s) \subseteq returned \ refused
        PROVE  marker[s] \in Success \cup {"FAILED"}
    <3>1. marker[s] # "STARTED"
      BY <2>1, <2>4, <2>7 DEF Inv, NotLeftStarted, Past, Unannounced
    <3>2. marker[s] # "absent"  BY <2>2, <2>7 DEF Inv, Checkpointed
    <3> QED  BY <3>1, <3>2 DEF Inv, TypeOK, Markers
  <2> QED  BY <2>5, <2>6, <2>7
<1> QED  BY <1>1, Correct, PTL

(* A result that was made from a replaced result of a dependency is never  *)
(* selected together with the result that replaced it, in a build job with *)
(* process deaths too unless the dependency was left without a checkpoint. *)
THEOREM ReuseIsClosed == Spec => []ReuseClosed
<1>1. Inv => ReuseClosed
  <2> SUFFICES ASSUME Inv, NEW u \in Units, Selected(u), NEW d \in RequiredOutputs(u),
                      ~Unguarded(d)
               PROVE  result[u].from[d] = result[d].run
    BY DEF ReuseClosed
  <2>1. d \in Units /\ Admitted(d) /\ Admitted(u)  BY DEF Selected, RequiredOutputs
  <2>2. result[u].run # 0  BY <2>1 DEF Admitted, Complete
  <2>3. CASE ~BuildJob  BY <2>2, <2>3 DEF Inv, OrdinaryInv
  <2>4. CASE d \notin torn
    <3>1. FromCheckpoint(result[u].from[d], d)  BY <2>2, <2>4 DEF Inv, ReuseInv, ReadBacked
    <3>2. checkpoint[d].res = result[d].run  BY <2>1 DEF Admitted, Referenced
    <3> QED  BY <3>1, <3>2 DEF FromCheckpoint
  <2> QED  BY <2>3, <2>4 DEF Unguarded
<1> QED  BY <1>1, Correct, PTL

(* What finalization publishes fits together: each result was made from    *)
(* the results of its dependencies that are published with it, with the    *)
(* same exception.                                                         *)
THEOREM PublicationConsistent == Spec => []PublishedConsistent
<1>1. Inv => PublishedConsistent
  <2> SUFFICES ASSUME Inv, \A u \in Units : Complete(u), \A w \in Workers : pc[w] = "idle",
                      NEW u \in Units, NEW d \in RequiredOutputs(u), ~Unguarded(d)
               PROVE  result[u].from[d] = result[d].run
    BY DEF PublishedConsistent
  <2>1. d \in Units  BY DEF RequiredOutputs
  <2>2. result[u].run # 0  BY DEF Complete
  <2>3. CASE ~BuildJob  BY <2>2, <2>3 DEF Inv, OrdinaryInv
  <2>4. CASE d \notin torn
    <3>1. FromCheckpoint(result[u].from[d], d)  BY <2>2, <2>4 DEF Inv, ReuseInv, ReadBacked
    <3>2. checkpoint[d].res = result[d].run  BY <2>1, <2>4 DEF Inv, ReuseInv, Backed
    <3> QED  BY <3>1, <3>2 DEF FromCheckpoint
  <2> QED  BY <2>3, <2>4 DEF Unguarded
<1> QED  BY <1>1, Correct, PTL

=============================================================================
