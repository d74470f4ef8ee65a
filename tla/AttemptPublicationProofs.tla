---------------------- MODULE AttemptPublicationProofs ----------------------
(***************************************************************************)
(* Proofs about AttemptPublication, for any number of processes, units and *)
(* attempts.  The inductive invariant is built in layers, each inductive   *)
(* relative to the ones before it.                                         *)
(***************************************************************************)
EXTENDS AttemptPublication, TLAPS

(* A process at work is at work on an attempt, and on a unit if it         *)
(* executes one.                                                           *)
UnitSteps == {"unit", "checkpoint"}
AtAttempt ==
    \A w \in Workers :
        /\ pc[w] # "idle" => at[w] \in Attempts
        /\ pc[w] \in UnitSteps => un[w] \in Units

Typed == TypeOK /\ AtAttempt

(* The types of TypeOK by the part of the state they speak of.             *)
FilesOK ==
    /\ made \in 0..MaxAttempt
    /\ receipts \in [Attempts -> SUBSET Units]
    /\ status \in [Attempts -> Statuses]
    /\ handoff \subseteq Attempts
    /\ published \in [Attempts -> Statuses]
    /\ latest \in 0..MaxAttempt
    /\ index \in 0..MaxAttempt
    /\ lastCommit \in 0..MaxAttempt
    /\ torn \in BOOLEAN

LogsOK ==
    /\ claims \subseteq Attempts
    /\ reused \subseteq Attempts
    /\ accepted \subseteq Attempts
    /\ jobFailed \in [Attempts -> Nat]
    /\ finalized \subseteq Attempts

LocksOK ==
    /\ pubLock \in Workers \cup {NoWorker}
    /\ failLock \in [Attempts -> Workers \cup {NoWorker}]

LocalsOK ==
    /\ active \subseteq Workers
    /\ pc \in [Workers -> Steps]
    /\ at \in [Workers -> 0..MaxAttempt]
    /\ un \in [Workers -> Units \cup {"none"}]
    /\ prevLatest \in [Workers -> 0..MaxAttempt]
    /\ prevIndex \in [Workers -> 0..MaxAttempt]

(* TypeOK is the conjunction of its parts.                                 *)
LEMMA TypeParts == TypeOK <=> FilesOK /\ LogsOK /\ LocksOK /\ LocalsOK
  BY DEF TypeOK, FilesOK, LogsOK, LocksOK, LocalsOK

(* Leaving an operation keeps the types of the process variables.          *)
LEMMA LeaveTyped ==
    ASSUME Typed, NEW w \in Workers, Leave(w), FilesOK', LogsOK', LocksOK'
    PROVE  Typed'
<1>1. LocalsOK' /\ AtAttempt'
  BY TypeParts, MaxAttemptAssumption
     DEF Typed, AtAttempt, LocalsOK, Leave, Goto, Steps, NoAttempt, UnitSteps
<1> QED  BY <1>1 DEF Typed, TypeOK, FilesOK, LogsOK, LocksOK, LocalsOK

(* So does a move to another step of the same operation.                   *)
LEMMA GotoTyped ==
    ASSUME Typed, NEW w \in Workers, NEW s \in Steps, pc[w] # "idle", Goto(w, s),
           s \in UnitSteps => un[w] \in Units,
           UNCHANGED <<active, at, saved>>, FilesOK', LogsOK', LocksOK'
    PROVE  Typed'
<1>1. LocalsOK' /\ AtAttempt'
  BY TypeParts DEF Typed, AtAttempt, LocalsOK, Goto, saved
<1> QED  BY <1>1 DEF Typed, TypeOK, FilesOK, LogsOK, LocksOK, LocalsOK

(* So does an exception.                                                   *)
LEMMA RaiseTyped ==
    ASSUME Typed, NEW w \in Workers, pc[w] # "idle", Raise(w), FilesOK', LogsOK', LocksOK'
    PROVE  Typed'
<1>1. LocalsOK' /\ AtAttempt'
  BY TypeParts, MaxAttemptAssumption
     DEF Typed, AtAttempt, LocalsOK, Raise, Goto, Steps, NoAttempt, UnitSteps
<1> QED  BY <1>1 DEF Typed, TypeOK, FilesOK, LogsOK, LocksOK, LocalsOK

(* And entering an operation on an attempt.                                *)
LEMMA EnterTyped ==
    ASSUME Typed, NEW w \in Workers, NEW s \in Steps, NEW a \in Attempts,
           Enter(w, a, s), active' \in {active, active \cup {w}},
           (un' = un /\ s \notin UnitSteps) \/ \E u \in Units : un' = [un EXCEPT ![w] = u],
           UNCHANGED <<prevLatest, prevIndex>>, FilesOK', LogsOK', LocksOK'
    PROVE  Typed'
<1>1. LocalsOK' /\ AtAttempt'
  BY TypeParts, MaxAttemptAssumption DEF Typed, AtAttempt, LocalsOK, Enter, Goto, Attempts
<1> QED  BY <1>1 DEF Typed, TypeOK, FilesOK, LogsOK, LocksOK, LocalsOK

(* Releasing a process's locks keeps their types.                          *)
LEMMA ReleaseTyped ==
    ASSUME LocksOK, NEW w \in Workers, Release(w)
    PROVE  LocksOK'
  BY DEF LocksOK, Release

(* Every initial state is well typed.                                      *)
LEMMA InitTyped == Init => Typed
<1> SUFFICES ASSUME Init PROVE Typed
  OBVIOUS
<1> USE MaxAttemptAssumption DEF Init, Attempts, NoAttempt, Statuses
<1>1. FilesOK
  <2>1. status \in [Attempts -> Statuses] /\ published \in [Attempts -> Statuses]
    OBVIOUS
  <2>2. receipts \in [Attempts -> SUBSET Units]
    OBVIOUS
  <2>3. {made, latest, index, lastCommit} \subseteq 0..MaxAttempt
    OBVIOUS
  <2>4. handoff \subseteq Attempts /\ torn \in BOOLEAN
    OBVIOUS
  <2> HIDE DEF Init, Attempts, Statuses
  <2> QED  BY <2>1, <2>2, <2>3, <2>4 DEF FilesOK
<1>2. LogsOK  BY DEF LogsOK
<1>3. LocksOK  BY DEF LocksOK
<1>4. LocalsOK  BY DEF LocalsOK, Steps
<1>5. AtAttempt  BY DEF AtAttempt, UnitSteps
<1> QED  BY <1>1, <1>2, <1>3, <1>4, <1>5, TypeParts DEF Typed

(* Every step keeps the types, and every process at work on an attempt.    *)
LEMMA NextTyped == Typed /\ [Next]_vars => Typed'
<1> SUFFICES ASSUME Typed, [Next]_vars PROVE Typed'
  OBVIOUS
<1> FilesOK /\ LogsOK /\ LocksOK /\ LocalsOK /\ AtAttempt
  BY TypeParts DEF Typed
<1> USE MaxAttemptAssumption
    DEF files, logs, locks, saved, history, Steps, UnitSteps, PublishSteps, FailSteps, PointerSteps,
        RollbackSteps
<1> DEFINE SameFiles == UNCHANGED <<files, history>>
           SameLogs == UNCHANGED <<claims, reused, logs>>
           SameLocks == UNCHANGED locks
<1>f. SameFiles => FilesOK'  BY DEF FilesOK
<1>l. SameLogs => LogsOK'  BY DEF LogsOK
<1>k. SameLocks => LocksOK'  BY DEF LocksOK
<1>1. CASE UNCHANGED vars
  BY <1>1 DEF vars, Typed, TypeOK, AtAttempt
<1>2. CASE ReuseAttempt
  <2>1. FilesOK' /\ LocksOK' /\ LocalsOK' /\ AtAttempt'
    BY <1>2, <1>f, <1>k DEF ReuseAttempt, LocalsOK, AtAttempt
  <2>2. LogsOK'
    BY <1>2 DEF ReuseAttempt, LogsOK, FilesOK, NoAttempt, Attempts
  <2> QED  BY <2>1, <2>2 DEF Typed, TypeOK, FilesOK, LogsOK, LocksOK, LocalsOK
<1>3. ASSUME NEW w \in Workers, Prepare(w) PROVE Typed'
  <2>1. CASE BeginAttempt(w)
    <3>1. FilesOK'
      BY <2>1 DEF BeginAttempt, FilesOK, LocalsOK, AtAttempt, Attempts, Statuses
    <3>2. LogsOK'  BY <1>l, <2>1 DEF BeginAttempt
    <3>3. LocksOK'  BY <1>k, <2>1 DEF BeginAttempt
    <3>4. made + 1 \in Attempts
      BY <2>1 DEF BeginAttempt, FilesOK, Attempts
    <3> QED
      BY <2>1, <3>1, <3>2, <3>3, <3>4, EnterTyped DEF BeginAttempt
  <2>2. CASE StartAttempt(w)
    <3>1. FilesOK'
      BY <2>2 DEF StartAttempt, FilesOK, LocalsOK, AtAttempt, Attempts, Statuses
    <3>2. LogsOK'  BY <1>l, <2>2 DEF StartAttempt
    <3>3. LocksOK'  BY <1>k, <2>2 DEF StartAttempt
    <3> QED  BY <2>2, <3>1, <3>2, <3>3, GotoTyped DEF StartAttempt
  <2>3. CASE ReturnClaim(w)
    <3>1. FilesOK'  BY <1>f, <2>3 DEF ReturnClaim
    <3>2. LogsOK'  BY <2>3 DEF ReturnClaim, LogsOK, AtAttempt, Attempts
    <3>3. LocksOK'  BY <1>k, <2>3 DEF ReturnClaim
    <3> QED  BY <2>3, <3>1, <3>2, <3>3, LeaveTyped DEF ReturnClaim
  <2>4. CASE PreparationFails(w)
    <3>1. FilesOK'  BY <1>f, <2>4 DEF PreparationFails
    <3>2. LogsOK'  BY <1>l, <2>4 DEF PreparationFails
    <3>3. LocksOK'  BY <1>k, <2>4 DEF PreparationFails
    <3> QED  BY <2>4, <3>1, <3>2, <3>3, RaiseTyped DEF PreparationFails
  <2> QED  BY <1>3, <2>1, <2>2, <2>3, <2>4 DEF Prepare
<1>4. ASSUME NEW w \in Workers, Execute(w) PROVE Typed'
  <2>1. ASSUME NEW a \in Attempts, NEW u \in Units, BeginUnit(w, a, u) PROVE Typed'
    <3>1. FilesOK'
      BY <2>1 DEF BeginUnit, FilesOK, LocalsOK, AtAttempt, Attempts, Statuses
    <3>2. LogsOK'  BY <1>l, <2>1 DEF BeginUnit
    <3>3. LocksOK'  BY <1>k, <2>1 DEF BeginUnit
    <3> QED  BY <2>1, <3>1, <3>2, <3>3, EnterTyped DEF BeginUnit
  <2>2. CASE UnitSucceeds(w)
    <3>1. FilesOK'
      BY <2>2 DEF UnitSucceeds, FilesOK, LocalsOK, AtAttempt, Attempts, Statuses
    <3>2. LogsOK'  BY <1>l, <2>2 DEF UnitSucceeds
    <3>3. LocksOK'  BY <1>k, <2>2 DEF UnitSucceeds
    <3>4. un[w] \in Units  BY <2>2 DEF UnitSucceeds, AtAttempt
    <3> QED  BY <2>2, <3>1, <3>2, <3>3, <3>4, GotoTyped DEF UnitSucceeds
  <2>3. CASE UnitFails(w)
    <3>1. FilesOK'
      BY <2>3 DEF UnitFails, FilesOK, LocalsOK, AtAttempt, Attempts, Statuses
    <3>2. LogsOK'  BY <1>l, <2>3 DEF UnitFails
    <3>3. LocksOK'  BY <1>k, <2>3 DEF UnitFails
    <3> QED  BY <2>3, <3>1, <3>2, <3>3, RaiseTyped DEF UnitFails
  <2>4. ASSUME NEW a \in Attempts, DriverFails(w, a) PROVE Typed'
    <3>1. FilesOK'  BY <1>f, <2>4 DEF DriverFails
    <3>2. LogsOK'  BY <1>l, <2>4 DEF DriverFails
    <3>3. LocksOK'  BY <1>k, <2>4 DEF DriverFails
    <3> QED  BY <2>4, <3>1, <3>2, <3>3, EnterTyped DEF DriverFails
  <2>5. ASSUME NEW a \in Attempts, ReusedUnitRaises(w, a) PROVE Typed'
    <3>1. FilesOK'  BY <1>f, <2>5 DEF ReusedUnitRaises
    <3>2. LogsOK'  BY <1>l, <2>5 DEF ReusedUnitRaises
    <3>3. LocksOK'  BY <1>k, <2>5 DEF ReusedUnitRaises
    <3> QED  BY <2>5, <3>1, <3>2, <3>3, EnterTyped DEF ReusedUnitRaises
  <2>6. CASE UnitReturns(w)
    <3>1. FilesOK'  BY <1>f, <2>6 DEF UnitReturns
    <3>2. LogsOK'  BY <1>l, <2>6 DEF UnitReturns
    <3>3. LocksOK'  BY <1>k, <2>6 DEF UnitReturns
    <3> QED  BY <2>6, <3>1, <3>2, <3>3, LeaveTyped DEF UnitReturns
  <2> QED  BY <1>4, <2>1, <2>2, <2>3, <2>4, <2>5, <2>6 DEF Execute
<1>5. ASSUME NEW w \in Workers, Finalize(w) PROVE Typed'
  <2>1. ASSUME NEW a \in Attempts, BeginFinalize(w, a) PROVE Typed'
    <3>1. FilesOK'  BY <1>f, <2>1 DEF BeginFinalize
    <3>2. LogsOK'  BY <1>l, <2>1 DEF BeginFinalize
    <3>3. LocksOK'  BY <1>k, <2>1 DEF BeginFinalize
    <3> QED  BY <2>1, <3>1, <3>2, <3>3, EnterTyped DEF BeginFinalize
  <2>2. CASE AlreadyPublished(w)
    <3>1. FilesOK'  BY <1>f, <2>2 DEF AlreadyPublished
    <3>2. LogsOK'  BY <1>l, <2>2 DEF AlreadyPublished
    <3>3. LocksOK'  BY <1>k, <2>2 DEF AlreadyPublished
    <3> QED  BY <2>2, <3>1, <3>2, <3>3, LeaveTyped DEF AlreadyPublished
  <2>3. CASE NotYetPublished(w)
    <3>1. FilesOK'  BY <1>f, <2>3 DEF NotYetPublished
    <3>2. LogsOK'  BY <1>l, <2>3 DEF NotYetPublished
    <3>3. LocksOK'  BY <1>k, <2>3 DEF NotYetPublished
    <3> QED  BY <2>3, <3>1, <3>2, <3>3, GotoTyped DEF NotYetPublished
  <2>4. CASE CheckReceipts(w)
    <3>1. FilesOK'  BY <1>f, <2>4 DEF CheckReceipts
    <3>2. LogsOK'  BY <1>l, <2>4 DEF CheckReceipts
    <3>3. LocksOK'  BY <1>k, <2>4 DEF CheckReceipts
    <3> QED  BY <2>4, <3>1, <3>2, <3>3, GotoTyped DEF CheckReceipts
  <2>5. CASE FinalizeRefused(w)
    <3>1. FilesOK'  BY <1>f, <2>5 DEF FinalizeRefused
    <3>2. LogsOK'  BY <1>l, <2>5 DEF FinalizeRefused
    <3>3. LocksOK'  BY <1>k, <2>5 DEF FinalizeRefused
    <3> QED  BY <2>5, <3>1, <3>2, <3>3, RaiseTyped DEF FinalizeRefused
  <2> QED  BY <1>5, <2>1, <2>2, <2>3, <2>4, <2>5 DEF Finalize
<1>6. ASSUME NEW w \in Workers, Publish(w) PROVE Typed'
  <2>1. CASE AcquirePublication(w)
    <3>1. FilesOK'  BY <1>f, <2>1 DEF AcquirePublication
    <3>2. LogsOK'  BY <1>l, <2>1 DEF AcquirePublication
    <3>3. LocksOK'  BY <2>1 DEF AcquirePublication, LocksOK
    <3> QED  BY <2>1, <3>1, <3>2, <3>3, GotoTyped DEF AcquirePublication
  <2>2. CASE AcquireFailure(w)
    <3>1. FilesOK'  BY <1>f, <2>2 DEF AcquireFailure
    <3>2. LogsOK'  BY <1>l, <2>2 DEF AcquireFailure
    <3>3. LocksOK'  BY <2>2 DEF AcquireFailure, LocksOK
    <3> QED  BY <2>2, <3>1, <3>2, <3>3, GotoTyped DEF AcquireFailure
  <2>3. CASE FailedMeanwhile(w)
    <3>1. FilesOK'  BY <1>f, <2>3 DEF FailedMeanwhile
    <3>2. LogsOK'  BY <1>l, <2>3 DEF FailedMeanwhile
    <3>3. LocksOK'  BY ReleaseTyped, <2>3 DEF FailedMeanwhile
    <3> QED  BY <2>3, <3>1, <3>2, <3>3, RaiseTyped DEF FailedMeanwhile
  <2>4. CASE PublicationLockTimeout(w)
    <3>1. FilesOK'  BY <1>f, <2>4 DEF PublicationLockTimeout
    <3>2. LogsOK'  BY <1>l, <2>4 DEF PublicationLockTimeout
    <3>3. LocksOK'  BY ReleaseTyped, <2>4 DEF PublicationLockTimeout
    <3> QED  BY <2>4, <3>1, <3>2, <3>3, RaiseTyped DEF PublicationLockTimeout
  <2>5. CASE LinkHandoff(w)
    <3>1. FilesOK'
      BY <2>5 DEF LinkHandoff, FilesOK, LocalsOK, AtAttempt, Attempts, Statuses
    <3>2. LogsOK'  BY <1>l, <2>5 DEF LinkHandoff
    <3>3. LocksOK'  BY <1>k, <2>5 DEF LinkHandoff
    <3>4. LocalsOK' /\ AtAttempt'
      BY <2>5 DEF LinkHandoff, Goto, LocalsOK, FilesOK, AtAttempt
    <3> QED  BY <3>1, <3>2, <3>3, <3>4 DEF Typed, TypeOK, FilesOK, LogsOK, LocksOK, LocalsOK
  <2>6. CASE PublicationRefused(w)
    <3>1. FilesOK'  BY <1>f, <2>6 DEF PublicationRefused
    <3>2. LogsOK'  BY <1>l, <2>6 DEF PublicationRefused
    <3>3. LocksOK'  BY ReleaseTyped, <2>6 DEF PublicationRefused
    <3> QED  BY <2>6, <3>1, <3>2, <3>3, RaiseTyped DEF PublicationRefused
  <2>7. CASE WriteStatus(w)
    <3>1. FilesOK'
      BY <2>7 DEF WriteStatus, FilesOK, LocalsOK, AtAttempt, Attempts, Statuses
    <3>2. LogsOK'  BY <1>l, <2>7 DEF WriteStatus
    <3>3. LocksOK'  BY <1>k, <2>7 DEF WriteStatus
    <3> QED  BY <2>7, <3>1, <3>2, <3>3, GotoTyped DEF WriteStatus
  <2>8. CASE WriteIndex(w)
    <3>1. FilesOK'
      BY <2>8 DEF WriteIndex, FilesOK, LocalsOK, AtAttempt, Attempts, Statuses
    <3>2. LogsOK'  BY <1>l, <2>8 DEF WriteIndex
    <3>3. LocksOK'  BY <1>k, <2>8 DEF WriteIndex
    <3> QED  BY <2>8, <3>1, <3>2, <3>3, GotoTyped DEF WriteIndex
  <2>9. CASE WriteLatest(w)
    <3>1. FilesOK'
      BY <2>9 DEF WriteLatest, FilesOK, LocalsOK, AtAttempt, Attempts, Statuses
    <3>2. LogsOK'  BY <1>l, <2>9 DEF WriteLatest
    <3>3. LocksOK'  BY <1>k, <2>9 DEF WriteLatest
    <3> QED  BY <2>9, <3>1, <3>2, <3>3, GotoTyped DEF WriteLatest
  <2>10. CASE WriteAcceptedEvents(w)
    <3>1. FilesOK'  BY <1>f, <2>10 DEF WriteAcceptedEvents
    <3>2. LogsOK'  BY <2>10 DEF WriteAcceptedEvents, LogsOK, AtAttempt, Attempts
    <3>3. LocksOK'  BY <1>k, <2>10 DEF WriteAcceptedEvents
    <3> QED  BY <2>10, <3>1, <3>2, <3>3, GotoTyped DEF WriteAcceptedEvents
  <2>11. CASE WritePublished(w)
    <3>1. FilesOK'
      BY <2>11 DEF WritePublished, FilesOK, LocalsOK, AtAttempt, Attempts, Statuses
    <3>2. LogsOK'  BY <1>l, <2>11 DEF WritePublished
    <3>3. LocksOK'  BY <1>k, <2>11 DEF WritePublished
    <3> QED  BY <2>11, <3>1, <3>2, <3>3, GotoTyped DEF WritePublished
  <2>12. CASE PublicationReturns(w)
    <3>1. FilesOK'  BY <1>f, <2>12 DEF PublicationReturns
    <3>2. LogsOK'  BY <1>l, <2>12 DEF PublicationReturns
    <3>3. LocksOK'  BY ReleaseTyped, <2>12 DEF PublicationReturns
    <3> QED  BY <2>12, <3>1, <3>2, <3>3, LeaveTyped DEF PublicationReturns
  <2>13. CASE ScopeExitRaises(w)
    <3>1. FilesOK'  BY <1>f, <2>13 DEF ScopeExitRaises
    <3>2. LogsOK'  BY <1>l, <2>13 DEF ScopeExitRaises
    <3>3. LocksOK'  BY ReleaseTyped, <2>13 DEF ScopeExitRaises
    <3> QED  BY <2>13, <3>1, <3>2, <3>3, RaiseTyped DEF ScopeExitRaises
  <2>14. CASE PublicationRaises(w)
    <3>1. FilesOK'  BY <1>f, <2>14 DEF PublicationRaises
    <3>2. LogsOK'  BY <1>l, <2>14 DEF PublicationRaises
    <3>3. LocksOK'  BY <1>k, <2>14 DEF PublicationRaises
    <3> QED  BY <2>14, <3>1, <3>2, <3>3, GotoTyped DEF PublicationRaises
  <2>15. CASE RollbackLatest(w)
    <3>1. FilesOK'
      BY <2>15 DEF RollbackLatest, FilesOK, LocalsOK, AtAttempt, Attempts, Statuses
    <3>2. LogsOK'  BY <1>l, <2>15 DEF RollbackLatest
    <3>3. LocksOK'  BY <1>k, <2>15 DEF RollbackLatest
    <3> QED  BY <2>15, <3>1, <3>2, <3>3, GotoTyped DEF RollbackLatest
  <2>16. CASE RollbackIndex(w)
    <3>1. FilesOK'
      BY <2>16 DEF RollbackIndex, FilesOK, LocalsOK, AtAttempt, Attempts, Statuses
    <3>2. LogsOK'  BY <1>l, <2>16 DEF RollbackIndex
    <3>3. LocksOK'  BY ReleaseTyped, <2>16 DEF RollbackIndex
    <3> QED  BY <2>16, <3>1, <3>2, <3>3, RaiseTyped DEF RollbackIndex
  <2>17. CASE RollbackWriteRaises(w)
    <3>1. FilesOK'
      BY <2>17 DEF RollbackWriteRaises, FilesOK, LocalsOK, AtAttempt, Attempts, Statuses
    <3>2. LogsOK'  BY <1>l, <2>17 DEF RollbackWriteRaises
    <3>3. LocksOK'  BY <1>k, ReleaseTyped, <2>17 DEF RollbackWriteRaises
    <3> QED  BY <2>17, <3>1, <3>2, <3>3, GotoTyped, RaiseTyped DEF RollbackWriteRaises
  <2> QED  BY <1>6, <2>1, <2>2, <2>3, <2>4, <2>5, <2>6, <2>7, <2>8, <2>9,
          <2>10, <2>11, <2>12, <2>13, <2>14, <2>15, <2>16, <2>17 DEF Publish
<1>7. ASSUME NEW w \in Workers, RecordFailure(w) PROVE Typed'
  <2>1. CASE AcquireFailureRecord(w)
    <3>1. FilesOK'  BY <1>f, <2>1 DEF AcquireFailureRecord
    <3>2. LogsOK'  BY <1>l, <2>1 DEF AcquireFailureRecord
    <3>3. LocksOK'  BY <2>1 DEF AcquireFailureRecord, LocksOK
    <3> QED  BY <2>1, <3>1, <3>2, <3>3, GotoTyped DEF AcquireFailureRecord
  <2>2. CASE FailureRecordSkipped(w)
    <3>1. FilesOK'  BY <1>f, <2>2 DEF FailureRecordSkipped
    <3>2. LogsOK'  BY <1>l, <2>2 DEF FailureRecordSkipped
    <3>3. LocksOK'  BY <1>k, <2>2 DEF FailureRecordSkipped
    <3> QED  BY <2>2, <3>1, <3>2, <3>3, LeaveTyped DEF FailureRecordSkipped
  <2>3. CASE WriteFailedStatus(w)
    <3>1. FilesOK'
      BY <2>3 DEF WriteFailedStatus, FilesOK, LocalsOK, AtAttempt, Attempts, Statuses
    <3>2. LogsOK'  BY <1>l, <2>3 DEF WriteFailedStatus
    <3>3. LocksOK'  BY <1>k, <2>3 DEF WriteFailedStatus
    <3> QED  BY <2>3, <3>1, <3>2, <3>3, GotoTyped DEF WriteFailedStatus
  <2>4. CASE WriteFailedEvent(w)
    <3>1. FilesOK'  BY <1>f, <2>4 DEF WriteFailedEvent
    <3>2. LogsOK'  BY <2>4 DEF WriteFailedEvent, LogsOK, AtAttempt, Attempts
    <3>3. LocksOK'  BY <1>k, <2>4 DEF WriteFailedEvent
    <3> QED  BY <2>4, <3>1, <3>2, <3>3, GotoTyped DEF WriteFailedEvent
  <2>5. CASE FinalizeFailure(w)
    <3>1. FilesOK'  BY <1>f, <2>5 DEF FinalizeFailure
    <3>2. LogsOK'  BY <2>5 DEF FinalizeFailure, LogsOK, AtAttempt, Attempts
    <3>3. LocksOK'  BY ReleaseTyped, <2>5 DEF FinalizeFailure
    <3> QED  BY <2>5, <3>1, <3>2, <3>3, LeaveTyped DEF FinalizeFailure
  <2>6. CASE FailureRecordRaises(w)
    <3>1. FilesOK'  BY <1>f, <2>6 DEF FailureRecordRaises
    <3>2. LogsOK'  BY <1>l, <2>6 DEF FailureRecordRaises
    <3>3. LocksOK'  BY ReleaseTyped, <2>6 DEF FailureRecordRaises
    <3> QED  BY <2>6, <3>1, <3>2, <3>3, LeaveTyped DEF FailureRecordRaises
  <2> QED  BY <1>7, <2>1, <2>2, <2>3, <2>4, <2>5, <2>6 DEF RecordFailure
<1>8. ASSUME NEW w \in Workers, Crash(w) PROVE Typed'
  <2>1. FilesOK'  BY <1>8 DEF Crash, FilesOK
  <2>2. LogsOK'  BY <1>l, <1>8 DEF Crash
  <2>3. LocksOK'  BY ReleaseTyped, <1>8 DEF Crash
  <2> QED  BY <1>8, <2>1, <2>2, <2>3, LeaveTyped DEF Crash
<1> QED
  BY <1>1, <1>2, <1>3, <1>4, <1>5, <1>6, <1>7, <1>8 DEF Next

(* Type correctness: every reachable state of the attempt protocol is well *)
(* typed, for any set of processes and units and any bound on attempts.    *)
THEOREM TypeCorrect == Spec => []TypeOK
<1>1. Typed => TypeOK
  BY DEF Typed
<1> QED  BY InitTyped, NextTyped, <1>1, PTL DEF Spec

-----------------------------------------------------------------------------
(* Who may write what: claims and locks make a step the only writer of the *)
(* files it writes.                                                        *)

PrepareSteps == {"prepare", "started"}
ClaimSteps == {"unit", "finalize", "receipts", "pubLock", "pubFailLock"} \cup PublishSteps

(* An attempt under preparation is unclaimed, and nobody else works on it. *)
SolePreparer ==
    \A w \in Workers : pc[w] \in PrepareSteps =>
        /\ at[w] \notin claims
        /\ \A v \in Workers \ {w} : pc[v] # "idle" => at[v] # at[w]

(* Only attempts with a directory are worked on, claimed, sealed, reused.  *)
ClaimsMade ==
    /\ \A w \in Workers : at[w] <= made
    /\ claims \subseteq 1..made
    /\ reused \subseteq claims
    /\ handoff \subseteq claims
    /\ \A w \in Workers : pc[w] \in ClaimSteps => at[w] \in claims

(* The locks are held wherever the code writes under them.                 *)
LocksHeld ==
    /\ \A w \in Workers :
          /\ pc[w] \in PublishSteps \cup {"pubFailLock"} => pubLock = w
          /\ pc[w] \in PublishSteps \cup FailSteps => failLock[at[w]] = w
    /\ pubLock \in Workers => pc[pubLock] \in PublishSteps \cup {"pubFailLock"}

Owned == SolePreparer /\ ClaimsMade /\ LocksHeld

(* Initially nobody owns anything.                                         *)
LEMMA InitOwned == Init => Owned
  BY WorkersAssumption, MaxAttemptAssumption
     DEF Init, Owned, SolePreparer, ClaimsMade, LocksHeld, PrepareSteps, ClaimSteps, NoAttempt,
         PublishSteps, PointerSteps, RollbackSteps, FailSteps

(* Every step keeps ownership: a lock is only taken when free, released by *)
(* its holder alone, and an attempt is claimed once.                       *)
LEMMA NextOwned ==
    ASSUME Typed, Owned, [Next]_vars
    PROVE  Owned'
<1>t. /\ pc \in [Workers -> Steps] /\ at \in [Workers -> 0..MaxAttempt]
     /\ failLock \in [Attempts -> Workers \cup {NoWorker}] /\ made \in Nat
     /\ pubLock \in Workers \cup {NoWorker} /\ claims \subseteq Attempts
     /\ AtAttempt
  BY MaxAttemptAssumption DEF Typed, TypeOK
<1> USE <1>t, WorkersAssumption, MaxAttemptAssumption
    DEF AtAttempt, Attempts, NoAttempt, Goto, Raise, files, logs, locks, saved, history,
        PublishSteps, PointerSteps, RollbackSteps, FailSteps,
        Owned, SolePreparer, PrepareSteps, ClaimsMade, ClaimSteps, LocksHeld
<1>1. CASE UNCHANGED vars
  BY <1>1 DEF vars
<1>2. CASE ReuseAttempt
  BY <1>2 DEF ReuseAttempt, Reusable, Committed
<1>3. ASSUME NEW w \in Workers, Prepare(w) PROVE Owned'
  <2>1. CASE BeginAttempt(w)
    BY <2>1 DEF BeginAttempt, Enter
  <2>2. CASE StartAttempt(w)
    BY <2>2 DEF StartAttempt
  <2>3. CASE ReturnClaim(w)
    <3>1. ASSUME NEW v \in Workers, pc'[v] \in PrepareSteps
          PROVE  /\ at'[v] \notin claims'
                 /\ \A x \in Workers \ {v} : pc'[x] # "idle" => at'[x] # at'[v]
      <4>1. v # w /\ pc[v] = pc'[v] /\ at'[v] = at[v]
        BY <2>3, <3>1 DEF ReturnClaim, Leave
      <4>2. at[w] # at[v]
        BY <2>3, <3>1, <4>1 DEF ReturnClaim
      <4> QED  BY <2>3, <3>1, <4>1, <4>2 DEF ReturnClaim, Leave
    <3>2. ClaimsMade'
      <4>1. at[w] \in 1..made
        BY <2>3 DEF ReturnClaim
      <4>2. \A v \in Workers : at'[v] <= made' /\ (pc'[v] \in ClaimSteps => at'[v] \in claims')
        BY <2>3 DEF ReturnClaim, Leave
      <4>3. claims' = claims \cup {at[w]} /\ UNCHANGED <<made, reused, handoff>>
        BY <2>3 DEF ReturnClaim
      <4> QED  BY <4>1, <4>2, <4>3
    <3>3. LocksHeld'  BY <2>3 DEF ReturnClaim, Leave
    <3> QED  BY <3>1, <3>2, <3>3
  <2>4. CASE PreparationFails(w)
    BY <2>4 DEF PreparationFails
  <2> QED  BY <1>3, <2>1, <2>2, <2>3, <2>4 DEF Prepare
<1>4. ASSUME NEW w \in Workers, Execute(w) PROVE Owned'
  <2>1. ASSUME NEW a \in Attempts, NEW u \in Units, BeginUnit(w, a, u) PROVE Owned'
    BY <2>1 DEF BeginUnit, Enter
  <2>2. CASE UnitSucceeds(w)
    BY <2>2 DEF UnitSucceeds
  <2>3. CASE UnitFails(w)
    BY <2>3 DEF UnitFails
  <2>4. ASSUME NEW a \in Attempts, DriverFails(w, a) PROVE Owned'
    BY <2>4 DEF DriverFails, Enter
  <2>5. ASSUME NEW a \in Attempts, ReusedUnitRaises(w, a) PROVE Owned'
    BY <2>5 DEF ReusedUnitRaises, Enter
  <2>6. CASE UnitReturns(w)
    BY <2>6 DEF UnitReturns, Leave
  <2> QED  BY <1>4, <2>1, <2>2, <2>3, <2>4, <2>5, <2>6 DEF Execute
<1>5. ASSUME NEW w \in Workers, Finalize(w) PROVE Owned'
  <2>1. ASSUME NEW a \in Attempts, BeginFinalize(w, a) PROVE Owned'
    BY <2>1 DEF BeginFinalize, Enter
  <2>2. CASE AlreadyPublished(w)
    BY <2>2 DEF AlreadyPublished, Leave
  <2>3. CASE NotYetPublished(w)
    BY <2>3 DEF NotYetPublished
  <2>4. CASE CheckReceipts(w)
    BY <2>4 DEF CheckReceipts
  <2>5. CASE FinalizeRefused(w)
    BY <2>5 DEF FinalizeRefused
  <2> QED  BY <1>5, <2>1, <2>2, <2>3, <2>4, <2>5 DEF Finalize
<1>6. ASSUME NEW w \in Workers, Publish(w) PROVE Owned'
  <2>1. CASE AcquirePublication(w)
    BY <2>1 DEF AcquirePublication
  <2>2. CASE AcquireFailure(w)
    BY <2>2 DEF AcquireFailure
  <2>3. CASE FailedMeanwhile(w)
    BY <2>3 DEF FailedMeanwhile, Release
  <2>4. CASE PublicationLockTimeout(w)
    BY <2>4 DEF PublicationLockTimeout, Release
  <2>5. CASE LinkHandoff(w)
    BY <2>5 DEF LinkHandoff
  <2>6. CASE PublicationRefused(w)
    BY <2>6 DEF PublicationRefused, Release
  <2>7. CASE WriteStatus(w)
    BY <2>7 DEF WriteStatus
  <2>8. CASE WriteIndex(w)
    BY <2>8 DEF WriteIndex
  <2>9. CASE WriteLatest(w)
    BY <2>9 DEF WriteLatest
  <2>10. CASE WriteAcceptedEvents(w)
    BY <2>10 DEF WriteAcceptedEvents
  <2>11. CASE WritePublished(w)
    BY <2>11 DEF WritePublished
  <2>12. CASE PublicationReturns(w)
    BY <2>12 DEF PublicationReturns, Leave, Release
  <2>13. CASE ScopeExitRaises(w)
    BY <2>13 DEF ScopeExitRaises, Release
  <2>14. CASE PublicationRaises(w)
    BY <2>14 DEF PublicationRaises
  <2>15. CASE RollbackLatest(w)
    BY <2>15 DEF RollbackLatest
  <2>16. CASE RollbackIndex(w)
    BY <2>16 DEF RollbackIndex, Release
  <2>17. CASE RollbackWriteRaises(w)
    <3>1. CASE pc[w] = "rollbackLatest"
      BY <2>17, <3>1 DEF RollbackWriteRaises
    <3>2. CASE pc[w] = "rollbackIndex"
      <4>1. Goto(w, "failLock") /\ Release(w)
            /\ UNCHANGED <<made, claims, reused, handoff, at>>
        BY <2>17, <3>2 DEF RollbackWriteRaises
      <4> QED  BY <3>2, <4>1 DEF Release
    <3> QED  BY <2>17, <3>1, <3>2 DEF RollbackWriteRaises
  <2> QED  BY <1>6, <2>1, <2>2, <2>3, <2>4, <2>5, <2>6, <2>7, <2>8, <2>9,
          <2>10, <2>11, <2>12, <2>13, <2>14, <2>15, <2>16, <2>17 DEF Publish
<1>7. ASSUME NEW w \in Workers, RecordFailure(w) PROVE Owned'
  <2>1. CASE AcquireFailureRecord(w)
    BY <2>1 DEF AcquireFailureRecord
  <2>2. CASE FailureRecordSkipped(w)
    BY <2>2 DEF FailureRecordSkipped, Leave
  <2>3. CASE WriteFailedStatus(w)
    BY <2>3 DEF WriteFailedStatus
  <2>4. CASE WriteFailedEvent(w)
    BY <2>4 DEF WriteFailedEvent
  <2>5. CASE FinalizeFailure(w)
    BY <2>5 DEF FinalizeFailure, Leave, Release
  <2>6. CASE FailureRecordRaises(w)
    BY <2>6 DEF FailureRecordRaises, Leave, Release
  <2> QED  BY <1>7, <2>1, <2>2, <2>3, <2>4, <2>5, <2>6 DEF RecordFailure
<1>8. ASSUME NEW w \in Workers, Crash(w) PROVE Owned'
  BY <1>8 DEF Crash, Leave, Release
<1> QED
  BY <1>1, <1>2, <1>3, <1>4, <1>5, <1>6, <1>7, <1>8 DEF Next

-----------------------------------------------------------------------------
(* What a process knows of the files it owns, by the step it is at.        *)

(* A publisher that passed the second status read sees no failure, one     *)
(* past the status write sees its own SUCCEEDED; each later step has the   *)
(* writes before it behind it.                                             *)
PublisherSees ==
    \A w \in Workers :
        /\ pc[w] \in {"outcomes", "status"} => status[at[w]] # "FAILED"
        /\ pc[w] \in {"index", "latest", "events", "marker", "exit"} =>
              status[at[w]] = "SUCCEEDED"
        /\ pc[w] \in PointerSteps \cup {"exit"} => at[w] \in handoff
        /\ pc[w] \in {"marker", "exit"} => at[w] \in accepted

RecorderSees ==
    \A w \in Workers :
        /\ pc[w] \in {"failEvent", "failMark"} => status[at[w]] = "FAILED"
        /\ pc[w] = "failMark" => jobFailed[at[w]] = 1

(* Nothing is written for an attempt before its RUNNING status.            *)
PreparerSees ==
    /\ \A w \in Workers : pc[w] = "prepare" => status[at[w]] = "absent"
    /\ \A a \in Attempts : a > made => status[a] = "absent"

Decided == PublisherSees /\ RecorderSees /\ PreparerSees /\ MarkerIsLast /\ FailureRecordedOnce

(* No attempt exists initially, so nothing is decided.                     *)
LEMMA InitDecided == Init => Decided
  BY DEF Init, Decided, PublisherSees, RecorderSees, PreparerSees, MarkerIsLast,
         FailureRecordedOnce, PointerSteps, Attempts

(* Every step keeps what the others see: it writes only files it owns.     *)
LEMMA NextDecided ==
    ASSUME Typed, Owned, Decided, [Next]_vars
    PROVE  Decided'
<1>t. /\ pc \in [Workers -> Steps] /\ at \in [Workers -> 0..MaxAttempt]
     /\ status \in [Attempts -> Statuses] /\ published \in [Attempts -> Statuses]
     /\ jobFailed \in [Attempts -> Nat] /\ made \in Nat /\ AtAttempt
  BY MaxAttemptAssumption DEF Typed, TypeOK
<1>o. SolePreparer /\ LocksHeld /\ \A w \in Workers : at[w] <= made
  BY DEF Owned, ClaimsMade
<1> USE <1>t, <1>o, MaxAttemptAssumption
    DEF AtAttempt, Attempts, NoAttempt, Goto, Raise, files, logs, locks, saved, history,
        PublishSteps, PointerSteps, RollbackSteps, FailSteps, PrepareSteps, SolePreparer, LocksHeld,
        Decided, PublisherSees, RecorderSees, PreparerSees, MarkerIsLast, FailureRecordedOnce
<1>1. CASE UNCHANGED vars
  BY <1>1 DEF vars
<1>2. CASE ReuseAttempt
  BY <1>2 DEF ReuseAttempt, Reusable, Committed
<1>3. ASSUME NEW w \in Workers, Prepare(w) PROVE Decided'
  <2>1. CASE BeginAttempt(w)
    BY <2>1 DEF BeginAttempt, Enter
  <2>2. CASE StartAttempt(w)
    BY <2>2 DEF StartAttempt
  <2>3. CASE ReturnClaim(w)
    BY <2>3 DEF ReturnClaim, Leave
  <2>4. CASE PreparationFails(w)
    BY <2>4 DEF PreparationFails
  <2> QED  BY <1>3, <2>1, <2>2, <2>3, <2>4 DEF Prepare
<1>4. ASSUME NEW w \in Workers, Execute(w) PROVE Decided'
  <2>1. ASSUME NEW a \in Attempts, NEW u \in Units, BeginUnit(w, a, u) PROVE Decided'
    BY <2>1 DEF BeginUnit, Enter
  <2>2. CASE UnitSucceeds(w)
    BY <2>2 DEF UnitSucceeds
  <2>3. CASE UnitFails(w)
    BY <2>3 DEF UnitFails
  <2>4. ASSUME NEW a \in Attempts, DriverFails(w, a) PROVE Decided'
    BY <2>4 DEF DriverFails, Enter
  <2>5. ASSUME NEW a \in Attempts, ReusedUnitRaises(w, a) PROVE Decided'
    BY <2>5 DEF ReusedUnitRaises, Enter
  <2>6. CASE UnitReturns(w)
    BY <2>6 DEF UnitReturns, Leave
  <2> QED  BY <1>4, <2>1, <2>2, <2>3, <2>4, <2>5, <2>6 DEF Execute
<1>5. ASSUME NEW w \in Workers, Finalize(w) PROVE Decided'
  <2>1. ASSUME NEW a \in Attempts, BeginFinalize(w, a) PROVE Decided'
    BY <2>1 DEF BeginFinalize, Enter
  <2>2. CASE AlreadyPublished(w)
    BY <2>2 DEF AlreadyPublished, Leave
  <2>3. CASE NotYetPublished(w)
    BY <2>3 DEF NotYetPublished
  <2>4. CASE CheckReceipts(w)
    BY <2>4 DEF CheckReceipts
  <2>5. CASE FinalizeRefused(w)
    BY <2>5 DEF FinalizeRefused
  <2> QED  BY <1>5, <2>1, <2>2, <2>3, <2>4, <2>5 DEF Finalize
<1>6. ASSUME NEW w \in Workers, Publish(w) PROVE Decided'
  <2>1. CASE AcquirePublication(w)
    BY <2>1 DEF AcquirePublication
  <2>2. CASE AcquireFailure(w)
    BY <2>2 DEF AcquireFailure
  <2>3. CASE FailedMeanwhile(w)
    BY <2>3 DEF FailedMeanwhile, Release
  <2>4. CASE PublicationLockTimeout(w)
    BY <2>4 DEF PublicationLockTimeout, Release
  <2>5. CASE LinkHandoff(w)
    BY <2>5 DEF LinkHandoff
  <2>6. CASE PublicationRefused(w)
    BY <2>6 DEF PublicationRefused, Release
  <2>7. CASE WriteStatus(w)
    BY <2>7 DEF WriteStatus
  <2>8. CASE WriteIndex(w)
    BY <2>8 DEF WriteIndex
  <2>9. CASE WriteLatest(w)
    BY <2>9 DEF WriteLatest
  <2>10. CASE WriteAcceptedEvents(w)
    BY <2>10 DEF WriteAcceptedEvents
  <2>11. CASE WritePublished(w)
    BY <2>11 DEF WritePublished
  <2>12. CASE PublicationReturns(w)
    BY <2>12 DEF PublicationReturns, Leave, Release
  <2>13. CASE ScopeExitRaises(w)
    BY <2>13 DEF ScopeExitRaises, Release
  <2>14. CASE PublicationRaises(w)
    BY <2>14 DEF PublicationRaises
  <2>15. CASE RollbackLatest(w)
    BY <2>15 DEF RollbackLatest
  <2>16. CASE RollbackIndex(w)
    BY <2>16 DEF RollbackIndex, Release
  <2>17. CASE RollbackWriteRaises(w)
    BY <2>17 DEF RollbackWriteRaises, Release
  <2> QED  BY <1>6, <2>1, <2>2, <2>3, <2>4, <2>5, <2>6, <2>7, <2>8, <2>9,
          <2>10, <2>11, <2>12, <2>13, <2>14, <2>15, <2>16, <2>17 DEF Publish
<1>7. ASSUME NEW w \in Workers, RecordFailure(w) PROVE Decided'
  <2>1. CASE AcquireFailureRecord(w)
    BY <2>1 DEF AcquireFailureRecord
  <2>2. CASE FailureRecordSkipped(w)
    BY <2>2 DEF FailureRecordSkipped, Leave
  <2>3. CASE WriteFailedStatus(w)
    <3>1. \A v \in Workers \ {w} : pc[v] \in PublishSteps \cup {"prepare"} => at[v] # at[w]
      BY <2>3 DEF WriteFailedStatus
    <3>2. /\ status' = [status EXCEPT ![at[w]] = "FAILED"] /\ pc' = [pc EXCEPT ![w] = "failEvent"]
          /\ pc[w] = "failStatus" /\ at[w] \in Attempts
          /\ UNCHANGED <<made, handoff, published, accepted, jobFailed, finalized, at>>
      BY <2>3 DEF WriteFailedStatus
    <3> HIDE DEF LocksHeld, SolePreparer
    <3>3. PublisherSees'  BY <3>1, <3>2
    <3>4. RecorderSees'  BY <3>2
    <3>5. PreparerSees'  BY <3>1, <3>2
    <3>6. MarkerIsLast'  BY <3>2
    <3>7. FailureRecordedOnce'  BY <3>2
    <3> QED  BY <3>3, <3>4, <3>5, <3>6, <3>7
  <2>4. CASE WriteFailedEvent(w)
    BY <2>4 DEF WriteFailedEvent
  <2>5. CASE FinalizeFailure(w)
    BY <2>5 DEF FinalizeFailure, Leave, Release
  <2>6. CASE FailureRecordRaises(w)
    BY <2>6 DEF FailureRecordRaises, Leave, Release
  <2> QED  BY <1>7, <2>1, <2>2, <2>3, <2>4, <2>5, <2>6 DEF RecordFailure
<1>8. ASSUME NEW w \in Workers, Crash(w) PROVE Decided'
  BY <1>8 DEF Crash, Leave, Release
<1> QED
  BY <1>1, <1>2, <1>3, <1>4, <1>5, <1>6, <1>7, <1>8 DEF Next

-----------------------------------------------------------------------------
(* Where the two pointers stand while a publication moves them.            *)

InSync == latest = lastCommit /\ (HasIndex => index = lastCommit)

(* A publisher that moved no pointer yet, or all of them, has them in      *)
(* sync; between, it holds the values that put them back.                  *)
PublisherPoints ==
    \A w \in Workers :
        /\ pc[w] \in {"pubFailLock", "outcomes"} /\ ~torn => InSync
        /\ pc[w] \in PointerSteps \cup RollbackSteps /\ ~torn =>
              /\ prevLatest[w] = lastCommit
              /\ HasIndex => prevIndex[w] = lastCommit
        /\ pc[w] = "rollbackIndex" /\ ~torn => latest = lastCommit
        /\ pc[w] \in {"latest", "events", "marker", "exit"} /\ HasIndex => index = at[w]
        /\ pc[w] \in {"events", "marker", "exit"} => latest = at[w]
        /\ pc[w] = "exit" => lastCommit = at[w]

Pointed == PublisherPoints /\ PointersFollowCommit

(* Initially there is no pointer and no commit.                            *)
LEMMA InitPointed == Init => Pointed
  BY DEF Init, Pointed, PublisherPoints, PointersFollowCommit, PointerSteps, RollbackSteps

(* Every step keeps the pointers where its lock holder expects them.       *)
LEMMA NextPointed ==
    ASSUME Typed, Owned, Pointed, [Next]_vars
    PROVE  Pointed'
<1>t. /\ pc \in [Workers -> Steps] /\ at \in [Workers -> 0..MaxAttempt]
     /\ prevLatest \in [Workers -> 0..MaxAttempt] /\ prevIndex \in [Workers -> 0..MaxAttempt]
     /\ torn \in BOOLEAN /\ HasIndex \in BOOLEAN /\ pubLock \in Workers \cup {NoWorker}
  BY HasIndexAssumption DEF Typed, TypeOK
<1>o. LocksHeld
  BY DEF Owned
<1> USE <1>t, <1>o, WorkersAssumption
    DEF NoAttempt, Goto, Raise, files, logs, locks, saved, history,
        PublishSteps, PointerSteps, RollbackSteps, FailSteps, LocksHeld,
        Pointed, PublisherPoints, PointersFollowCommit, InSync
<1>1. CASE UNCHANGED vars
  BY <1>1 DEF vars
<1>2. CASE ReuseAttempt
  BY <1>2 DEF ReuseAttempt, files
<1>3. ASSUME NEW w \in Workers, Prepare(w) PROVE Pointed'
  <2>1. CASE BeginAttempt(w)
    BY <2>1 DEF BeginAttempt, Enter
  <2>2. CASE StartAttempt(w)
    BY <2>2 DEF StartAttempt
  <2>3. CASE ReturnClaim(w)
    BY <2>3 DEF ReturnClaim, Leave
  <2>4. CASE PreparationFails(w)
    BY <2>4 DEF PreparationFails
  <2> QED  BY <1>3, <2>1, <2>2, <2>3, <2>4 DEF Prepare
<1>4. ASSUME NEW w \in Workers, Execute(w) PROVE Pointed'
  <2>1. ASSUME NEW a \in Attempts, NEW u \in Units, BeginUnit(w, a, u) PROVE Pointed'
    BY <2>1 DEF BeginUnit, Enter
  <2>2. CASE UnitSucceeds(w)
    BY <2>2 DEF UnitSucceeds
  <2>3. CASE UnitFails(w)
    BY <2>3 DEF UnitFails
  <2>4. ASSUME NEW a \in Attempts, DriverFails(w, a) PROVE Pointed'
    BY <2>4 DEF DriverFails, Enter
  <2>5. ASSUME NEW a \in Attempts, ReusedUnitRaises(w, a) PROVE Pointed'
    BY <2>5 DEF ReusedUnitRaises, Enter
  <2>6. CASE UnitReturns(w)
    BY <2>6 DEF UnitReturns, Leave
  <2> QED  BY <1>4, <2>1, <2>2, <2>3, <2>4, <2>5, <2>6 DEF Execute
<1>5. ASSUME NEW w \in Workers, Finalize(w) PROVE Pointed'
  <2>1. ASSUME NEW a \in Attempts, BeginFinalize(w, a) PROVE Pointed'
    BY <2>1 DEF BeginFinalize, Enter
  <2>2. CASE AlreadyPublished(w)
    BY <2>2 DEF AlreadyPublished, Leave
  <2>3. CASE NotYetPublished(w)
    BY <2>3 DEF NotYetPublished
  <2>4. CASE CheckReceipts(w)
    BY <2>4 DEF CheckReceipts
  <2>5. CASE FinalizeRefused(w)
    BY <2>5 DEF FinalizeRefused
  <2> QED  BY <1>5, <2>1, <2>2, <2>3, <2>4, <2>5 DEF Finalize
<1>6. ASSUME NEW w \in Workers, Publish(w) PROVE Pointed'
  <2>1. CASE AcquirePublication(w)
    BY <2>1 DEF AcquirePublication
  <2>2. CASE AcquireFailure(w)
    BY <2>2 DEF AcquireFailure
  <2>3. CASE FailedMeanwhile(w)
    BY <2>3 DEF FailedMeanwhile, Release
  <2>4. CASE PublicationLockTimeout(w)
    BY <2>4 DEF PublicationLockTimeout, Release
  <2>5. CASE LinkHandoff(w)
    BY <2>5 DEF LinkHandoff
  <2>6. CASE PublicationRefused(w)
    BY <2>6 DEF PublicationRefused, Release
  <2>7. CASE WriteStatus(w)
    BY <2>7 DEF WriteStatus
  <2>8. CASE WriteIndex(w)
    BY <2>8 DEF WriteIndex
  <2>9. CASE WriteLatest(w)
    BY <2>9 DEF WriteLatest
  <2>10. CASE WriteAcceptedEvents(w)
    BY <2>10 DEF WriteAcceptedEvents
  <2>11. CASE WritePublished(w)
    BY <2>11 DEF WritePublished
  <2>12. CASE PublicationReturns(w)
    BY <2>12 DEF PublicationReturns, Leave, Release
  <2>13. CASE ScopeExitRaises(w)
    BY <2>13 DEF ScopeExitRaises, Release
  <2>14. CASE PublicationRaises(w)
    BY <2>14 DEF PublicationRaises
  <2>15. CASE RollbackLatest(w)
    BY <2>15 DEF RollbackLatest
  <2>16. CASE RollbackIndex(w)
    BY <2>16 DEF RollbackIndex, Release
  <2>17. CASE RollbackWriteRaises(w)
    <3>1. CASE pc[w] = "rollbackLatest"
      BY <2>17, <3>1 DEF RollbackWriteRaises
    <3>2. CASE pc[w] = "rollbackIndex"
      <4>1. Raise(w) /\ Release(w)
            /\ UNCHANGED <<latest, index, lastCommit, at>> /\ torn'
        BY <2>17, <3>2 DEF RollbackWriteRaises
      <4> QED  BY <3>2, <4>1 DEF Release
    <3> QED  BY <2>17, <3>1, <3>2 DEF RollbackWriteRaises
  <2> QED  BY <1>6, <2>1, <2>2, <2>3, <2>4, <2>5, <2>6, <2>7, <2>8, <2>9,
          <2>10, <2>11, <2>12, <2>13, <2>14, <2>15, <2>16, <2>17 DEF Publish
<1>7. ASSUME NEW w \in Workers, RecordFailure(w) PROVE Pointed'
  <2>1. CASE AcquireFailureRecord(w)
    BY <2>1 DEF AcquireFailureRecord
  <2>2. CASE FailureRecordSkipped(w)
    BY <2>2 DEF FailureRecordSkipped, Leave
  <2>3. CASE WriteFailedStatus(w)
    BY <2>3 DEF WriteFailedStatus
  <2>4. CASE WriteFailedEvent(w)
    BY <2>4 DEF WriteFailedEvent
  <2>5. CASE FinalizeFailure(w)
    BY <2>5 DEF FinalizeFailure, Leave, Release
  <2>6. CASE FailureRecordRaises(w)
    BY <2>6 DEF FailureRecordRaises, Leave, Release
  <2> QED  BY <1>7, <2>1, <2>2, <2>3, <2>4, <2>5, <2>6 DEF RecordFailure
<1>8. ASSUME NEW w \in Workers, Crash(w) PROVE Pointed'
  BY <1>8 DEF Crash, Leave, Release
<1> QED
  BY <1>1, <1>2, <1>3, <1>4, <1>5, <1>6, <1>7, <1>8 DEF Next

(* The inductive invariant of the attempt protocol.                        *)
Inv == Typed /\ Owned /\ Decided /\ Pointed

(* It holds in every reachable state.                                      *)
LEMMA Invariance == Spec => []Inv
<1>1. Init => Inv
  BY InitTyped, InitOwned, InitDecided, InitPointed DEF Inv
<1>2. Inv /\ [Next]_vars => Inv'
  BY NextTyped, NextOwned, NextDecided, NextPointed DEF Inv
<1> QED  BY <1>1, <1>2, PTL DEF Spec

(* published.json is the last write of a publication and never binds any   *)
(* other status than the completion status of _publish_attempt_scoped.     *)
THEOREM MarkerIsLastCorrect == Spec => []MarkerIsLast
<1>1. Inv => MarkerIsLast
  BY DEF Inv, Decided
<1> QED  BY <1>1, Invariance, PTL

(* _write_failed_attempt logs one JOB_FAILED per attempt, whoever calls it *)
(* and however often it is interrupted.                                    *)
THEOREM FailureRecordedOnceCorrect == Spec => []FailureRecordedOnce
<1>1. Inv => FailureRecordedOnce
  BY DEF Inv, Decided
<1> QED  BY <1>1, Invariance, PTL

(* No step of any process turns a FAILED status.json into anything else:   *)
(* StartAttempt writes where nothing was, a publisher holds failure.lock   *)
(* since it last saw the status not FAILED.                                *)
THEOREM FailedIsFinalCorrect == Spec => FailedIsFinal
<1>1. ASSUME Inv, [Next]_vars, NEW a \in Attempts, status[a] = "FAILED"
      PROVE  status'[a] = "FAILED"
  <2> status \in [Attempts -> Statuses]
    BY <1>1 DEF Inv, Typed, TypeOK
  <2>1. CASE \E w \in Workers : StartAttempt(w) \/ WriteStatus(w) \/ WriteFailedStatus(w)
    BY <1>1, <2>1 DEF StartAttempt, WriteStatus, WriteFailedStatus, Inv, Decided, PublisherSees,
                      PreparerSees
  <2>2. CASE UNCHANGED status
    BY <1>1, <2>2
  <2>3. \/ \E w \in Workers : StartAttempt(w) \/ WriteStatus(w) \/ WriteFailedStatus(w)
        \/ UNCHANGED status
    <3> USE DEF files
    <3>1. ASSUME NEW w \in Workers, Prepare(w) PROVE StartAttempt(w) \/ UNCHANGED status
      BY <3>1 DEF Prepare, BeginAttempt, ReturnClaim, PreparationFails
    <3>2. ASSUME NEW w \in Workers, Execute(w) PROVE UNCHANGED status
      BY <3>2 DEF Execute, BeginUnit, UnitSucceeds, UnitReturns, UnitFails, DriverFails,
                  ReusedUnitRaises
    <3>3. ASSUME NEW w \in Workers, Finalize(w) PROVE UNCHANGED status
      BY <3>3 DEF Finalize, BeginFinalize, AlreadyPublished, NotYetPublished, CheckReceipts,
                  FinalizeRefused
    <3>4. ASSUME NEW w \in Workers, Publish(w) PROVE WriteStatus(w) \/ UNCHANGED status
      BY <3>4 DEF Publish, AcquirePublication, AcquireFailure, FailedMeanwhile,
                  PublicationLockTimeout, LinkHandoff, PublicationRefused, WriteIndex, WriteLatest,
                  WriteAcceptedEvents, WritePublished, PublicationReturns, ScopeExitRaises,
                  PublicationRaises, RollbackLatest, RollbackIndex, RollbackWriteRaises
    <3>5. ASSUME NEW w \in Workers, RecordFailure(w) PROVE WriteFailedStatus(w) \/ UNCHANGED status
      BY <3>5 DEF RecordFailure, AcquireFailureRecord, FailureRecordSkipped, WriteFailedEvent,
                  FinalizeFailure, FailureRecordRaises
    <3>6. ASSUME NEW w \in Workers, Crash(w) PROVE UNCHANGED status
      BY <3>6 DEF Crash
    <3>7. ReuseAttempt \/ UNCHANGED vars => UNCHANGED status
      BY DEF ReuseAttempt, vars
    <3> QED  BY <1>1, <3>1, <3>2, <3>3, <3>4, <3>5, <3>6, <3>7 DEF Next
  <2> QED  BY <2>1, <2>2, <2>3
<1>2. Inv /\ [Next]_vars =>
        [\A a \in Attempts : status[a] = "FAILED" => status'[a] = "FAILED"]_vars
  BY <1>1
<1> QED  BY <1>2, Invariance, PTL DEF Spec, FailedIsFinal

(* Whenever no publication is in progress, latest.json and accepted.json   *)
(* name the attempt of the last commit, unless a process died, or a        *)
(* rollback write failed, between the pointer writes since that commit.    *)
THEOREM PointersFollowCommitCorrect == Spec => []PointersFollowCommit
<1>1. Inv => PointersFollowCommit
  BY DEF Inv, Pointed
<1> QED  BY <1>1, Invariance, PTL

-----------------------------------------------------------------------------
(* The refinement of AttemptOutcome. *)

(* Until its publisher writes the marker, a linked handoff has none.       *)
Unmarked ==
    \A w \in Workers : pc[w] \in PointerSteps => published[at[w]] = "absent"

(* Initially nobody publishes.                                             *)
LEMMA InitUnmarked == Init => Unmarked
  BY DEF Init, Unmarked, PointerSteps

(* A publisher enters its pointer steps with a handoff nobody linked, and  *)
(* keeps everybody else out with failure.lock.                             *)
LEMMA NextUnmarked ==
    ASSUME Inv, Unmarked, [Next]_vars
    PROVE  Unmarked'
<1>t. /\ pc \in [Workers -> Steps] /\ at \in [Workers -> 0..MaxAttempt]
     /\ published \in [Attempts -> Statuses] /\ AtAttempt
  BY DEF Inv, Typed, TypeOK
<1>o. LocksHeld /\ MarkerIsLast
  BY DEF Inv, Owned, Decided
<1> USE <1>t, <1>o
    DEF AtAttempt, NoAttempt, Goto, Raise, files, logs, locks, saved, history,
        PublishSteps, PointerSteps, RollbackSteps, FailSteps, LocksHeld, MarkerIsLast, Unmarked
<1>1. CASE UNCHANGED vars
  BY <1>1 DEF vars
<1>2. CASE ReuseAttempt
  BY <1>2 DEF ReuseAttempt, files
<1>3. ASSUME NEW w \in Workers, Prepare(w) PROVE Unmarked'
  <2>1. CASE BeginAttempt(w)
    BY <2>1 DEF BeginAttempt, Enter
  <2>2. CASE StartAttempt(w)
    BY <2>2 DEF StartAttempt
  <2>3. CASE ReturnClaim(w)
    BY <2>3 DEF ReturnClaim, Leave
  <2>4. CASE PreparationFails(w)
    BY <2>4 DEF PreparationFails
  <2> QED  BY <1>3, <2>1, <2>2, <2>3, <2>4 DEF Prepare
<1>4. ASSUME NEW w \in Workers, Execute(w) PROVE Unmarked'
  <2>1. ASSUME NEW a \in Attempts, NEW u \in Units, BeginUnit(w, a, u) PROVE Unmarked'
    BY <2>1 DEF BeginUnit, Enter
  <2>2. CASE UnitSucceeds(w)
    BY <2>2 DEF UnitSucceeds
  <2>3. CASE UnitFails(w)
    BY <2>3 DEF UnitFails
  <2>4. ASSUME NEW a \in Attempts, DriverFails(w, a) PROVE Unmarked'
    BY <2>4 DEF DriverFails, Enter
  <2>5. ASSUME NEW a \in Attempts, ReusedUnitRaises(w, a) PROVE Unmarked'
    BY <2>5 DEF ReusedUnitRaises, Enter
  <2>6. CASE UnitReturns(w)
    BY <2>6 DEF UnitReturns, Leave
  <2> QED  BY <1>4, <2>1, <2>2, <2>3, <2>4, <2>5, <2>6 DEF Execute
<1>5. ASSUME NEW w \in Workers, Finalize(w) PROVE Unmarked'
  <2>1. ASSUME NEW a \in Attempts, BeginFinalize(w, a) PROVE Unmarked'
    BY <2>1 DEF BeginFinalize, Enter
  <2>2. CASE AlreadyPublished(w)
    BY <2>2 DEF AlreadyPublished, Leave
  <2>3. CASE NotYetPublished(w)
    BY <2>3 DEF NotYetPublished
  <2>4. CASE CheckReceipts(w)
    BY <2>4 DEF CheckReceipts
  <2>5. CASE FinalizeRefused(w)
    BY <2>5 DEF FinalizeRefused
  <2> QED  BY <1>5, <2>1, <2>2, <2>3, <2>4, <2>5 DEF Finalize
<1>6. ASSUME NEW w \in Workers, Publish(w) PROVE Unmarked'
  <2>1. CASE AcquirePublication(w)
    BY <2>1 DEF AcquirePublication
  <2>2. CASE AcquireFailure(w)
    BY <2>2 DEF AcquireFailure
  <2>3. CASE FailedMeanwhile(w)
    BY <2>3 DEF FailedMeanwhile, Release
  <2>4. CASE PublicationLockTimeout(w)
    BY <2>4 DEF PublicationLockTimeout, Release
  <2>5. CASE LinkHandoff(w)
    BY <2>5 DEF LinkHandoff
  <2>6. CASE PublicationRefused(w)
    BY <2>6 DEF PublicationRefused, Release
  <2>7. CASE WriteStatus(w)
    BY <2>7 DEF WriteStatus
  <2>8. CASE WriteIndex(w)
    BY <2>8 DEF WriteIndex
  <2>9. CASE WriteLatest(w)
    BY <2>9 DEF WriteLatest
  <2>10. CASE WriteAcceptedEvents(w)
    BY <2>10 DEF WriteAcceptedEvents
  <2>11. CASE WritePublished(w)
    BY <2>11 DEF WritePublished
  <2>12. CASE PublicationReturns(w)
    BY <2>12 DEF PublicationReturns, Leave, Release
  <2>13. CASE ScopeExitRaises(w)
    BY <2>13 DEF ScopeExitRaises, Release
  <2>14. CASE PublicationRaises(w)
    BY <2>14 DEF PublicationRaises
  <2>15. CASE RollbackLatest(w)
    BY <2>15 DEF RollbackLatest
  <2>16. CASE RollbackIndex(w)
    BY <2>16 DEF RollbackIndex, Release
  <2>17. CASE RollbackWriteRaises(w)
    BY <2>17 DEF RollbackWriteRaises, Release
  <2> QED  BY <1>6, <2>1, <2>2, <2>3, <2>4, <2>5, <2>6, <2>7, <2>8, <2>9,
          <2>10, <2>11, <2>12, <2>13, <2>14, <2>15, <2>16, <2>17 DEF Publish
<1>7. ASSUME NEW w \in Workers, RecordFailure(w) PROVE Unmarked'
  <2>1. CASE AcquireFailureRecord(w)
    BY <2>1 DEF AcquireFailureRecord
  <2>2. CASE FailureRecordSkipped(w)
    BY <2>2 DEF FailureRecordSkipped, Leave
  <2>3. CASE WriteFailedStatus(w)
    BY <2>3 DEF WriteFailedStatus
  <2>4. CASE WriteFailedEvent(w)
    BY <2>4 DEF WriteFailedEvent
  <2>5. CASE FinalizeFailure(w)
    BY <2>5 DEF FinalizeFailure, Leave, Release
  <2>6. CASE FailureRecordRaises(w)
    BY <2>6 DEF FailureRecordRaises, Leave, Release
  <2> QED  BY <1>7, <2>1, <2>2, <2>3, <2>4, <2>5, <2>6 DEF RecordFailure
<1>8. ASSUME NEW w \in Workers, Crash(w) PROVE Unmarked'
  BY <1>8 DEF Crash, Leave, Release
<1> QED
  BY <1>1, <1>2, <1>3, <1>4, <1>5, <1>6, <1>7, <1>8 DEF Next

OutcomeMap == [a \in Attempts |-> Outcome(a)]

(* The outcomes of all attempts are read from these files and publishers.  *)
LEMMA OutcomeReads ==
    ASSUME UNCHANGED <<status, handoff, published>>,
           \A a \in Attempts : Publishing(a)' <=> Publishing(a)
    PROVE  OutcomeMap' = OutcomeMap
<1>1. \A a \in Attempts : Outcome(a)' = Outcome(a)
  BY DEF Outcome, Committed
<1> QED  BY <1>1 DEF OutcomeMap

(* A step of a process that is not publishing pointers before or after it, *)
(* or is and stays on its attempt, changes no outcome by itself.           *)
LEMMA OutcomeQuiet ==
    ASSUME Typed, NEW w \in Workers, UNCHANGED <<status, handoff, published>>,
           \A v \in Workers \ {w} : pc'[v] = pc[v] /\ at'[v] = at[v],
           pc'[w] \in PointerSteps <=> pc[w] \in PointerSteps,
           pc[w] \in PointerSteps => at'[w] = at[w]
    PROVE  OutcomeMap' = OutcomeMap
<1>1. \A a \in Attempts : Publishing(a)' <=> Publishing(a)
  BY DEF Publishing
<1> QED  BY <1>1, OutcomeReads

(* The outcome of one attempt changes, the others stay.                    *)
LEMMA OutcomeBecomes ==
    ASSUME NEW a \in Attempts, NEW from, NEW to, Outcome(a) \in from, Outcome(a)' = to,
           \A b \in Attempts \ {a} : Outcome(b)' = Outcome(b)
    PROVE  Abstract!Becomes(a, from, to)
<1> DEFINE O == [b \in Attempts |-> Outcome(b)]
<1>1. O[a] = Outcome(a)
  OBVIOUS
<1>2. O' = [b \in Attempts |-> Outcome(b)']
  OBVIOUS
<1>3. [O EXCEPT ![a] = to] = [b \in Attempts |-> IF b = a THEN to ELSE Outcome(b)]
  OBVIOUS
<1>4. O' = [O EXCEPT ![a] = to]
  BY <1>2, <1>3
<1> QED  BY <1>1, <1>4 DEF Abstract!Becomes

(* Every step of the protocol is a step of AttemptOutcome or changes no    *)
(* outcome: only LinkHandoff seals, only WritePublished commits what its   *)
(* own process sealed, a publisher that raises or dies abandons it, and    *)
(* WriteFailedStatus never fails a sealed attempt.                         *)
LEMMA StepRefines ==
    ASSUME Inv, Unmarked, [Next]_vars
    PROVE  [Abstract!Next]_OutcomeMap
<1>t. /\ pc \in [Workers -> Steps] /\ at \in [Workers -> 0..MaxAttempt] /\ Typed
     /\ status \in [Attempts -> Statuses] /\ published \in [Attempts -> Statuses] /\ AtAttempt
  BY DEF Inv, Typed, TypeOK
<1>o. LocksHeld /\ SolePreparer /\ handoff \subseteq claims
  BY DEF Inv, Owned, ClaimsMade
<1>d. MarkerIsLast /\ PublisherSees /\ PreparerSees
  BY DEF Inv, Decided
<1> USE <1>t DEF PointerSteps, RollbackSteps, Goto, Raise, files, saved, AtAttempt
<1>1. CASE UNCHANGED vars
  BY <1>1, OutcomeReads DEF vars, Publishing
<1>2. CASE ReuseAttempt
  BY <1>2, OutcomeReads DEF ReuseAttempt, Publishing
<1>a. ASSUME NEW w \in Workers, pc[w] \in PointerSteps, ~(pc'[w] \in PointerSteps),
             UNCHANGED <<status, handoff, published>>,
             \A v \in Workers \ {w} : pc'[v] = pc[v] /\ at'[v] = at[v]
      PROVE  [Abstract!Next]_OutcomeMap
  <2> PICK a \in Attempts : a = at[w]
    BY <1>a
  <2>1. a \in handoff /\ published[a] = "absent" /\ status[a] # "FAILED"
    BY <1>a, <1>d DEF PublisherSees, Unmarked
  <2>2. Outcome(a) = "sealed"
    BY <1>a, <2>1 DEF Outcome, Committed, Publishing
  <2>3. ~Publishing(a)' /\ \A b \in Attempts \ {a} : Publishing(b)' <=> Publishing(b)
    BY <1>a, <1>o DEF Publishing, LocksHeld, PublishSteps
  <2>4. Outcome(a)' = "torn"
    BY <1>a, <2>1, <2>3 DEF Outcome, Committed
  <2>5. \A b \in Attempts \ {a} : Outcome(b)' = Outcome(b)
    BY <1>a, <2>3 DEF Outcome, Committed
  <2>6. Abstract!Abandon(a)
    BY <2>1, <2>2, <2>4, <2>5, OutcomeBecomes DEF Abstract!Abandon
  <2> QED  BY <2>1, <2>6 DEF Abstract!Next
<1>3. ASSUME NEW w \in Workers, Prepare(w) PROVE [Abstract!Next]_OutcomeMap
  <2>1. CASE BeginAttempt(w)
    BY <2>1, OutcomeQuiet DEF BeginAttempt, Enter
  <2>2. CASE StartAttempt(w)
    <3>1. at[w] \in Attempts /\ status[at[w]] = "absent" /\ published[at[w]] = "absent"
      BY <1>d, <2>2 DEF StartAttempt, PreparerSees, MarkerIsLast
    <3>2. \A a \in Attempts : Publishing(a)' <=> Publishing(a)
      BY <2>2 DEF StartAttempt, Publishing
    <3>3. \A a \in Attempts : Outcome(a)' = Outcome(a)
      BY <2>2, <3>1, <3>2 DEF StartAttempt, Outcome, Committed
    <3> QED  BY <3>3 DEF OutcomeMap
  <2>3. CASE ReturnClaim(w)
    BY <2>3, OutcomeQuiet DEF ReturnClaim, Leave
  <2>4. CASE PreparationFails(w)
    BY <2>4, OutcomeQuiet DEF PreparationFails
  <2> QED  BY <1>3, <2>1, <2>2, <2>3, <2>4 DEF Prepare
<1>4. ASSUME NEW w \in Workers, Execute(w) PROVE [Abstract!Next]_OutcomeMap
  <2>1. ASSUME NEW a \in Attempts, NEW u \in Units, BeginUnit(w, a, u) PROVE [Abstract!Next]_OutcomeMap
    BY <2>1, OutcomeQuiet DEF BeginUnit, Enter
  <2>2. CASE UnitSucceeds(w)
    BY <2>2, OutcomeQuiet DEF UnitSucceeds
  <2>3. CASE UnitFails(w)
    BY <2>3, OutcomeQuiet DEF UnitFails
  <2>4. ASSUME NEW a \in Attempts, DriverFails(w, a) PROVE [Abstract!Next]_OutcomeMap
    BY <2>4, OutcomeQuiet DEF DriverFails, Enter
  <2>5. ASSUME NEW a \in Attempts, ReusedUnitRaises(w, a) PROVE [Abstract!Next]_OutcomeMap
    BY <2>5, OutcomeQuiet DEF ReusedUnitRaises, Enter
  <2>6. CASE UnitReturns(w)
    BY <2>6, OutcomeQuiet DEF UnitReturns, Leave
  <2> QED  BY <1>4, <2>1, <2>2, <2>3, <2>4, <2>5, <2>6 DEF Execute
<1>5. ASSUME NEW w \in Workers, Finalize(w) PROVE [Abstract!Next]_OutcomeMap
  <2>1. ASSUME NEW a \in Attempts, BeginFinalize(w, a) PROVE [Abstract!Next]_OutcomeMap
    BY <2>1, OutcomeQuiet DEF BeginFinalize, Enter
  <2>2. CASE AlreadyPublished(w)
    BY <2>2, OutcomeQuiet DEF AlreadyPublished, Leave
  <2>3. CASE NotYetPublished(w)
    BY <2>3, OutcomeQuiet DEF NotYetPublished
  <2>4. CASE CheckReceipts(w)
    BY <2>4, OutcomeQuiet DEF CheckReceipts
  <2>5. CASE FinalizeRefused(w)
    BY <2>5, OutcomeQuiet DEF FinalizeRefused
  <2> QED  BY <1>5, <2>1, <2>2, <2>3, <2>4, <2>5 DEF Finalize
<1>6. ASSUME NEW w \in Workers, Publish(w) PROVE [Abstract!Next]_OutcomeMap
  <2>1. CASE AcquirePublication(w)
    BY <2>1, OutcomeQuiet DEF AcquirePublication
  <2>2. CASE AcquireFailure(w)
    BY <2>2, OutcomeQuiet DEF AcquireFailure
  <2>3. CASE FailedMeanwhile(w)
    BY <2>3, OutcomeQuiet DEF FailedMeanwhile
  <2>4. CASE PublicationLockTimeout(w)
    BY <2>4, OutcomeQuiet DEF PublicationLockTimeout
  <2>5. CASE LinkHandoff(w)
    <3> PICK a \in Attempts : a = at[w]
      BY <2>5 DEF LinkHandoff
    <3>1. a \notin handoff /\ status[a] # "FAILED" /\ published[a] = "absent"
      BY <1>d, <2>5 DEF LinkHandoff, PublisherSees, MarkerIsLast
    <3>2. Outcome(a) = "open"
      BY <3>1 DEF Outcome, Committed
    <3>3. Publishing(a)' /\ \A b \in Attempts \ {a} : Publishing(b)' <=> Publishing(b)
      BY <2>5 DEF LinkHandoff, Publishing
    <3>4. Outcome(a)' = "sealed"
      BY <2>5, <3>1, <3>3 DEF LinkHandoff, Outcome, Committed
    <3>5. \A b \in Attempts \ {a} : Outcome(b)' = Outcome(b)
      BY <2>5, <3>3 DEF LinkHandoff, Outcome, Committed
    <3>6. Abstract!Seal(a)
      BY <3>1, <3>2, <3>4, <3>5, OutcomeBecomes DEF Abstract!Seal
    <3> QED  BY <3>1, <3>6 DEF Abstract!Next
  <2>6. CASE PublicationRefused(w)
    BY <2>6, OutcomeQuiet DEF PublicationRefused
  <2>7. CASE WriteStatus(w)
    <3>1. at[w] \in Attempts /\ status[at[w]] # "FAILED" /\ published[at[w]] = "absent"
      BY <1>d, <2>7 DEF WriteStatus, PublisherSees, Unmarked
    <3>2. \A a \in Attempts : Publishing(a)' <=> Publishing(a)
      BY <2>7 DEF WriteStatus, Publishing
    <3>3. \A a \in Attempts : Outcome(a)' = Outcome(a)
      BY <2>7, <3>1, <3>2 DEF WriteStatus, Outcome, Committed
    <3> QED  BY <3>3 DEF OutcomeMap
  <2>8. CASE WriteIndex(w)
    BY <2>8, OutcomeQuiet DEF WriteIndex
  <2>9. CASE WriteLatest(w)
    BY <2>9, OutcomeQuiet DEF WriteLatest
  <2>10. CASE WriteAcceptedEvents(w)
    BY <2>10, OutcomeQuiet DEF WriteAcceptedEvents
  <2>11. CASE WritePublished(w)
    <3> PICK a \in Attempts : a = at[w]
      BY <2>11 DEF WritePublished
    <3>1. a \in handoff /\ status[a] = "SUCCEEDED" /\ published[a] = "absent"
      BY <1>d, <2>11 DEF WritePublished, PublisherSees, Unmarked
    <3>2. Outcome(a) = "sealed"
      BY <2>11, <3>1 DEF WritePublished, Outcome, Committed, Publishing
    <3>3. \A b \in Attempts \ {a} : Publishing(b)' <=> Publishing(b)
      BY <2>11 DEF WritePublished, Publishing
    <3>4. Outcome(a)' = "committed"
      BY <2>11, <3>1 DEF WritePublished, Outcome, Committed
    <3>5. \A b \in Attempts \ {a} : Outcome(b)' = Outcome(b)
      BY <2>11, <3>3 DEF WritePublished, Outcome, Committed
    <3>6. Abstract!Commit(a)
      BY <3>1, <3>2, <3>4, <3>5, OutcomeBecomes DEF Abstract!Commit
    <3> QED  BY <3>1, <3>6 DEF Abstract!Next
  <2>12. CASE PublicationReturns(w)
    BY <2>12, OutcomeQuiet DEF PublicationReturns, Leave
  <2>13. CASE ScopeExitRaises(w)
    BY <2>13, OutcomeQuiet DEF ScopeExitRaises
  <2>14. CASE PublicationRaises(w)
    <3>1. pc[w] \in PointerSteps /\ ~(pc'[w] \in PointerSteps)
          /\ UNCHANGED <<status, handoff, published>>
          /\ \A v \in Workers \ {w} : pc'[v] = pc[v] /\ at'[v] = at[v]
      BY <2>14 DEF PublicationRaises
    <3> QED  BY <1>a, <3>1
  <2>15. CASE RollbackLatest(w)
    BY <2>15, OutcomeQuiet DEF RollbackLatest
  <2>16. CASE RollbackIndex(w)
    BY <2>16, OutcomeQuiet DEF RollbackIndex
  <2>17. CASE RollbackWriteRaises(w)
    BY <2>17, OutcomeQuiet DEF RollbackWriteRaises
  <2> QED  BY <1>6, <2>1, <2>2, <2>3, <2>4, <2>5, <2>6, <2>7, <2>8, <2>9,
          <2>10, <2>11, <2>12, <2>13, <2>14, <2>15, <2>16, <2>17 DEF Publish
<1>7. ASSUME NEW w \in Workers, RecordFailure(w) PROVE [Abstract!Next]_OutcomeMap
  <2>1. CASE AcquireFailureRecord(w)
    BY <2>1, OutcomeQuiet DEF AcquireFailureRecord
  <2>2. CASE FailureRecordSkipped(w)
    BY <2>2, OutcomeQuiet DEF FailureRecordSkipped, Leave
  <2>3. CASE WriteFailedStatus(w)
    <3> PICK a \in Attempts : a = at[w]
      BY <2>3 DEF WriteFailedStatus
    <3>1. ~Publishing(a)
      BY <1>o, <2>3 DEF WriteFailedStatus, LocksHeld, Publishing, PublishSteps, FailSteps
    <3>2. Outcome(a) # "sealed" /\ Outcome(a) \in Abstract!Outcomes
      BY <3>1 DEF Outcome, Abstract!Outcomes
    <3>3. \A b \in Attempts : Publishing(b)' <=> Publishing(b)
      BY <2>3 DEF WriteFailedStatus, Publishing
    <3>4. Outcome(a)' = "failed"
      BY <2>3, <3>1 DEF WriteFailedStatus, Outcome
    <3>5. \A b \in Attempts \ {a} : Outcome(b)' = Outcome(b)
      BY <2>3, <3>3 DEF WriteFailedStatus, Outcome, Committed
    <3>6. CASE Outcome(a) = "failed"
      <4>1. \A b \in Attempts : Outcome(b)' = Outcome(b)
        BY <3>4, <3>5, <3>6
      <4> QED  BY <4>1 DEF OutcomeMap
    <3>7. CASE Outcome(a) # "failed"
      <4>1. Abstract!Fail(a)
        BY <3>1, <3>2, <3>4, <3>5, <3>7, OutcomeBecomes DEF Abstract!Fail
      <4> QED  BY <3>1, <4>1 DEF Abstract!Next
    <3> QED  BY <3>6, <3>7
  <2>4. CASE WriteFailedEvent(w)
    BY <2>4, OutcomeQuiet DEF WriteFailedEvent
  <2>5. CASE FinalizeFailure(w)
    BY <2>5, OutcomeQuiet DEF FinalizeFailure, Leave
  <2>6. CASE FailureRecordRaises(w)
    BY <2>6, OutcomeQuiet DEF FailureRecordRaises, Leave, FailSteps
  <2> QED  BY <1>7, <2>1, <2>2, <2>3, <2>4, <2>5, <2>6 DEF RecordFailure
<1>8. ASSUME NEW w \in Workers, Crash(w) PROVE [Abstract!Next]_OutcomeMap
  <2>1. CASE pc[w] \in PointerSteps
    <3>1. pc'[w] = "idle" /\ UNCHANGED <<status, handoff, published>>
          /\ \A v \in Workers \ {w} : pc'[v] = pc[v] /\ at'[v] = at[v]
      BY <1>8 DEF Crash, Leave
    <3> QED  BY <1>a, <2>1, <3>1
  <2>2. CASE pc[w] \notin PointerSteps
    BY <1>8, <2>2, OutcomeQuiet DEF Crash, Leave
  <2> QED  BY <2>1, <2>2
<1> QED
  BY <1>1, <1>2, <1>3, <1>4, <1>5, <1>6, <1>7, <1>8 DEF Next

(* The attempt protocol implements AttemptOutcome: whatever the processes, *)
(* crashes and retries, a reader of a single attempt sees it sealed once,  *)
(* committed only by the publisher that sealed it, and failed for ever.    *)
THEOREM OutcomeCorrect == Spec => OutcomeSpec
<1>1. Init => Abstract!Init
  BY DEF Init, Abstract!Init, Outcome, Committed
<1>2. Init => Inv
  BY InitTyped, InitOwned, InitDecided, InitPointed DEF Inv
<1>3. Inv /\ [Next]_vars => Inv'
  BY NextTyped, NextOwned, NextDecided, NextPointed DEF Inv
<1>4. Inv /\ Unmarked /\ [Next]_vars => [Abstract!Next]_OutcomeMap
  BY StepRefines
<1>5. Inv /\ Unmarked /\ [Next]_vars => Unmarked'
  BY NextUnmarked
<1> QED
  BY <1>1, <1>2, <1>3, <1>4, <1>5, InitUnmarked, PTL DEF Spec, OutcomeSpec, Abstract!Spec, OutcomeMap
=============================================================================
