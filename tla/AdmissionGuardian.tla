-------------------------- MODULE AdmissionGuardian --------------------------
(***************************************************************************)
(* First-error execution (runtime/execution_safety.py,                     *)
(* orchestration/dagster/fail_fast.py): the executor of a Dagster run owns *)
(* a guardian that serves one request at a time over a socket; every step  *)
(* process asks it for a permit before it works and polls it while a local *)
(* process runs.  The first failure closes the gate for good.              *)
(*                                                                         *)
(* Three kinds of actor interleave: the step processes (clients), the      *)
(* guardian's server thread, and the executor.  A client gives up on a     *)
(* request after five seconds, and its request may be served after that.   *)
(* A client is modelled as one operation() around one run_process().       *)
(***************************************************************************)
EXTENDS Naturals, Sequences

CONSTANTS
    Clients,     \* step processes, each with one operation
    Launchers,   \* the ones whose operation runs a local process
    Controller,  \* the cause of a failure of the guardian itself
    None,
    Strangers,   \* whether anything but a step's request reaches the socket
    MaxFaults    \* bound on the writes of the journal that fail

ASSUME ClientsAssumption ==
    /\ Launchers \subseteq Clients
    /\ Controller \notin Clients /\ None \notin Clients \cup {Controller}
ASSUME FaultsAssumption == MaxFaults \in Nat

VARIABLES
    stopped,     \* AdmissionGuardian.stopped
    state,       \* AdmissionGuardian.state
    journal,     \* the copy of it on disk
    faults,      \* writes of the journal that failed
    closed,      \* AdmissionGuardian.closed
    thread,      \* where the server thread is, and with which request
    inbox,       \* the listening socket's queue of requests not yet accepted
    pc,          \* per client: the request it waits for, or where it is
    answer,      \* per client: the response in its socket
    proc,        \* per client: its local process
    exec,        \* where the executor is
    seen,        \* clients whose end the executor has heard of
    requested,   \* cancellation_requested
    terminated   \* history: calls of run_launcher.terminate

guardianVars == <<stopped, state, journal, faults, closed, thread>>
clientVars == <<inbox, pc, answer, proc>>
executorVars == <<exec, seen, requested, terminated>>
vars == <<stopped, state, journal, faults, closed, thread, inbox, pc, answer, proc, exec, seen,
          requested, terminated>>

Requests == {"admit", "precheck", "process", "poll", "final", "failure", "finishOk", "finishBad"}
Ended == {"done", "failed", "crashed"}
ClientSteps == Requests \cup Ended \cup
                   {"idle", "body", "spawn", "running", "kill", "abort", "returned"}
States == [status : {"RUNNING", "STOPPED", "COMPLETED"},
           active : [Clients -> {"none", "ADMITTED", "CLEANUP_UNCONFIRMED"}],
           first : Clients \cup {Controller, None}]
Threads == [at : {"accept", "failing", "stop", "cancel", "ended"}, client : Clients \cup {None},
            request : Requests \cup {None}, ok : {FALSE}]
           \cup [at : {"reply"}, client : Clients, request : Requests, ok : BOOLEAN]
ExecutorSteps == {"events", "check", "cancel", "raising", "raiseCancel", "exit", "exitRaised",
                  "join", "joinRaised", "completed", "stopped", "broken", "dead"}

TypeOK ==
    /\ stopped \in BOOLEAN /\ closed \in BOOLEAN /\ requested \in BOOLEAN
    /\ state \in States /\ journal \in States
    /\ thread \in Threads
    /\ inbox \in Seq(Clients \X Requests)
    /\ pc \in [Clients -> ClientSteps]
    /\ answer \in [Clients -> {"none", "ok", "refused"}]
    /\ proc \in [Clients -> {"none", "running", "stray"}]
    /\ exec \in ExecutorSteps
    /\ seen \subseteq Clients
    /\ terminated \in Nat /\ faults \in 0..MaxFaults

Accepting == [at |-> "accept", client |-> None, request |-> None, ok |-> FALSE]

Init ==
    /\ stopped = FALSE /\ closed = FALSE /\ requested = FALSE
    /\ state = [status |-> "RUNNING", active |-> [c \in Clients |-> "none"], first |-> None]
    /\ journal = state
    /\ thread = Accepting
    /\ inbox = <<>>
    /\ pc = [c \in Clients |-> "idle"]
    /\ answer = [c \in Clients |-> "none"]
    /\ proc = [c \in Clients |-> "none"]
    /\ exec = "events"
    /\ seen = {}
    /\ terminated = 0 /\ faults = 0

-----------------------------------------------------------------------------
(* The guardian's state. *)

(* _persist: the journal is replaced, after which it may still fail.       *)
Persisted == journal' = state' /\ UNCHANGED faults
PersistFails ==
    /\ faults < MaxFaults
    /\ faults' = faults + 1
    /\ journal' \in {journal, state'}

(* Mutation: the last error is kept instead of the first.                  *)
FailedByLast(s, cause) == [s EXCEPT !.status = "STOPPED", !.first = cause]

(* What fail() makes of the state.                                         *)
FailedBy(s, cause) ==
    [s EXCEPT !.status = "STOPPED", !.first = IF s.first = None THEN cause ELSE s.first]

Fail(cause) ==
    /\ stopped' = TRUE
    /\ state' = FailedBy(state, cause)

Permit(s, c, status) == [s EXCEPT !.active[c] = status]

Finished(s, c, request) ==
    Permit(s, c, IF request = "finishOk" THEN "none" ELSE "CLEANUP_UNCONFIRMED")

(* The commands _dispatch serves whether or not the gate is closed.        *)
AlwaysServed == {"failure", "finishOk", "finishBad", "process"}

Refused(request) == stopped /\ request \notin AlwaysServed

(* Mutation: an admission that was waiting when the gate closed is served. *)
EffectUngated(c, request) ==
    CASE request = "failure" -> FailedBy(state, c)
      [] request \in {"finishOk", "finishBad"} -> Finished(state, c, request)
      [] request = "admit" -> Permit(state, c, "ADMITTED")
      [] OTHER -> state

Effect(c, request) ==
    CASE request = "failure" -> FailedBy(state, c)
      [] request \in {"finishOk", "finishBad"} -> Finished(state, c, request)
      [] request = "admit" /\ ~stopped -> Permit(state, c, "ADMITTED")
      [] OTHER -> state

(* finish and process of a permit that is not active.                      *)
Unknown(c, request) ==
    request \in {"finishOk", "finishBad", "process"} /\ state.active[c] = "none"

-----------------------------------------------------------------------------
(* The server thread: _serve and _dispatch. *)

(* The commands that write the journal.                                    *)
Writes(request) == request \in AlwaysServed \/ (request = "admit" /\ ~stopped)

Dispatch(c, request) ==
    /\ thread.at = "accept"
    /\ inbox # <<>>
    /\ Head(inbox) = <<c, request>>
    /\ inbox' = Tail(inbox)
    /\ state' = IF Unknown(c, request) THEN state ELSE Effect(c, request)
    /\ stopped' = (stopped \/ request = "failure")
    /\ \/ /\ ~Unknown(c, request)
          /\ IF Writes(request) THEN Persisted ELSE UNCHANGED <<journal, faults>>
          /\ thread' = [at |-> "reply", client |-> c, request |-> request,
                        ok |-> ~Refused(request)]
       \/ /\ Unknown(c, request) \/ Writes(request)
          /\ IF Unknown(c, request) THEN UNCHANGED <<journal, faults>> ELSE PersistFails
          /\ thread' = [at |-> "failing", client |-> c, request |-> request, ok |-> FALSE]
    /\ UNCHANGED <<closed, pc, answer, proc, executorVars>>

(* A connection that brings no request of a step: a peer of another user,  *)
(* a message that is cut short, malformed or of another policy, or nothing *)
(* within five seconds.                                                    *)
BadConnection ==
    /\ Strangers
    /\ thread.at = "accept"
    /\ thread' = [Accepting EXCEPT !.at = "failing"]
    /\ UNCHANGED <<stopped, state, journal, faults, closed, clientVars, executorVars>>

(* The connection is open while its client waits for this answer.          *)
Open ==
    /\ thread.client \in Clients
    /\ pc[thread.client] = thread.request /\ answer[thread.client] = "none"

AfterRequest(isStopped) == IF isStopped THEN [Accepting EXCEPT !.at = "stop"] ELSE Accepting

Reply ==
    /\ thread.at = "reply"
    /\ Open
    /\ answer' = [answer EXCEPT ![thread.client] = IF thread.ok THEN "ok" ELSE "refused"]
    /\ thread' = AfterRequest(stopped)
    /\ UNCHANGED <<stopped, state, journal, faults, closed, inbox, pc, proc, executorVars>>

(* The client has given up: "never continue from uncertain admission".     *)
ReplyLost ==
    /\ thread.at = "reply"
    /\ ~Open
    /\ thread' = [thread EXCEPT !.at = "failing", !.ok = FALSE]
    /\ UNCHANGED <<stopped, state, journal, faults, closed, clientVars, executorVars>>

(* The controller fails closed, even if the journal cannot be written.     *)
ControllerFails ==
    /\ thread.at = "failing"
    /\ Fail(Controller)
    /\ Persisted \/ PersistFails
    /\ answer' = IF Open THEN [answer EXCEPT ![thread.client] = "refused"] ELSE answer
    /\ thread' = AfterRequest(TRUE)
    /\ UNCHANGED <<closed, inbox, pc, proc, executorVars>>

(* on_stop() is cancel_once().                                             *)
OnStop ==
    /\ thread.at = "stop"
    /\ thread' = IF requested THEN Accepting ELSE [thread EXCEPT !.at = "cancel"]
    /\ requested' = TRUE
    /\ UNCHANGED <<stopped, state, journal, faults, closed, clientVars, exec, seen, terminated>>

(* The body of cancel_once: the request is written, the run terminated,    *)
(* and the answer written.                                                 *)
Terminates ==
    /\ terminated' = terminated + 1
    /\ UNCHANGED <<stopped, state>>
    /\ Persisted

(* A write or the termination fails: the guardian is failed; that may      *)
(* raise in turn.                                                          *)
TerminationFails ==
    /\ Fail(Controller)
    /\ terminated' \in {terminated, terminated + 1}

CancelFromThread ==
    /\ thread.at = "cancel"
    /\ \/ /\ Terminates \/ (TerminationFails /\ Persisted)
          /\ thread' = Accepting
       \/ /\ TerminationFails /\ PersistFails
          /\ thread' = [thread EXCEPT !.at = "ended"]
    /\ inbox' = IF thread'.at = "ended" THEN <<>> ELSE inbox
    /\ UNCHANGED <<closed, pc, answer, proc, exec, seen, requested>>

(* accept() raises: the gate closes in memory and the thread dies, without *)
(* a word in the journal and without on_stop.  The guardian may have been  *)
(* closed since the thread looked.                                         *)
AcceptFails ==
    /\ thread.at = "accept"
    /\ stopped' = TRUE
    /\ thread' = [thread EXCEPT !.at = "ended"]
    /\ inbox' = <<>>
    /\ UNCHANGED <<state, journal, faults, closed, pc, answer, proc, executorVars>>

(* The requests nobody accepts any more are lost.                          *)
ThreadEnds ==
    /\ thread.at = "accept"
    /\ closed
    /\ thread' = [thread EXCEPT !.at = "ended"]
    /\ inbox' = <<>>
    /\ UNCHANGED <<stopped, state, journal, faults, closed, pc, answer, proc, executorVars>>

-----------------------------------------------------------------------------
(* A step process: operation() around run_process(). *)

Goto(c, step) ==
    /\ pc' = [pc EXCEPT ![c] = step]
    /\ answer' = [answer EXCEPT ![c] = "none"]
    /\ inbox' = IF step \in Requests /\ thread.at # "ended" THEN Append(inbox, <<c, step>>) ELSE inbox

Executing == exec \in {"events", "check", "cancel"}

Begin(c) ==
    /\ pc[c] = "idle"
    /\ Executing
    /\ Goto(c, "admit")
    /\ UNCHANGED <<guardianVars, proc, executorVars>>

(* Where a response leads: {"ok": true}, or ReviewStopped.                 *)
Granted ==
    [admit |-> "body", precheck |-> "spawn", process |-> "poll", poll |-> "running",
     final |-> "finishOk", failure |-> "finishBad", finishOk |-> "done", finishBad |-> "failed"]
Denied ==
    [admit |-> "failed", precheck |-> "finishBad", process |-> "abort", poll |-> "kill",
     final |-> "finishBad", failure |-> "finishBad", finishOk |-> "failed", finishBad |-> "failed"]

Receive(c) ==
    /\ pc[c] \in Requests
    /\ answer[c] # "none"
    /\ Goto(c, IF answer[c] = "ok" THEN Granted[pc[c]] ELSE Denied[pc[c]])
    /\ UNCHANGED <<guardianVars, proc, executorVars>>

(* No answer within five seconds, or no guardian to connect to.            *)
Unavailable(c) ==
    /\ pc[c] \in Requests
    /\ Goto(c, Denied[pc[c]])
    /\ UNCHANGED <<guardianVars, proc, executorVars>>

(* The body runs a process, or not, and returns or raises.                 *)
RunProcess(c) ==
    /\ c \in Launchers
    /\ pc[c] = "body"
    /\ Goto(c, "precheck")
    /\ UNCHANGED <<guardianVars, proc, executorVars>>

BodyReturns(c) ==
    /\ pc[c] \in {"body", "returned"}
    /\ Goto(c, "final")
    /\ UNCHANGED <<guardianVars, proc, executorVars>>

BodyRaises(c) ==
    /\ pc[c] \in {"body", "returned"}
    /\ Goto(c, "failure")
    /\ UNCHANGED <<guardianVars, proc, executorVars>>

Popen(c) ==
    /\ pc[c] = "spawn"
    /\ proc' = [proc EXCEPT ![c] = "running"]
    /\ Goto(c, "process")
    /\ UNCHANGED <<guardianVars, executorVars>>

(* Mutation: the loop only watches the process and its deadline.           *)
PollUnchecked(c) ==
    /\ pc[c] = "running"
    /\ Goto(c, "running")
    /\ UNCHANGED <<guardianVars, proc, executorVars>>

Poll(c) ==
    /\ pc[c] = "running"
    /\ Goto(c, "poll")
    /\ UNCHANGED <<guardianVars, proc, executorVars>>

Communicate(c) ==
    /\ pc[c] = "running"
    /\ proc[c] = "none"
    /\ Goto(c, "returned")
    /\ UNCHANGED <<guardianVars, proc, executorVars>>

Deadline(c) ==
    /\ pc[c] = "running"
    /\ Goto(c, "kill")
    /\ UNCHANGED <<guardianVars, proc, executorVars>>

(* Mutation: a process that could not be killed is reported as finished.   *)
KillAssumed(c) ==
    /\ pc[c] \in {"kill", "abort"}
    /\ \/ /\ proc' = [proc EXCEPT ![c] = "none"]
          /\ Goto(c, IF pc[c] = "kill" THEN "returned" ELSE "finishBad")
       \/ /\ proc' = [proc EXCEPT ![c] = IF @ = "running" THEN "stray" ELSE @]
          /\ Goto(c, IF pc[c] = "kill" THEN "returned" ELSE "finishBad")
    /\ UNCHANGED <<guardianVars, executorVars>>

(* killpg; a death that is not confirmed is ReviewStopped.                 *)
Kill(c) ==
    /\ pc[c] \in {"kill", "abort"}
    /\ \/ /\ proc' = [proc EXCEPT ![c] = "none"]
          /\ Goto(c, IF pc[c] = "kill" THEN "returned" ELSE "finishBad")
       \/ /\ proc' = [proc EXCEPT ![c] = IF @ = "running" THEN "stray" ELSE @]
          /\ Goto(c, "finishBad")
    /\ UNCHANGED <<guardianVars, executorVars>>

(* The step process dies; a local process it started has its own session   *)
(* and lives on.                                                           *)
ClientCrashes(c) ==
    /\ pc[c] \notin Ended \cup {"idle"}
    /\ pc' = [pc EXCEPT ![c] = "crashed"]
    /\ answer' = [answer EXCEPT ![c] = "none"]
    /\ UNCHANGED <<guardianVars, inbox, proc, executorVars>>

ProcessExits(c) ==
    /\ proc[c] \in {"running", "stray"}
    /\ proc' = [proc EXCEPT ![c] = "none"]
    /\ UNCHANGED <<guardianVars, inbox, pc, answer, executorVars>>

-----------------------------------------------------------------------------
(* The executor: SafetyExecutor.execute and the guardian's __exit__. *)

StepSucceeded(c) ==
    /\ exec = "events"
    /\ pc[c] = "done" /\ c \notin seen
    /\ seen' = seen \cup {c}
    /\ exec' = "check"
    /\ UNCHANGED <<guardianVars, clientVars, requested, terminated>>

(* Mutation: a step that ended badly is left to its own report.            *)
StepFailureIgnored(c) ==
    /\ exec = "events"
    /\ pc[c] \in {"failed", "crashed"} /\ c \notin seen
    /\ seen' = seen \cup {c}
    /\ exec' = "check"
    /\ UNCHANGED <<guardianVars, clientVars, requested, terminated>>

StepFailed(c) ==
    /\ exec = "events"
    /\ pc[c] \in {"failed", "crashed"} /\ c \notin seen
    /\ seen' = seen \cup {c}
    /\ Fail(c)
    /\ \/ Persisted /\ exec' = "check"
       \/ PersistFails /\ exec' = "raising"
    /\ UNCHANGED <<closed, thread, clientVars, requested, terminated>>

CheckStopped ==
    /\ exec = "check"
    /\ exec' = IF stopped /\ ~requested THEN "cancel" ELSE "events"
    /\ UNCHANGED <<guardianVars, clientVars, seen, requested, terminated>>

(* Where cancel_once returns to.                                           *)
AfterCancel == IF exec = "cancel" THEN "events" ELSE "exitRaised"

(* Mutation: the flag is read, the run terminated, and the flag set, with  *)
(* no lock around them.                                                    *)
CancelAgain ==
    /\ exec \in {"cancel", "raiseCancel"}
    /\ Terminates
    /\ exec' = AfterCancel
    /\ requested' = TRUE
    /\ UNCHANGED <<closed, thread, clientVars, seen>>

(* cancel_once, called a second time, returns at once.                     *)
CancelFromExecutor ==
    /\ exec \in {"cancel", "raiseCancel"}
    /\ \/ /\ requested
          /\ exec' = AfterCancel
          /\ UNCHANGED <<stopped, state, journal, faults, terminated>>
       \/ /\ ~requested
          /\ Terminates \/ (TerminationFails /\ Persisted)
          /\ exec' = AfterCancel
       \/ /\ ~requested
          /\ TerminationFails /\ PersistFails
          /\ exec' = IF exec = "cancel" THEN "raising" ELSE "exitRaised"
    /\ requested' = TRUE
    /\ UNCHANGED <<closed, thread, clientVars, seen>>

(* No step is left to run: the ones not started were skipped.              *)
AllOver ==
    /\ exec = "events"
    /\ \A c \in Clients : c \in seen \/ pc[c] = "idle"
    /\ (\E c \in Clients : c \notin seen) => \E c \in seen : pc[c] # "done"

(* Mutation: the gate is not looked at once the steps are over.            *)
EndOfStepsUnchecked ==
    /\ AllOver
    /\ exec' = "exit"
    /\ UNCHANGED <<guardianVars, clientVars, seen, requested, terminated>>

EndOfSteps ==
    /\ AllOver
    /\ exec' = IF stopped THEN "raising" ELSE "exit"
    /\ UNCHANGED <<guardianVars, clientVars, seen, requested, terminated>>

(* The termination of the run interrupts the executor.                     *)
Interrupted ==
    /\ exec \in {"events", "check", "cancel"}
    /\ terminated > 0
    /\ exec' = "raising"
    /\ UNCHANGED <<guardianVars, clientVars, seen, requested, terminated>>

(* except BaseException: the guardian is failed, then the run cancelled.   *)
Raises ==
    /\ exec = "raising"
    /\ Fail(Controller)
    /\ \/ Persisted /\ exec' = "raiseCancel"
       \/ PersistFails /\ exec' = "exitRaised"
    /\ UNCHANGED <<closed, thread, clientVars, seen, requested, terminated>>

Exit ==
    /\ exec \in {"exit", "exitRaised"}
    /\ closed' = TRUE
    /\ exec' = IF exec = "exit" THEN "join" ELSE "joinRaised"
    /\ UNCHANGED <<stopped, state, journal, faults, thread, clientVars, seen, requested, terminated>>

(* The server thread has ended: the final status is written.               *)
Joined ==
    /\ exec \in {"join", "joinRaised"}
    /\ thread.at = "ended"
    /\ LET raised == stopped \/ exec = "joinRaised" IN
       /\ state' = [state EXCEPT !.status = IF raised THEN "STOPPED" ELSE "COMPLETED"]
       /\ \/ Persisted /\ exec' = IF exec = "join" THEN "completed" ELSE "stopped"
          \/ PersistFails /\ exec' = "broken"
    /\ UNCHANGED <<stopped, closed, thread, clientVars, seen, requested, terminated>>

(* It has not ended within six seconds.                                    *)
JoinTimeout ==
    /\ exec \in {"join", "joinRaised"}
    /\ thread.at # "ended"
    /\ stopped' = TRUE
    /\ exec' = "broken"
    /\ UNCHANGED <<state, journal, faults, closed, thread, clientVars, seen, requested, terminated>>

(* The run worker dies, guardian and executor with it.                     *)
WorkerDies ==
    /\ exec \notin {"completed", "stopped", "broken", "dead"}
    /\ exec' = "dead"
    /\ thread' = [Accepting EXCEPT !.at = "ended"]
    /\ inbox' = <<>>
    /\ UNCHANGED <<stopped, state, journal, faults, closed, pc, answer, proc, seen, requested, terminated>>

-----------------------------------------------------------------------------

Serve ==
    \/ \E c \in Clients, request \in Requests : Dispatch(c, request)
    \/ BadConnection \/ Reply \/ ReplyLost \/ ControllerFails \/ OnStop \/ CancelFromThread
    \/ AcceptFails \/ ThreadEnds

Operate(c) ==
    \/ Receive(c) \/ Unavailable(c) \/ RunProcess(c) \/ BodyReturns(c) \/ BodyRaises(c)
    \/ Popen(c) \/ Poll(c) \/ Communicate(c) \/ Kill(c)

Conduct ==
    \/ \E c \in Clients : StepSucceeded(c) \/ StepFailed(c)
    \/ CheckStopped \/ CancelFromExecutor \/ EndOfSteps \/ Raises \/ Exit \/ Joined \/ JoinTimeout

Next ==
    \/ Serve
    \/ Conduct
    \/ \E c \in Clients :
          Begin(c) \/ Operate(c) \/ Deadline(c) \/ ClientCrashes(c) \/ ProcessExits(c)
    \/ Interrupted \/ WorkerDies

Spec == Init /\ [][Next]_vars

(* A step process that is alive goes on, and so does the executor: each    *)
(* waits only with a timeout.  Nothing is asked of the server thread, and  *)
(* a process may run on with no deadline in sight.                         *)
Fairness ==
    /\ WF_vars(Conduct)
    /\ \A c \in Clients : WF_vars(Operate(c))

FairSpec == Spec /\ Fairness

-----------------------------------------------------------------------------
(* Properties. *)

(* A local process that may still run is accounted for on disk: the        *)
(* journal holds the permit it was started under, whatever step process,   *)
(* server thread or run worker died, and whichever writes failed.          *)
ProcessAccounted ==
    \A c \in Clients : proc[c] \in {"running", "stray"} => journal.active[c] # "none"

(* A journal that says COMPLETED tells the truth about the whole run: no   *)
(* step failed, no permit is open, no process is left and no error was     *)
(* latched.                                                                *)
CompletedClean ==
    journal.status = "COMPLETED" =>
        /\ ~stopped /\ journal.first = None
        /\ \A c \in Clients : /\ pc[c] = "done"
                              /\ journal.active[c] = "none"
                              /\ proc[c] = "none"

(* A run the executor ends without an exception is one in which every step *)
(* succeeded and neither a permit nor a process is left, and its journal   *)
(* is closed.  The journal says COMPLETED unless the gate was shut after   *)
(* the executor looked at it for the last time, and then by a failure of   *)
(* the guardian itself, never of a step.                                   *)
SuccessAgrees ==
    exec = "completed" =>
        /\ \A c \in Clients : /\ pc[c] = "done"
                              /\ journal.active[c] = "none"
                              /\ proc[c] = "none"
        /\ journal.status = IF stopped THEN "STOPPED" ELSE "COMPLETED"
        /\ journal.first \in {None, Controller}

(* The run is terminated at most once, though the server thread and the    *)
(* executor both cancel on the first stop they see.                        *)
TerminatedOnce == terminated <= 1

(* The journal's first error is never replaced by a later one.             *)
FirstErrorKept == [][journal.first # None => journal'.first = journal.first]_vars

(* After the gate closes no permit is issued.                              *)
NoGrantAfterStop ==
    [][stopped => \A c \in Clients : state.active[c] = "none" => state'.active[c] = "none"]_vars

(* A step process that fails or dies, without a word to the guardian or    *)
(* after an admission it never learned of, closes the gate.                *)
FailureStopsRun ==
    (\E c \in Clients : pc[c] \in {"failed", "crashed"}) ~> (stopped \/ exec = "dead")

(* Once the gate is closed, or the run worker is dead, every local process *)
(* is killed (or its death reported unconfirmed) by the step process that  *)
(* runs it.                                                                *)
StopKills ==
    \A c \in Launchers :
        ((stopped \/ exec = "dead") /\ proc[c] = "running")
            ~> (proc[c] # "running" \/ pc[c] = "crashed")
=============================================================================
