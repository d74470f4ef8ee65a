----------------------------- MODULE GraphResume -----------------------------
(***************************************************************************)
(* A run resumed by several drivers: the resume planner                    *)
(* (runtime/resume.py), the graph runner that carries its plan out under   *)
(* data/resume.lock (runtime/graph.py), Dagster dispatches, which claim or *)
(* reuse one job at a time without that lock                               *)
(* (orchestration/dagster/adapter.py), and the repair admission with its   *)
(* gate on stopped workers (runtime/repair.py).                            *)
(*                                                                         *)
(* A handoff is named by its attempt number: its digest covers the         *)
(* attempt, so two handoffs of a job are equal when their numbers are.     *)
(* An attempt's preparation takes three steps, as the deployed release is  *)
(* read in each: for the binding, for the claim, and to check the claim.   *)
(* Its publication is one step; AttemptPublication takes that apart.  The  *)
(* planner reads the files of one job at a time, and other drivers move    *)
(* between two of these reads.                                             *)
(***************************************************************************)
EXTENDS Naturals

CONSTANTS
    N,            \* jobs of the graph, numbered in graph order
    Deps,         \* per job: its direct dependencies
    Propagating,  \* jobs with propagate_handoff
    Live,         \* jobs with always_execute
    TargetFree,   \* TARGET_INDEPENDENT_JOBS
    Metadata,     \* TARGET_INDEPENDENT_METADATA_JOBS
    Split,        \* jobs before a deferred target fingerprint exists (0: none)
    Graphs,       \* processes that run the graph from the command line
    Dispatches,   \* Dagster runs of the graph
    Launches,     \* processes that run one job from the command line
    Container,    \* drivers in another PID namespace than the operator
    Forces,       \* jobs a driver may be forced from (0: not forced)
    Qualities,    \* how an accepted job may have completed
    Changes,      \* sets of jobs whose sources a new release may change
    MaxAttempt,   \* bound on the attempts of one job
    MaxTarget,    \* bound on the states of the target checkout
    MaxRelease,   \* bound on deployed releases
    MaxRepair,    \* bound on admitted repairs
    Faults,       \* drivers may die
    Free          \* a lock nobody holds

Jobs == 1..N
Drivers == Graphs \cup Dispatches \cup Launches

ASSUME GraphOrderAssumption ==
    /\ N \in Nat
    /\ Deps \in [Jobs -> SUBSET Jobs]
    /\ \A j \in Jobs : \A k \in Deps[j] : k < j
ASSUME JobKindsAssumption ==
    /\ Propagating \subseteq Jobs /\ Live \subseteq Jobs
    /\ Metadata \subseteq TargetFree /\ TargetFree \subseteq Jobs
ASSUME SplitAssumption ==
    /\ Split \in 0..N
    /\ 1..Split \subseteq (Live \cap Metadata) \ Propagating
ASSUME DriversAssumption ==
    /\ Graphs \cap Dispatches = {} /\ Launches \cap (Graphs \cup Dispatches) = {}
    /\ Free \notin Drivers
    /\ Container \subseteq Drivers
    /\ Forces \subseteq Jobs \cup {0}
    /\ Changes \subseteq SUBSET Jobs
ASSUME BoundsAssumption ==
    /\ MaxAttempt \in Nat /\ MaxTarget \in Nat \ {0} /\ MaxRelease \in Nat
    /\ MaxRepair \in Nat /\ Faults \in BOOLEAN
ASSUME QualitiesAssumption == Qualities \subseteq {"clean", "gaps", "retry"}

VARIABLES
    made,      \* per job: attempt directories so far
    rec,       \* per job and attempt: claim, status and handoff identities
    accepted,  \* per job: attempts with a committed handoff
    latest,    \* per job: latest.json
    target,    \* the state of the target checkout
    deployed,  \* the deployed release
    ident,     \* per job: its identity in the deployed release
    bound,     \* the release data/recovery/current.json binds
    boundId,   \* per job: its identity in the bound release
    repair,    \* the admitted repair current.json names
    ordered,   \* per job: the decision of that repair
    lock,      \* holder of data/resume.lock
    worker,    \* per driver and job: its worker record
    stopped,   \* dispatches with a verified stop receipt
    pc,        \* per driver: where it is
    force,     \* per driver: the job it is forced from
    fp,        \* per driver: the source fingerprint it uses
    dec,       \* per driver and job: the planned decision
    st,        \* per driver and job: progress
    at,        \* per driver and job: the attempt it claimed or reuses
    gaps,      \* drivers whose outcomes name a COMPLETED_WITH_GAPS job
    since,     \* history: the repair admitted when the driver started
    refused    \* history: drivers refused an attempt for their own claims alone

files == <<made, rec, accepted, latest>>
release == <<deployed, ident, bound, boundId, repair, ordered>>
local == <<force, fp, since>>
vars == <<made, rec, accepted, latest, target, deployed, ident, bound, boundId,
          repair, ordered, lock, worker, stopped, pc, force, fp, dec, st, at,
          gaps, since, refused>>

Attempts == 1..MaxAttempt
Hashes == [Jobs -> 0..MaxAttempt]
Decisions == {"RUN", "INVALIDATE", "REUSE"}
NoDecision == "-"

(* rel is the job's identity in the release the claim was written under,   *)
(* bind the one in the release the claim names as its own.  quality: a     *)
(* bare directory, a claim without a status, or how the attempt completed  *)
(* ("clean" until it does).                                                *)
Record == [by : Drivers, up : Hashes, snap : 0..MaxTarget, rel : 0..MaxRelease,
           bind : 0..MaxRelease, rep : 0..MaxRepair,
           quality : {"bare", "claimed", "clean", "gaps", "retry"}]
NoRecord == [by |-> Free, up |-> [j \in Jobs |-> 0], snap |-> 0, rel |-> 0,
             bind |-> 0, rep |-> 0, quality |-> "bare"]
Stages == {"todo", "prepared", "claimed", "begun", "unit", "executed", "done", "failed"}

TypeOK ==
    /\ made \in [Jobs -> 0..MaxAttempt]
    /\ rec \in [Jobs -> [Attempts -> Record \cup {NoRecord}]]
    /\ accepted \in [Jobs -> SUBSET Attempts]
    /\ latest \in Hashes
    /\ target \in 1..MaxTarget
    /\ deployed \in 0..MaxRelease /\ bound \in 0..MaxRelease
    /\ ident \in [Jobs -> 0..MaxRelease] /\ boundId \in [Jobs -> 0..MaxRelease]
    /\ repair \in 0..MaxRepair
    /\ ordered \in [Jobs -> Decisions]
    /\ lock \in Graphs \cup {Free}
    /\ worker \in [Drivers -> [Jobs -> {"none", "active", "dead"}]]
    /\ stopped \subseteq Dispatches
    /\ pc \in [Drivers -> {"idle", "plan", "run", "done", "failed"}]
    /\ force \in [Drivers -> 0..N]
    /\ fp \in [Drivers -> 0..MaxTarget]
    /\ dec \in [Drivers -> [Jobs -> Decisions \cup {NoDecision}]]
    /\ st \in [Drivers -> [Jobs -> Stages]]
    /\ at \in [Drivers -> Hashes]
    /\ gaps \subseteq Drivers
    /\ since \in [Drivers -> 0..MaxRepair]
    /\ refused \subseteq Drivers

Init ==
    /\ made = [j \in Jobs |-> 0]
    /\ rec = [j \in Jobs |-> [a \in Attempts |-> NoRecord]]
    /\ accepted = [j \in Jobs |-> {}]
    /\ latest = [j \in Jobs |-> 0]
    /\ target = 1
    /\ deployed = 0 /\ ident = [j \in Jobs |-> 0]
    /\ bound = 0 /\ boundId = [j \in Jobs |-> 0]
    /\ repair = 0 /\ ordered = [j \in Jobs |-> "REUSE"]
    /\ lock = Free
    /\ worker = [d \in Drivers |-> [j \in Jobs |-> "none"]]
    /\ stopped = {}
    /\ pc = [d \in Drivers |-> "idle"]
    /\ force = [d \in Drivers |-> 0]
    /\ fp = [d \in Drivers |-> 0]
    /\ dec = [d \in Drivers |-> [j \in Jobs |-> NoDecision]]
    /\ st = [d \in Drivers |-> [j \in Jobs |-> "todo"]]
    /\ at = [d \in Drivers |-> [j \in Jobs |-> 0]]
    /\ gaps = {}
    /\ since = [d \in Drivers |-> 0]
    /\ refused = {}

(***************************************************************************)
(* The graph.                                                              *)
(***************************************************************************)
(* Every transitive dependency: what upstream_closure's worklist collects, *)
(* the least set that holds the dependencies and is closed under them.     *)
Ancestors ==
    [j \in Jobs |-> {k \in Jobs : \A S \in SUBSET Jobs :
        (Deps[j] \subseteq S /\ \A i \in S : Deps[i] \subseteq S) => k \in S}]

(* input_projection: the handoffs a job receives.                          *)
Projection(j, up) ==
    [k \in Jobs |-> IF k \in Ancestors[j] \cap Propagating THEN up[k] ELSE 0]

(***************************************************************************)
(* Admission of an accepted handoff (ResumePlanner._accepted).             *)
(***************************************************************************)
(* Mutation: forced_by_repair looks at no decision.                        *)
ForcedByNoRepair(j, r) == repair # 0 /\ ordered[j] = NoDecision /\ r.rep # repair

(* The admitted repair wants a fresh attempt of this job.                  *)
ForcedByRepair(j, r) == repair # 0 /\ ordered[j] # "REUSE" /\ r.rep # repair

(* Mutation: the upstream handoffs are not compared.                       *)
AdmissibleAnyInput(j, f, up) ==
    LET r == rec[j][latest[j]] IN
    /\ j \notin Live
    /\ latest[j] # 0
    /\ ~ForcedByRepair(j, r)
    /\ latest[j] = made[j]
    /\ up \in Hashes
    /\ r.rel = ident[j]
    /\ j \in TargetFree \/ r.snap = f
    /\ r.quality # "retry"

(* No reason to run the job again.  A newer attempt directory supersedes   *)
(* the accepted one, whatever became of it.                                *)
Admissible(j, f, up) ==
    LET r == rec[j][latest[j]] IN
    /\ j \notin Live
    /\ latest[j] # 0
    /\ ~ForcedByRepair(j, r)
    /\ latest[j] = made[j]
    /\ r.up = up
    /\ r.rel = ident[j]
    /\ j \in TargetFree \/ r.snap = f
    /\ r.quality # "retry"

(* Mutation: only what hands something on invalidates.                     *)
DirtyPropagating(ds, f) == {k \in Propagating : ds[k] \in {"INVALIDATE", "RUN"} \/ k = f}

(* Jobs that invalidate what depends on them: the forced one, the          *)
(* invalidated ones, and every propagating job that runs.                  *)
Dirty(ds, f) ==
    {k \in Jobs : \/ ds[k] = "INVALIDATE"
                  \/ ds[k] = "RUN" /\ (k = f \/ k \in Propagating)}

(* ResumePlanner.plan for one job, given the decisions before it.  A graph *)
(* forced from a job before the split invalidates everything after it.     *)
Decision(j, f, finger, ds, up) ==
    IF f = j THEN "RUN"
    ELSE IF \/ f \in 1..Split /\ j > Split
            \/ Ancestors[j] \cap Dirty(ds, f) # {}
         THEN "INVALIDATE"
         ELSE IF Admissible(j, finger, Projection(j, up)) THEN "REUSE" ELSE "RUN"

(***************************************************************************)
(* The stopped-worker gate (repair.stopped_reasons).                       *)
(***************************************************************************)
(* The attempts with a claim.json.                                         *)
Claims(j) == {a \in 1..made[j] : rec[j][a].quality # "bare"}
Claimed(d) == \E j \in Jobs : \E a \in Claims(j) : rec[j][a].by = d

(* Mutation: the gate reads the dispatches but not the worker records.     *)
BlockedDispatch(foreign) == foreign \in BOOLEAN /\ \E d \in Dispatches \ stopped : Claimed(d)

(* A live worker blocks; so does a dead one whose process identity cannot  *)
(* be checked from here, and a dispatch with a claim and no stop receipt.  *)
Blocked(foreign) ==
    \/ \E d \in Drivers, j \in Jobs :
          \/ worker[d][j] = "active"
          \/ worker[d][j] = "dead" /\ (d \in Container) # foreign
    \/ \E d \in Dispatches \ stopped : Claimed(d)

(* No driver at work, no worker record and no unverified dispatch but the  *)
(* driver's own.                                                           *)
Alone(d) ==
    /\ \A e \in Drivers \ {d} : pc[e] \notin {"plan", "run"}
    /\ \A e \in Drivers, j \in Jobs : worker[e][j] = "none"
    /\ \A e \in (Dispatches \ stopped) \ {d} : ~Claimed(e)

(* A worker record names the job as one it prepares an attempt of.         *)
Preparing(d, j) == st[d][j] \in {"prepared", "claimed"} /\ worker[d][j] # "none"

(* worker_scope: an attempt that replaces one with a status, or comes      *)
(* beside one in preparation, passes the gate; a first one needs none.     *)
Gate(d, j) ==
    (\E a \in Claims(j) : rec[j][a].quality # "claimed") \/ (\E e \in Drivers : Preparing(e, j))
        => ~Blocked(d \in Container)

(***************************************************************************)
(* Attempts, as every driver makes them (runner.py, launch.py).            *)
(***************************************************************************)
Snapshots(up) == {rec[k][up[k]].snap : k \in {i \in Jobs : up[i] # 0}} \ {0}

(* Mutation: only that the claim has an origin is checked.                 *)
TargetUnchecked(j, finger, up) == j \in TargetFree \ Metadata => Snapshots(up) # {}

(* resolve_evidence_target accepts the handoffs the claim names.           *)
TargetAgreed(j, finger, up) ==
    LET own == IF j \in TargetFree THEN {} ELSE {finger} IN
    /\ \A x, y \in Snapshots(up) \cup own : x = y
    /\ j \in TargetFree \ Metadata => Snapshots(up) # {}

Snapshot(j, finger, up) ==
    IF j \notin TargetFree THEN finger
    ELSE IF Snapshots(up) = {} THEN 0 ELSE CHOOSE x \in Snapshots(up) : TRUE

(* What the process puts into the claim.  No repair is admitted before it  *)
(* is written, as the worker record of its preparation is active.          *)
Claim(d, j, finger, up) ==
    [by |-> d, up |-> up, snap |-> Snapshot(j, finger, up), rel |-> 0,
     bind |-> boundId[j], rep |-> repair, quality |-> "bare"]

(* A driver gives up: the command raises and releases the lock, the graph  *)
(* one after GRAPH_FAILED; a dispatch has a failed op.                     *)
GiveUp(d, j) ==
    /\ st' = [st EXCEPT ![d][j] = "failed"]
    /\ pc' = IF d \notin Dispatches THEN [pc EXCEPT ![d] = "failed"] ELSE pc
    /\ lock' = IF lock = d THEN Free ELSE lock

Leave(d, j) == worker' = [worker EXCEPT ![d][j] = "none"]

(* begin_attempt: pass the gate, bind the release, make the directory.     *)
BeginAttempt(d, j, finger, up) ==
    /\ made[j] < MaxAttempt
    /\ bound = deployed
    /\ Gate(d, j)
    /\ made' = [made EXCEPT ![j] = @ + 1]
    /\ rec' = [rec EXCEPT ![j][made[j] + 1] = Claim(d, j, finger, up)]
    /\ at' = [at EXCEPT ![d][j] = made[j] + 1]
    /\ st' = [st EXCEPT ![d][j] = "prepared"]
    /\ worker' = [worker EXCEPT ![d][j] = "active"]
    /\ UNCHANGED <<accepted, latest, pc, lock, dec, gaps, refused>>

(* Mutation: the driver waits at the gate instead of being refused.        *)
RefuseAttemptLater(d, j) ==
    /\ Gate(d, j) /\ bound # deployed
    /\ GiveUp(d, j)
    /\ UNCHANGED <<files, worker, dec, at, gaps, refused>>

(* The gate or the release binding refuses the attempt.                    *)
RefuseAttempt(d, j) ==
    /\ ~Gate(d, j) \/ bound # deployed
    /\ GiveUp(d, j)
    /\ refused' = IF bound = deployed /\ Alone(d) THEN refused \cup {d} ELSE refused
    /\ UNCHANGED <<files, worker, dec, at, gaps>>

(* The inputs cannot be read: a directory without a claim is left.         *)
AbandonAttempt(d, j) ==
    /\ pc[d] = "run" /\ st[d][j] = "prepared"
    /\ GiveUp(d, j) /\ Leave(d, j)
    /\ UNCHANGED <<files, target, release, stopped, local, dec, at, gaps, refused>>

(* The claim, with the identities of the release deployed by now.  One     *)
(* whose handoffs disagree on the target leaves a failed attempt.          *)
WriteClaim(d, j) ==
    LET a == at[d][j]
        agreed == TargetAgreed(j, rec[j][a].snap, rec[j][a].up) IN
    /\ pc[d] = "run" /\ st[d][j] = "prepared"
    /\ rec' = [rec EXCEPT ![j][a].rel = ident[j],
                          ![j][a].quality = IF agreed THEN "claimed" ELSE "clean"]
    /\ \/ agreed /\ st' = [st EXCEPT ![d][j] = "claimed"] /\ UNCHANGED <<pc, lock, worker>>
       \/ ~agreed /\ GiveUp(d, j) /\ Leave(d, j)
    /\ UNCHANGED <<made, accepted, latest, target, release, stopped, local, dec, at, gaps, refused>>

Current(d, j) == rec[j][at[d][j]].rel = ident[j]

(* The claim is of the deployed release; the status says RUNNING.          *)
StartAttempt(d, j) ==
    /\ pc[d] = "run" /\ st[d][j] = "claimed" /\ Current(d, j)
    /\ rec' = [rec EXCEPT ![j][at[d][j]].quality = "clean"]
    /\ st' = [st EXCEPT ![d][j] = "begun"]
    /\ Leave(d, j)
    /\ UNCHANGED <<made, accepted, latest, target, release, lock, stopped, pc, local, dec, at,
                   gaps, refused>>

(* A unit runs inside a worker scope; _context_from_claim first checks the *)
(* claim against the deployed release.                                     *)
EnterUnit(d, j) ==
    /\ pc[d] = "run" /\ st[d][j] = "begun" /\ Current(d, j)
    /\ st' = [st EXCEPT ![d][j] = "unit"]
    /\ worker' = [worker EXCEPT ![d][j] = "active"]
    /\ UNCHANGED <<files, target, release, lock, stopped, pc, local, dec, at, gaps, refused>>

LeaveUnit(d, j) ==
    /\ pc[d] = "run" /\ st[d][j] = "unit"
    /\ Leave(d, j)
    /\ \/ st' = [st EXCEPT ![d][j] = "executed"] /\ UNCHANGED <<pc, lock>>
       \/ GiveUp(d, j)
    /\ UNCHANGED <<files, target, release, stopped, local, dec, at, gaps, refused>>

(* validate_claim_release: the claim was written under the release it      *)
(* names.                                                                  *)
Measured(j, a) == rec[j][a].rel = rec[j][a].bind

(* The release changed under the attempt or, at publication, under its     *)
(* preparation.                                                            *)
RaiseChanged(d, j) ==
    /\ pc[d] = "run"
    /\ \/ st[d][j] \in {"claimed", "begun", "executed"} /\ ~Current(d, j)
       \/ st[d][j] = "executed" /\ ~Measured(j, at[d][j])
    /\ GiveUp(d, j) /\ Leave(d, j)
    /\ UNCHANGED <<files, target, release, stopped, local, dec, at, gaps, refused>>

(* finalize_attempt publishes the handoff and moves latest.json.           *)
Finalize(d, j, q) ==
    /\ pc[d] = "run" /\ st[d][j] = "executed" /\ Current(d, j) /\ Measured(j, at[d][j])
    /\ rec' = [rec EXCEPT ![j][at[d][j]].quality = q]
    /\ accepted' = [accepted EXCEPT ![j] = @ \cup {at[d][j]}]
    /\ latest' = [latest EXCEPT ![j] = at[d][j]]
    /\ st' = [st EXCEPT ![d][j] = "done"]
    /\ gaps' = IF q = "clean" THEN gaps ELSE gaps \cup {d}
    /\ UNCHANGED <<made, target, release, lock, worker, stopped, pc, local, dec, at, refused>>

(***************************************************************************)
(* GraphRunner._run.                                                       *)
(***************************************************************************)
(* Takes the lock, refuses a run with unstopped workers, binds the         *)
(* release.  The fingerprint is taken here unless it is deferred.          *)
StartGraph(g, f) ==
    /\ pc[g] = "idle" /\ lock = Free /\ bound = deployed
    /\ (\E j \in Jobs : made[j] > 0) => ~Blocked(g \in Container)
    /\ lock' = g
    /\ pc' = [pc EXCEPT ![g] = "plan"]
    /\ force' = [force EXCEPT ![g] = f]
    /\ fp' = [fp EXCEPT ![g] = IF Split = 0 THEN target ELSE 0]
    /\ since' = [since EXCEPT ![g] = repair]
    /\ UNCHANGED <<files, target, release, worker, stopped, dec, st, at, gaps, refused>>

Planned(g) == {j \in Jobs : dec[g][j] # NoDecision}
Finished(d) == {j \in Jobs : st[d][j] = "done"}

(* The jobs one call of plan decides: up to the split, then all.           *)
Planning(g) == IF 1..Split \subseteq Finished(g) THEN Jobs ELSE 1..Split

Reused(g) ==
    [k \in Jobs |-> IF k \in Propagating /\ dec[g][k] = "REUSE" THEN at[g][k] ELSE 0]

(* One iteration of ResumePlanner.plan.                                    *)
PlanJob(g, j) ==
    /\ pc[g] = "plan"
    /\ j \in Planning(g) \ Planned(g)
    /\ 1..(j - 1) \subseteq Planned(g)
    /\ LET action == Decision(j, force[g], fp[g], dec[g], Reused(g)) IN
       /\ dec' = [dec EXCEPT ![g][j] = action]
       /\ at' = [at EXCEPT ![g][j] = IF action = "REUSE" THEN latest[j] ELSE 0]
       /\ pc' = IF Planning(g) \subseteq Planned(g) \cup {j}
                THEN [pc EXCEPT ![g] = "run"] ELSE pc
    /\ UNCHANGED <<files, target, release, lock, worker, stopped, local, st, gaps, refused>>

(* The handoffs of the jobs done so far.                                   *)
Upstream(d) ==
    [k \in Jobs |-> IF k \in Propagating /\ st[d][k] = "done" THEN at[d][k] ELSE 0]

(* The job whose turn it is.                                               *)
Turn(g, j) ==
    /\ pc[g] = "run" /\ st[g][j] = "todo" /\ dec[g][j] # NoDecision
    /\ 1..(j - 1) \subseteq Finished(g)

(* A reused job: the decision's handoff, and the completion status of      *)
(* whatever latest.json names now.                                         *)
ReuseJob(g, j) ==
    /\ Turn(g, j) /\ dec[g][j] = "REUSE"
    /\ st' = [st EXCEPT ![g][j] = "done"]
    /\ gaps' = IF rec[j][latest[j]].quality = "clean" THEN gaps ELSE gaps \cup {g}
    /\ UNCHANGED <<files, target, release, lock, worker, stopped, pc, local, dec, at, refused>>

RunJob(g, j) ==
    /\ Turn(g, j) /\ dec[g][j] # "REUSE"
    /\ \/ BeginAttempt(g, j, fp[g], Projection(j, Upstream(g)))
       \/ RefuseAttempt(g, j)
    /\ UNCHANGED <<target, release, stopped, local>>

(* After the acquisition gate: bind the target, plan the rest.             *)
FingerprintTarget(g) ==
    /\ pc[g] = "run" /\ Split > 0
    /\ Finished(g) = 1..Split /\ Planned(g) = 1..Split
    /\ pc' = [pc EXCEPT ![g] = "plan"]
    /\ fp' = [fp EXCEPT ![g] = target]
    /\ UNCHANGED <<files, target, release, lock, worker, stopped, force, since,
                   dec, st, at, gaps, refused>>

(* GRAPH_SUCCEEDED or GRAPH_COMPLETED_WITH_GAPS, and the receipt.          *)
CompleteGraph(g) ==
    /\ pc[g] = "run" /\ Finished(g) = Jobs
    /\ pc' = [pc EXCEPT ![g] = "done"]
    /\ lock' = Free
    /\ UNCHANGED <<files, target, release, worker, stopped, local, dec, st, at, gaps, refused>>

(***************************************************************************)
(* A Dagster dispatch: one op per job, started when its dependencies are   *)
(* done, each with the fingerprint of the target at that moment.           *)
(***************************************************************************)
StartDispatch(d, f) ==
    /\ pc[d] = "idle"
    /\ pc' = [pc EXCEPT ![d] = "run"]
    /\ force' = [force EXCEPT ![d] = f]
    /\ since' = [since EXCEPT ![d] = repair]
    /\ UNCHANGED <<files, target, release, lock, worker, stopped, fp, dec, st, at, gaps, refused>>

Ready(d, j) ==
    /\ d \in Dispatches /\ pc[d] = "run" /\ st[d][j] = "todo"
    /\ Deps[j] \subseteq Finished(d)

(* The merge of what the finalize ops of the dependencies passed on: the   *)
(* handoffs each received and, if it propagates, its own.                  *)
Received(d, j) ==
    [k \in Jobs |->
        IF k \in Deps[j] \cap Propagating THEN at[d][k]
        ELSE LET from == {i \in Deps[j] : rec[i][at[d][i]].up[k] # 0} IN
             IF from = {} THEN 0 ELSE rec[CHOOSE i \in from : TRUE]
                                         [at[d][CHOOSE i \in from : TRUE]].up[k]]

(* force_selected: the forced job and what depends on it.                  *)
ForceSelected(d, j) == force[d] # 0 /\ force[d] \in {j} \cup Ancestors[j]

(* launch.begin: reuse the accepted attempt or claim a fresh one.  The     *)
(* units and finalize of a reused claim change nothing.                    *)
ReuseOp(d, j) ==
    /\ Ready(d, j) /\ ~ForceSelected(d, j)
    /\ bound = deployed
    /\ Admissible(j, target, Received(d, j))
    /\ at' = [at EXCEPT ![d][j] = latest[j]]
    /\ st' = [st EXCEPT ![d][j] = "done"]
    /\ gaps' = IF rec[j][latest[j]].quality = "clean" THEN gaps ELSE gaps \cup {d}
    /\ UNCHANGED <<files, target, release, lock, worker, stopped, pc, local, dec, refused>>

BeginOp(d, j) ==
    /\ Ready(d, j)
    /\ ForceSelected(d, j) \/ bound # deployed \/ ~Admissible(j, target, Received(d, j))
    /\ \/ BeginAttempt(d, j, target, Received(d, j))
       \/ RefuseAttempt(d, j)
    /\ UNCHANGED <<target, release, stopped, local>>

CompleteDispatch(d) ==
    /\ pc[d] = "run" /\ Finished(d) = Jobs
    /\ pc' = [pc EXCEPT ![d] = "done"]
    /\ UNCHANGED <<files, target, release, lock, worker, stopped, local, dec, st, at, gaps, refused>>

(* An op failed and no other op of the dispatch can run.                   *)
FailDispatch(d) ==
    /\ pc[d] = "run"
    /\ \E j \in Jobs : st[d][j] = "failed"
    /\ \A j \in Jobs : st[d][j] \in {"todo", "done", "failed"} /\ ~Ready(d, j)
    /\ pc' = [pc EXCEPT ![d] = "failed"]
    /\ UNCHANGED <<files, target, release, lock, worker, stopped, local, dec, st, at, gaps, refused>>

(* verify_dispatch_stop: the run is terminal and its worker is gone.       *)
VerifyStop(d) ==
    /\ pc[d] \in {"done", "failed"} /\ d \notin stopped
    /\ stopped' = stopped \cup {d}
    /\ UNCHANGED <<files, target, release, lock, worker, pc, local, dec, st, at, gaps, refused>>

(***************************************************************************)
(* appsec-review run JOB: one job, outside the graph and without its lock. *)
(***************************************************************************)
(* The handoffs the run has accepted for the jobs the graph would hand     *)
(* over (accepted_upstream_handoffs), or none without --upstream-from-run. *)
LaunchInputs(j) ==
    {[k \in Jobs |-> 0]} \cup
    (IF \A k \in Ancestors[j] \cap Propagating : latest[k] # 0
     THEN {Projection(j, latest)} ELSE {})

(* The process reads its upstream handoffs; at[l] holds them until the     *)
(* claim names them.                                                       *)
StartLaunch(l, j, up) ==
    /\ pc[l] = "idle"
    /\ pc' = [pc EXCEPT ![l] = "run"]
    /\ dec' = [dec EXCEPT ![l][j] = "RUN"]
    /\ at' = [at EXCEPT ![l] = up]
    /\ fp' = [fp EXCEPT ![l] = target]
    /\ since' = [since EXCEPT ![l] = repair]
    /\ UNCHANGED <<files, target, release, lock, worker, stopped, force, st, gaps, refused>>

Launching(l, j) ==
    l \in Launches /\ pc[l] = "run" /\ dec[l][j] = "RUN" /\ st[l][j] = "todo"

LaunchReuse(l, j) ==
    /\ Launching(l, j)
    /\ bound = deployed
    /\ Admissible(j, fp[l], Projection(j, at[l]))
    /\ st' = [st EXCEPT ![l][j] = "done"]
    /\ at' = [at EXCEPT ![l][j] = latest[j]]
    /\ UNCHANGED <<files, target, release, lock, worker, stopped, pc, local, dec, gaps, refused>>

LaunchJob(l, j) ==
    /\ Launching(l, j)
    /\ bound # deployed \/ ~Admissible(j, fp[l], Projection(j, at[l]))
    /\ \/ BeginAttempt(l, j, fp[l], Projection(j, at[l]))
       \/ RefuseAttempt(l, j)
    /\ UNCHANGED <<target, release, stopped, local>>

CompleteLaunch(l) ==
    /\ pc[l] = "run" /\ Finished(l) # {}
    /\ pc' = [pc EXCEPT ![l] = "done"]
    /\ UNCHANGED <<files, target, release, lock, worker, stopped, local, dec, st, at, gaps, refused>>

(***************************************************************************)
(* The operator: target and release change, repairs are admitted.          *)
(***************************************************************************)
ChangeTarget ==
    /\ target < MaxTarget
    /\ target' = target + 1
    /\ UNCHANGED <<files, release, lock, worker, stopped, pc, local, dec, st, at, gaps, refused>>

(* A new release gives the jobs whose sources changed a new identity.      *)
Deploy(changed) ==
    /\ deployed < MaxRelease
    /\ deployed' = deployed + 1
    /\ ident' = [j \in Jobs |-> IF j \in changed THEN deployed + 1 ELSE ident[j]]
    /\ UNCHANGED <<files, target, bound, boundId, repair, ordered, lock, worker, stopped,
                   pc, local, dec, st, at, gaps, refused>>

(* What plan_repair decides: the decisions that follow from each other.    *)
IsPlan(ds, f) ==
    \A j \in Jobs :
        ds[j] = Decision(j, f, target, ds,
                         [k \in Jobs |-> IF k \in Propagating /\ ds[k] = "REUSE"
                                         THEN latest[k] ELSE 0])

(* admit_repair, under both locks: the plan is derived again, workers must *)
(* have stopped, the last claims must be of this target.  current.json is  *)
(* the commit point.                                                       *)
AdmitRepair(f) ==
    /\ repair < MaxRepair
    /\ lock = Free
    /\ ~Blocked(FALSE)
    /\ \A j \in Jobs \ TargetFree : \A a \in Claims(j) :
          Claims(j) \subseteq 1..a => rec[j][a].snap = target
    /\ \E ds \in [Jobs -> Decisions] : IsPlan(ds, f) /\ ordered' = ds
    /\ repair' = repair + 1
    /\ bound' = deployed /\ boundId' = ident
    /\ UNCHANGED <<files, target, deployed, ident, lock, worker, stopped, pc, local,
                   dec, st, at, gaps, refused>>

(* A driver dies: its worker records stay ACTIVE, the kernel drops its     *)
(* lock, Dagster marks the dispatch failed.                                *)
Crash(d) ==
    /\ Faults /\ pc[d] \in {"plan", "run"}
    /\ pc' = [pc EXCEPT ![d] = "failed"]
    /\ lock' = IF lock = d THEN Free ELSE lock
    /\ worker' = [worker EXCEPT ![d] =
                    [j \in Jobs |-> IF @[j] = "active" THEN "dead" ELSE @[j]]]
    /\ UNCHANGED <<files, target, release, stopped, local, dec, st, at, gaps, refused>>

Attempt(d, j) ==
    \/ AbandonAttempt(d, j) \/ WriteClaim(d, j) \/ StartAttempt(d, j)
    \/ EnterUnit(d, j) \/ LeaveUnit(d, j) \/ RaiseChanged(d, j)
    \/ \E q \in Qualities : Finalize(d, j, q)

GraphStep(g) ==
    \/ \E j \in Jobs : PlanJob(g, j) \/ ReuseJob(g, j) \/ RunJob(g, j) \/ Attempt(g, j)
    \/ FingerprintTarget(g) \/ CompleteGraph(g)

DispatchStep(d) ==
    \/ \E j \in Jobs : ReuseOp(d, j) \/ BeginOp(d, j) \/ Attempt(d, j)
    \/ CompleteDispatch(d) \/ FailDispatch(d)

LaunchStep(l) ==
    \/ \E j \in Jobs : LaunchReuse(l, j) \/ LaunchJob(l, j) \/ Attempt(l, j)
    \/ CompleteLaunch(l)

Next ==
    \/ \E g \in Graphs : GraphStep(g) \/ \E f \in Forces : StartGraph(g, f)
    \/ \E d \in Dispatches :
          DispatchStep(d) \/ VerifyStop(d) \/ \E f \in Forces : StartDispatch(d, f)
    \/ \E l \in Launches :
          LaunchStep(l) \/ \E j \in Jobs : \E up \in LaunchInputs(j) : StartLaunch(l, j, up)
    \/ \E d \in Drivers : Crash(d)
    \/ ChangeTarget
    \/ \E S \in Changes : Deploy(S)
    \/ \E f \in Forces : AdmitRepair(f)

Spec == Init /\ [][Next]_vars

(* A driver that has started goes on: its process runs its loop, and a     *)
(* unit ends, because its tools run under time limits.  Nothing obliges    *)
(* anyone to start one.                                                    *)
FairSpec ==
    /\ Spec
    /\ \A g \in Graphs : WF_vars(GraphStep(g))
    /\ \A d \in Dispatches : WF_vars(DispatchStep(d))
    /\ \A l \in Launches : WF_vars(LaunchStep(l))

(***************************************************************************)
(* Properties.                                                             *)
(***************************************************************************)
(* What a completed graph published fits together: each job's handoff was  *)
(* made from exactly the handoffs of its propagating ancestors that the    *)
(* same graph completed with (the handoff_sha256 map of the orchestration  *)
(* receipt), whether they ran or were reused, and whatever other drivers   *)
(* published in between.                                                   *)
CompletedConsistent ==
    \A d \in Graphs \cup Dispatches : pc[d] = "done" => \A j \in Jobs :
        /\ at[d][j] \in accepted[j]
        /\ rec[j][at[d][j]].up = Projection(j, at[d])

(* A completed graph is about one state of the target: every job agrees    *)
(* with its propagating ancestors on the target snapshot, although the     *)
(* checkout may change while the jobs run.                                 *)
OneTarget ==
    \A d \in Graphs \cup Dispatches : pc[d] = "done" =>
        \A j \in Jobs : \A k \in Ancestors[j] \cap Propagating :
            rec[k][at[d][k]].snap \in {0, rec[j][at[d][j]].snap}

(* A forced graph that completed made the forced job and everything that   *)
(* depends on it afresh: none of them is an attempt of another driver.     *)
ForcedFresh ==
    \A d \in Graphs \cup Dispatches : pc[d] = "done" => \A j \in Jobs :
        (force[d] # 0 /\ force[d] \in {j} \cup Ancestors[j]) => rec[j][at[d][j]].by = d

(* A driver that started under the admitted repair completes with handoffs *)
(* of the repaired implementation only, and with fresh attempts of the     *)
(* jobs the repair did not leave as they were, even if an attempt claimed  *)
(* before the repair was published after it.                               *)
RepairHonoured ==
    \A d \in Graphs \cup Dispatches : pc[d] = "done" /\ since[d] = repair => \A j \in Jobs :
        /\ rec[j][at[d][j]].rel = boundId[j]
        /\ repair # 0 /\ ordered[j] # "REUSE" => rec[j][at[d][j]].rep = repair

(* No unit executes an implementation older than the one the run is bound  *)
(* to: a repair is never admitted beside a worker of a job it changes, and *)
(* a claim it made stale starts no worker.  A newer implementation runs    *)
(* only for a claim that a deployment split from the release the claim     *)
(* names; such an attempt is refused when it would be published.           *)
WorkersCurrent ==
    \A d \in Drivers, j \in Jobs : worker[d][j] = "active" /\ st[d][j] = "unit" =>
        LET r == rec[j][at[d][j]] IN
        r.rel = boundId[j] \/ (r.rel > boundId[j] /\ r.rel # r.bind)

(* A started driver ends: it completes, or fails and gives its lock back.  *)
DriversEnd ==
    \A d \in Drivers :
        pc[d] \in {"plan", "run"} ~> pc[d] \in {"done", "failed"} /\ lock # d

(* docs/operations/recovery-repair.md: "COMPLETED_WITH_GAPS survives warm  *)
(* reuse": a completed graph that reuses a job with gaps reports gaps.     *)
GapsSurviveReuse ==
    \A d \in Graphs \cup Dispatches :
        (pc[d] = "done" /\ \E j \in Jobs : rec[j][at[d][j]].quality # "clean") => d \in gaps

(* docs/operations/recovery-repair.md: "Dagster also accepts the           *)
(* appsec/force_from tag for every job in its enabled graph": a forced     *)
(* dispatch that finds every other driver ended, and its workers stopped   *)
(* and verified, is not refused the attempts it is forced to make.         *)
ForcedDispatchAdmitted ==
    \A d \in Dispatches : force[d] # 0 => d \notin refused
=============================================================================
