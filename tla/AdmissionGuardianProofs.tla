----------------------- MODULE AdmissionGuardianProofs -----------------------
(***************************************************************************)
(* Proofs about AdmissionGuardian, for any clients, launchers and bound on *)
(* failing writes.                                                         *)
(*                                                                         *)
(* The argument rests on the order of the socket's queue: a client sends   *)
(* its next request only after an answer or after it gave up, and requests *)
(* are served in order, so the answer a client reads is the one to its     *)
(* current request, and then nothing older of it is left to be served.     *)
(***************************************************************************)
EXTENDS AdmissionGuardian, TLAPS

(* The requests a client at some step may have left unanswered.            *)
Outstanding(step) ==
    CASE step \in {"admit", "precheck", "process", "poll", "finishOk"} -> {step}
      [] step \in {"kill", "returned"} -> {"poll"}
      [] step = "abort" -> {"process"}
      [] step \in {"final", "failure"} -> {"poll", step}
      [] step = "finishBad" -> Requests \ {"admit", "finishOk"}
      [] step \in {"failed", "crashed"} -> Requests
      [] OTHER -> {}

Busy == thread.at \in {"reply", "failing"} /\ thread.client # None

(* Requests are queued in the order they were made; once the current one   *)
(* is taken from the queue or answered, no other of the client is left.    *)
Queued ==
    /\ \A i \in DOMAIN inbox : inbox[i][2] \in Outstanding(pc[inbox[i][1]])
    /\ \A i, j \in DOMAIN inbox :
         (i < j /\ inbox[i][1] = inbox[j][1]) => inbox[i][2] # pc[inbox[i][1]]
    /\ \A i \in DOMAIN inbox : answer[inbox[i][1]] = "none"

Taken == Busy =>
    /\ thread.client \in Clients /\ thread.request \in Requests
    /\ thread.request \in Outstanding(pc[thread.client])
    /\ answer[thread.client] = "none"
    /\ thread.request = pc[thread.client] =>
         \A i \in DOMAIN inbox : inbox[i][1] # thread.client

(* Only a client that waits has an answer.                                 *)
Answered == \A c \in Clients : answer[c] # "none" => pc[c] \in Requests

(* A permit is open in memory and on disk.                                 *)
Held(c) == state.active[c] # "none" /\ journal.active[c] # "none"
Released(c) == state.active[c] = "none" /\ journal.active[c] = "none"

Replied(c, request) ==
    /\ pc[c] = request
    /\ \/ answer[c] = "ok"
       \/ thread.at = "reply" /\ thread.client = c /\ thread.request = request /\ thread.ok

UnderPermit == {"body", "precheck", "spawn", "process", "poll", "running", "kill", "abort",
                "returned", "final", "failure", "finishBad"}

(* A client works under its permit until it is finished.                   *)
PermitHeld == \A c \in Clients :
    /\ pc[c] \in UnderPermit => Held(c)
    /\ Replied(c, "admit") => Held(c)
    /\ proc[c] # "none" =>
         /\ Held(c)
         /\ pc[c] \in {"process", "poll", "running", "kill", "abort", "finishBad", "failed", "crashed"}
         /\ \A i \in DOMAIN inbox : inbox[i] # <<c, "finishOk">>

PermitReleased == \A c \in Clients :
    (Replied(c, "finishOk") \/ pc[c] = "done") => Released(c)

(* The gate.                                                               *)
GateOpen == ~stopped =>
    /\ state.first = None /\ journal.first = None
    /\ thread.at \notin {"stop", "cancel"}
    /\ \A c \in seen : pc[c] = "done"

ErrorKept == journal.first # None => state.first = journal.first

CancelOnce ==
    /\ ~requested => terminated = 0
    /\ thread.at = "cancel" => requested /\ terminated = 0
    /\ terminated <= 1

(* The executor leaves the run without an exception only when every step   *)
(* has succeeded: after that only the guardian itself can fail.            *)
LastSteps ==
    /\ exec \in {"exit", "join", "completed"} =>
         /\ \A c \in Clients : pc[c] = "done"
         /\ state.first \in {None, Controller} /\ journal.first \in {None, Controller}
    /\ exec = "completed" =>
         /\ thread.at = "ended"
         /\ journal.status = IF stopped THEN "STOPPED" ELSE "COMPLETED"
    /\ (state.status = "COMPLETED" \/ journal.status = "COMPLETED") =>
         /\ exec \in {"completed", "broken"} /\ thread.at = "ended"
         /\ ~stopped /\ \A c \in Clients : pc[c] = "done"

Inv ==
    /\ TypeOK /\ Queued /\ Taken /\ Answered /\ PermitHeld /\ PermitReleased
    /\ GateOpen /\ ErrorKept /\ CancelOnce /\ LastSteps

-----------------------------------------------------------------------------
(* The guardian's records. *)

LEMMA FailedByFacts ==
    ASSUME NEW s \in States, NEW cause \in Clients \cup {Controller}
    PROVE  /\ FailedBy(s, cause) \in States
           /\ FailedBy(s, cause).active = s.active
           /\ FailedBy(s, cause).status = "STOPPED"
           /\ s.first # None => FailedBy(s, cause).first = s.first
           /\ FailedBy(s, cause).first \in {s.first, cause}
  BY DEF FailedBy, States

LEMMA OutstandingFacts ==
    /\ \A step \in ClientSteps : Outstanding(step) \subseteq Requests
    /\ \A r \in Requests : r \in Outstanding(r)
  BY DEF Outstanding, ClientSteps, Requests, Ended

(* The journal is the old one or a copy of the new state.                  *)
Copied == journal' \in {journal, state'}

(* A write of the journal, successful or not, leaves it typed.             *)
LEMMA CopiedFacts ==
    ASSUME TypeOK, Persisted \/ PersistFails, state' \in States
    PROVE  Copied /\ journal' \in States /\ faults' \in 0..MaxFaults
  BY FaultsAssumption DEF TypeOK, Persisted, PersistFails, Copied

LEMMA InboxFacts ==
    ASSUME TypeOK, NEW i \in DOMAIN inbox
    PROVE  /\ inbox[i] = <<inbox[i][1], inbox[i][2]>>
           /\ inbox[i][1] \in Clients
           /\ inbox[i][2] \in Requests
<1>1. inbox[i] \in Clients \X Requests  BY DEF TypeOK
<1> QED  BY <1>1

(* The queue is emptied, shortened or extended at its ends.                *)
LEMMA AppendFacts ==
    ASSUME TypeOK, NEW e \in Clients \X Requests
    PROVE  /\ Append(inbox, e) \in Seq(Clients \X Requests)
           /\ DOMAIN Append(inbox, e) = DOMAIN inbox \cup {Len(inbox) + 1}
           /\ \A i \in DOMAIN inbox : i < Len(inbox) + 1 /\ Append(inbox, e)[i] = inbox[i]
           /\ Append(inbox, e)[Len(inbox) + 1] = e
  BY DEF TypeOK

LEMMA TailFacts ==
    ASSUME TypeOK, inbox # <<>>
    PROVE  /\ Tail(inbox) \in Seq(Clients \X Requests)
           /\ 1 \in DOMAIN inbox /\ Head(inbox) = inbox[1]
           /\ \A i \in DOMAIN Tail(inbox) :
                /\ i + 1 \in DOMAIN inbox /\ 1 < i + 1
                /\ Tail(inbox)[i] = inbox[i + 1]
           /\ DOMAIN Tail(inbox) \subseteq Nat
  BY DEF TypeOK

-----------------------------------------------------------------------------
(* The clients. *)

(* No request of the client is in the queue or with the thread.            *)
NoneLeft(c) ==
    /\ \A i \in DOMAIN inbox : inbox[i][1] # c
    /\ ~(Busy /\ thread.client = c)

(* A client that got an answer has no request left.                        *)
LEMMA AnsweredNoneLeft ==
    ASSUME Inv, NEW c \in Clients, answer[c] # "none" \/ Outstanding(pc[c]) = {}
    PROVE  NoneLeft(c)
  BY DEF Inv, Queued, Taken, NoneLeft

Running == {"process", "poll", "running", "kill", "abort", "finishBad", "failed", "crashed"}

(* Every step of an operation goes from one of the client's steps to       *)
(* another, and leaves the guardian and the executor alone.                *)
LEMMA ClientMoves ==
    ASSUME Inv, NEW c \in Clients, NEW step \in ClientSteps, Goto(c, step),
           UNCHANGED <<guardianVars, executorVars>>, pc[c] \notin Ended,
           \/ NoneLeft(c)
           \/ Outstanding(pc[c]) \subseteq Outstanding(step) /\ step \notin Outstanding(pc[c]),
           step \in UnderPermit => Held(c),
           step = "done" => Released(c),
           NEW x \in {"none", "running", "stray"}, proc' = [proc EXCEPT ![c] = x],
           x # "none" => /\ Held(c)
                         /\ step \in Running
                         /\ \A i \in DOMAIN inbox : inbox[i] # <<c, "finishOk">>
    PROVE  Inv'
<1>0. TypeOK  BY DEF Inv
<1>1. /\ pc'[c] = step /\ answer'[c] = "none" /\ proc'[c] = x
      /\ \A d \in Clients : d # c => pc'[d] = pc[d] /\ answer'[d] = answer[d] /\ proc'[d] = proc[d]
  BY <1>0 DEF TypeOK, Goto
<1>2. UNCHANGED <<stopped, state, journal, faults, closed, thread, exec, seen, requested, terminated>>
  BY DEF guardianVars, executorVars
<1>3. \/ inbox' = inbox
      \/ step \in Requests /\ inbox' = Append(inbox, <<c, step>>)
  BY DEF Goto
<1>4. TypeOK'
  <2>1. inbox' \in Seq(Clients \X Requests)
    <3>1. CASE inbox' = inbox  BY <1>0, <3>1 DEF TypeOK
    <3>2. CASE step \in Requests /\ inbox' = Append(inbox, <<c, step>>)
      <4>1. <<c, step>> \in Clients \X Requests  BY <3>2
      <4> QED  BY <1>0, <3>2, <4>1, AppendFacts
    <3> QED  BY <1>3, <3>1, <3>2
  <2> QED  BY <1>0, <1>2, <2>1 DEF TypeOK, Goto
<1>5. ASSUME NEW i \in DOMAIN inbox, inbox[i][1] = c
      PROVE  inbox[i][2] \in Outstanding(step) /\ inbox[i][2] # step
  BY <1>5 DEF NoneLeft, Inv, Queued
<1>6. Queued'
  <2>1. ASSUME NEW i \in DOMAIN inbox PROVE inbox[i][2] \in Outstanding(pc'[inbox[i][1]])
    BY <1>0, <1>1, <1>5, InboxFacts DEF Inv, Queued
  <2>2. ASSUME NEW i \in DOMAIN inbox, NEW j \in DOMAIN inbox, i < j, inbox[i][1] = inbox[j][1]
        PROVE  inbox[i][2] # pc'[inbox[i][1]]
    BY <1>0, <1>1, <1>5, <2>2, InboxFacts DEF Inv, Queued
  <2>3. ASSUME NEW i \in DOMAIN inbox PROVE answer'[inbox[i][1]] = "none"
    BY <1>0, <1>1, InboxFacts DEF Inv, Queued
  <2>4. CASE inbox' = inbox  BY <2>1, <2>2, <2>3, <2>4 DEF Queued
  <2>5. CASE step \in Requests /\ inbox' = Append(inbox, <<c, step>>)
    <3>1. /\ DOMAIN inbox' = DOMAIN inbox \cup {Len(inbox) + 1}
          /\ \A i \in DOMAIN inbox : i < Len(inbox) + 1 /\ inbox'[i] = inbox[i]
          /\ inbox'[Len(inbox) + 1] = <<c, step>>
      BY <1>0, <2>5, AppendFacts
    <3>2. \A i \in DOMAIN inbox' : inbox'[i][2] \in Outstanding(pc'[inbox'[i][1]])
      BY <1>1, <2>1, <2>5, <3>1, OutstandingFacts
    <3>3. ASSUME NEW i \in DOMAIN inbox', NEW j \in DOMAIN inbox', i < j,
                 inbox'[i][1] = inbox'[j][1]
          PROVE  inbox'[i][2] # pc'[inbox'[i][1]]
      <4>1. i \in DOMAIN inbox
        <5>1. i \in Nat /\ j \in Nat /\ Len(inbox) \in Nat /\ DOMAIN inbox = 1..Len(inbox)
          BY <1>0, <3>1 DEF TypeOK
        <5> QED  BY <3>1, <3>3, <5>1
      <4>2. CASE j \in DOMAIN inbox  BY <2>2, <3>1, <3>3, <4>1, <4>2
      <4>3. CASE j = Len(inbox) + 1  BY <1>1, <1>5, <3>1, <3>3, <4>1, <4>3
      <4> QED  BY <3>1, <4>2, <4>3
    <3>4. \A i \in DOMAIN inbox' : answer'[inbox'[i][1]] = "none"
      BY <1>1, <2>3, <3>1
    <3> QED  BY <3>2, <3>3, <3>4 DEF Queued
  <2> QED  BY <1>3, <2>4, <2>5
<1>7. Taken'
  <2> SUFFICES ASSUME Busy
               PROVE  /\ thread.client \in Clients /\ thread.request \in Requests
                      /\ thread.request \in Outstanding(pc'[thread.client])
                      /\ answer'[thread.client] = "none"
                      /\ thread.request = pc'[thread.client] =>
                           \A i \in DOMAIN inbox' : inbox'[i][1] # thread.client
    BY <1>2 DEF Taken, Busy
  <2>1. CASE thread.client = c  BY <1>1, <2>1 DEF NoneLeft, Inv, Taken
  <2>2. CASE thread.client # c
    <3>1. thread.request = pc[thread.client] => \A i \in DOMAIN inbox' : inbox'[i][1] # thread.client
      BY <1>0, <1>3, <2>2, AppendFacts DEF Inv, Taken
    <3> QED  BY <1>1, <2>2, <3>1 DEF Inv, Taken
  <2> QED  BY <2>1, <2>2
<1>8. Answered'  BY <1>1 DEF Inv, Answered
<1>9. /\ \A d \in Clients : (Held(d)' <=> Held(d)) /\ (Released(d)' <=> Released(d))
      /\ \A d \in Clients \ {c} : \A r : Replied(d, r)' <=> Replied(d, r)
      /\ \A r \in Requests : ~Replied(c, r)'
  <2>1. \A d \in Clients : (Held(d)' <=> Held(d)) /\ (Released(d)' <=> Released(d))
    BY <1>2 DEF Held, Released
  <2>2. \A d \in Clients \ {c} : \A r : Replied(d, r)' <=> Replied(d, r)
    BY <1>1, <1>2 DEF Replied
  <2>3. \A r \in Requests : ~Replied(c, r)'
    BY <1>1, <1>2, ClientsAssumption DEF Replied, NoneLeft, Busy, Inv, Taken
  <2> QED  BY <2>1, <2>2, <2>3
<1>10. PermitHeld'
  <2>1. ASSUME NEW d \in Clients, NEW i \in DOMAIN inbox', inbox'[i] = <<d, "finishOk">>
        PROVE  \/ \E j \in DOMAIN inbox : inbox[j] = <<d, "finishOk">>
               \/ d = c /\ step = "finishOk"
    BY <1>0, <1>3, <2>1, AppendFacts
  <2>2. ASSUME NEW d \in Clients
        PROVE  /\ pc'[d] \in UnderPermit => Held(d)
               /\ ~Replied(d, "admit")' \/ Held(d)
               /\ proc'[d] # "none" => /\ Held(d) /\ pc'[d] \in Running
                                       /\ \A i \in DOMAIN inbox' : inbox'[i] # <<d, "finishOk">>
    <3>1. CASE d = c  BY <1>1, <1>9, <2>1, <3>1 DEF Requests, Running
    <3>2. CASE d # c  BY <1>1, <1>9, <2>1, <3>2 DEF Inv, PermitHeld, Running
    <3> QED  BY <3>1, <3>2
  <2> QED  BY <1>9, <2>2 DEF PermitHeld, Running
<1>11. PermitReleased'
  BY <1>1, <1>9 DEF Inv, PermitReleased, Requests
<1>12. GateOpen'
  BY <1>0, <1>1, <1>2 DEF Inv, GateOpen, Ended, TypeOK
<1>13. ErrorKept' /\ CancelOnce'
  BY <1>2 DEF Inv, ErrorKept, CancelOnce
<1>14. LastSteps'
  BY <1>1, <1>2 DEF Inv, LastSteps, Ended
<1> QED
  BY <1>4, <1>6, <1>7, <1>8, <1>10, <1>11, <1>12, <1>13, <1>14 DEF Inv

(* What the other hypotheses of ClientMoves come to when the process is    *)
(* left as it is.                                                          *)
LEMMA ClientKeeps ==
    ASSUME Inv, NEW c \in Clients, NEW step \in ClientSteps, Goto(c, step),
           UNCHANGED <<guardianVars, proc, executorVars>>, pc[c] \notin Ended,
           \/ NoneLeft(c)
           \/ Outstanding(pc[c]) \subseteq Outstanding(step) /\ step \notin Outstanding(pc[c]),
           step \in UnderPermit => Held(c),
           step = "done" => Released(c),
           proc[c] # "none" => step \in Running
    PROVE  Inv'
<1>1. proc[c] \in {"none", "running", "stray"} /\ proc' = [proc EXCEPT ![c] = proc[c]]
  BY DEF Inv, TypeOK
<1>2. proc[c] # "none" => Held(c) /\ \A i \in DOMAIN inbox : inbox[i] # <<c, "finishOk">>
  BY DEF Inv, PermitHeld
<1> QED  BY <1>1, <1>2, ClientMoves

LEMMA BeginInv ==
    ASSUME Inv, NEW c \in Clients, Begin(c)
    PROVE  Inv'
<1>1. NoneLeft(c)  BY AnsweredNoneLeft DEF Begin, Outstanding
<1>2. proc[c] = "none"  BY DEF Inv, PermitHeld, Begin, TypeOK
<1> QED
  BY <1>1, <1>2, ClientKeeps DEF Begin, ClientSteps, Requests, Ended, UnderPermit, guardianVars, executorVars

(* An answer is the one to the request the client waits for.               *)
LEMMA ReceiveInv ==
    ASSUME Inv, NEW c \in Clients, Receive(c)
    PROVE  Inv'
<1> DEFINE step == IF answer[c] = "ok" THEN Granted[pc[c]] ELSE Denied[pc[c]]
<1>1. NoneLeft(c) /\ Goto(c, step) /\ UNCHANGED <<guardianVars, proc, executorVars>>
  BY AnsweredNoneLeft DEF Receive
<1>2. pc[c] \in Requests /\ answer[c] \in {"none", "ok", "refused"}  BY DEF Receive, Inv, TypeOK
<1>3. step \in ClientSteps /\ pc[c] \notin Ended
  BY <1>2 DEF Granted, Denied, ClientSteps, Requests, Ended
<1>4. pc[c] \in UnderPermit => Held(c)  BY DEF Inv, PermitHeld
<1>5. answer[c] = "ok" /\ pc[c] = "admit" => Held(c)  BY DEF Inv, PermitHeld, Replied
<1>6. answer[c] = "ok" /\ pc[c] = "finishOk" => Released(c)  BY DEF Inv, PermitReleased, Replied
<1>7. step \in UnderPermit => Held(c)
  BY <1>2, <1>4, <1>5 DEF Granted, Denied, UnderPermit, Requests
<1>8. step = "done" => Released(c)
  BY <1>2, <1>6 DEF Granted, Denied, Requests
<1>9. proc[c] # "none" => pc[c] \in Running  BY DEF Inv, PermitHeld, Running
<1>10. proc[c] # "none" => step \in Running
  BY <1>2, <1>9 DEF Granted, Denied, Running, Requests
<1> HIDE DEF step
<1> QED  BY <1>1, <1>3, <1>7, <1>8, <1>10, ClientKeeps

LEMMA UnavailableInv ==
    ASSUME Inv, NEW c \in Clients, Unavailable(c)
    PROVE  Inv'
<1> DEFINE step == Denied[pc[c]]
<1>1. pc[c] \in Requests /\ Goto(c, step) /\ UNCHANGED <<guardianVars, proc, executorVars>>
  BY DEF Unavailable
<1>2. step \in ClientSteps /\ pc[c] \notin Ended /\ step # "done"
  BY <1>1 DEF Denied, ClientSteps, Requests, Ended
<1>3. Outstanding(pc[c]) \subseteq Outstanding(step) /\ step \notin Outstanding(pc[c])
  BY <1>1 DEF Denied, Requests, Outstanding
<1>4. pc[c] \in UnderPermit => Held(c)  BY DEF Inv, PermitHeld
<1>5. step \in UnderPermit => Held(c)  BY <1>1, <1>4 DEF Denied, UnderPermit, Requests
<1>6. proc[c] # "none" => pc[c] \in Running  BY DEF Inv, PermitHeld, Running
<1>7. proc[c] # "none" => step \in Running  BY <1>1, <1>6 DEF Denied, Running, Requests
<1> HIDE DEF step
<1> QED  BY <1>1, <1>2, <1>3, <1>5, <1>7, ClientKeeps

(* The steps that stay under the permit.                                   *)
LEMMA BodyInv ==
    ASSUME Inv, NEW c \in Clients,
           \/ RunProcess(c) \/ BodyReturns(c) \/ BodyRaises(c) \/ Poll(c) \/ Communicate(c)
           \/ Deadline(c)
    PROVE  Inv'
<1>1. proc[c] # "none" => pc[c] \in Running  BY DEF Inv, PermitHeld, Running
<1>2. pc[c] \in UnderPermit => Held(c)  BY DEF Inv, PermitHeld
<1>3. PICK step \in {"precheck", "final", "failure", "poll", "returned", "kill"} :
        /\ Goto(c, step) /\ UNCHANGED <<guardianVars, proc, executorVars>>
        /\ pc[c] \in {"body", "returned", "running"}
        /\ step \in {"final", "failure"} => pc[c] \in {"body", "returned"}
        /\ step = "precheck" => pc[c] = "body"
        /\ step \in {"poll", "returned", "kill"} => pc[c] = "running"
        /\ step = "returned" => proc[c] = "none"
  BY DEF RunProcess, BodyReturns, BodyRaises, Poll, Communicate, Deadline
<1>4. Outstanding(pc[c]) \subseteq Outstanding(step) /\ step \notin Outstanding(pc[c])
  BY <1>3 DEF Outstanding
<1>5. step \in ClientSteps /\ pc[c] \notin Ended /\ step # "done" /\ Held(c)
  BY <1>2, <1>3 DEF ClientSteps, Requests, Ended, UnderPermit
<1>6. proc[c] # "none" => step \in Running  BY <1>1, <1>3 DEF Running
<1> QED  BY <1>3, <1>4, <1>5, <1>6, ClientKeeps

LEMMA PopenInv ==
    ASSUME Inv, NEW c \in Clients, Popen(c)
    PROVE  Inv'
<1>1. NoneLeft(c)  BY AnsweredNoneLeft DEF Popen, Outstanding
<1>2. Held(c)  BY DEF Inv, PermitHeld, Popen, UnderPermit
<1>3. \A i \in DOMAIN inbox : inbox[i] # <<c, "finishOk">>  BY <1>1 DEF NoneLeft
<1> QED
  BY <1>1, <1>2, <1>3, ClientMoves
  DEF Popen, ClientSteps, Requests, Ended, Running, guardianVars, executorVars

LEMMA KillInv ==
    ASSUME Inv, NEW c \in Clients, Kill(c)
    PROVE  Inv'
<1>1. pc[c] \in {"kill", "abort"}  BY DEF Kill
<1>2. Held(c)  BY <1>1 DEF Inv, PermitHeld, UnderPermit
<1>3. PICK x \in {"none", "running", "stray"}, step \in {"returned", "finishBad"} :
        /\ proc' = [proc EXCEPT ![c] = x] /\ Goto(c, step)
        /\ step = "returned" => pc[c] = "kill" /\ x = "none"
        /\ x # "none" => proc[c] # "none"
  BY <1>1 DEF Kill, Inv, TypeOK
<1>4. Outstanding(pc[c]) \subseteq Outstanding(step) /\ step \notin Outstanding(pc[c])
  BY <1>1, <1>3 DEF Outstanding, Requests
<1>5. x # "none" => \A i \in DOMAIN inbox : inbox[i] # <<c, "finishOk">>
  BY <1>3 DEF Inv, PermitHeld
<1>6. step \in ClientSteps /\ pc[c] \notin Ended /\ step # "done"
      /\ UNCHANGED <<guardianVars, executorVars>>
  BY <1>1, <1>3 DEF ClientSteps, Requests, Ended, Kill
<1>7. x # "none" => step \in Running  BY <1>3 DEF Running
<1> QED  BY <1>2, <1>3, <1>4, <1>5, <1>6, <1>7, ClientMoves

(* A client that dies leaves its process, its permit and its requests      *)
(* where they are.                                                         *)
LEMMA CrashInv ==
    ASSUME Inv, NEW c \in Clients, ClientCrashes(c)
    PROVE  Inv'
<1>0. TypeOK  BY DEF Inv
<1>1. /\ pc'[c] = "crashed" /\ answer'[c] = "none"
      /\ \A d \in Clients : d # c => pc'[d] = pc[d] /\ answer'[d] = answer[d]
      /\ pc[c] # "done"
  BY <1>0 DEF TypeOK, ClientCrashes, Ended
<1>2. UNCHANGED <<stopped, state, journal, faults, closed, thread, inbox, proc, exec, seen,
                  requested, terminated>>
  BY DEF ClientCrashes, guardianVars, executorVars
<1>3. TypeOK'  BY <1>0, <1>2 DEF TypeOK, ClientCrashes, ClientSteps, Ended
<1>4. Outstanding("crashed") = Requests /\ "crashed" \notin Requests
  BY DEF Outstanding, Requests
<1>5. Queued'  BY <1>0, <1>1, <1>2, <1>4, InboxFacts DEF Inv, Queued
<1>6. Taken'  BY <1>0, <1>1, <1>2, <1>4 DEF Inv, Taken, Busy
<1>7. Answered'  BY <1>1 DEF Inv, Answered
<1>8. \A d \in Clients : /\ Held(d)' <=> Held(d)
                         /\ Released(d)' <=> Released(d)
                         /\ \A r \in Requests : Replied(d, r)' => Replied(d, r)
  <2>1. \A d \in Clients : (Held(d)' <=> Held(d)) /\ (Released(d)' <=> Released(d))
    BY <1>2 DEF Held, Released
  <2>2. \A d \in Clients : \A r \in Requests : Replied(d, r)' => Replied(d, r)
    BY <1>1, <1>2, <1>4 DEF Replied
  <2> QED  BY <2>1, <2>2
<1>9. PermitHeld'
  BY <1>1, <1>2, <1>8 DEF Inv, PermitHeld, UnderPermit, Requests
<1>10. PermitReleased'  BY <1>1, <1>8 DEF Inv, PermitReleased, Requests
<1>11. GateOpen'  BY <1>0, <1>1, <1>2 DEF Inv, GateOpen, TypeOK
<1>12. ErrorKept' /\ CancelOnce'
  BY <1>2 DEF Inv, ErrorKept, CancelOnce
<1>13. LastSteps'  BY <1>1, <1>2 DEF Inv, LastSteps
<1> QED
  BY <1>3, <1>5, <1>6, <1>7, <1>9, <1>10, <1>11, <1>12, <1>13 DEF Inv

LEMMA ExitsInv ==
    ASSUME Inv, NEW c \in Clients, ProcessExits(c)
    PROVE  Inv'
<1>1. proc'[c] = "none" /\ \A d \in Clients : d # c => proc'[d] = proc[d]
  BY DEF ProcessExits, Inv, TypeOK
<1>2. UNCHANGED <<stopped, state, journal, faults, closed, thread, inbox, pc, answer, exec, seen,
                  requested, terminated>>
  BY DEF ProcessExits, guardianVars, executorVars
<1>3. TypeOK'  BY <1>2 DEF Inv, TypeOK, ProcessExits
<1>4. PermitHeld'
  BY <1>1, <1>2 DEF Inv, PermitHeld, Held, Replied
<1>5. PermitReleased'  BY <1>2 DEF Inv, PermitReleased, Released, Replied
<1>6. Queued' /\ Taken' /\ Answered'  BY <1>2 DEF Inv, Queued, Taken, Answered, Busy
<1>7. GateOpen' /\ ErrorKept' /\ CancelOnce' /\ LastSteps'
  BY <1>2 DEF Inv, GateOpen, ErrorKept, CancelOnce, LastSteps
<1> QED  BY <1>3, <1>4, <1>5, <1>6, <1>7 DEF Inv

-----------------------------------------------------------------------------
(* The guardian's thread. *)

(* A step that issues and ends no permit, and answers nobody for good,     *)
(* leaves every client with the permit it has.                             *)
LEMMA PermitsKept ==
    ASSUME Inv, UNCHANGED <<pc, proc>>, Copied, state'.active = state.active,
           \A d \in Clients : \A r \in {"admit", "finishOk"} : Replied(d, r)' => Replied(d, r),
           inbox' \in {inbox, <<>>}
    PROVE  PermitHeld' /\ PermitReleased'
<1>1. \A d \in Clients : (Held(d) => Held(d)') /\ (Released(d) => Released(d)')
  BY DEF Held, Released, Copied
<1>2. \A i \in DOMAIN inbox' : i \in DOMAIN inbox /\ inbox'[i] = inbox[i]  OBVIOUS
<1>3. PermitHeld'  BY <1>1, <1>2 DEF Inv, PermitHeld
<1>4. PermitReleased'  BY <1>1 DEF Inv, PermitReleased
<1> QED  BY <1>3, <1>4

(* The first error latched is the one that stays.                          *)
LEMMA FailKeeps ==
    ASSUME Inv, NEW cause \in Clients \cup {Controller}, Fail(cause), Persisted \/ PersistFails
    PROVE  /\ stopped' = TRUE
           /\ state' \in States /\ journal' \in States /\ faults' \in 0..MaxFaults
           /\ Copied /\ state'.active = state.active /\ state'.status = "STOPPED"
           /\ state'.first \in {state.first, cause}
           /\ GateOpen' /\ ErrorKept'
<1>1. state \in States /\ TypeOK  BY DEF Inv, TypeOK
<1>2. stopped' = TRUE /\ state' = FailedBy(state, cause)  BY DEF Fail
<1>3. /\ state' \in States /\ state'.active = state.active /\ state'.status = "STOPPED"
      /\ state.first # None => state'.first = state.first
      /\ state'.first \in {state.first, cause}
  BY <1>1, <1>2, FailedByFacts
<1>4. Copied /\ journal' \in States /\ faults' \in 0..MaxFaults  BY <1>1, <1>3, CopiedFacts
<1>5. ErrorKept'  BY <1>3, <1>4 DEF Inv, ErrorKept, Copied
<1>6. GateOpen'  BY <1>2 DEF GateOpen
<1> QED  BY <1>2, <1>3, <1>4, <1>5, <1>6

(* While a request is with the thread or in the queue, the run is not at   *)
(* its successful end.                                                     *)
LEMMA NotAtEnd ==
    ASSUME Inv, Busy \/ inbox # <<>>
    PROVE  exec \notin {"exit", "join", "completed"}
<1> SUFFICES ASSUME \A c \in Clients : pc[c] = "done" PROVE FALSE
  BY DEF Inv, LastSteps
<1>1. Outstanding("done") = {}  BY DEF Outstanding
<1>2. CASE Busy  BY <1>1, <1>2 DEF Inv, Taken
<1>3. CASE inbox # <<>>
  <2>1. 1 \in DOMAIN inbox /\ TypeOK  BY <1>3, TailFacts DEF Inv
  <2> QED  BY <1>1, <2>1, InboxFacts DEF Inv, Queued
<1> QED  BY <1>2, <1>3

LEMMA PermitKeeps ==
    ASSUME state \in States, NEW c \in Clients,
           NEW status \in {"none", "ADMITTED", "CLEANUP_UNCONFIRMED"},
           NEW s, s = Permit(state, c, status)
    PROVE  /\ s \in States /\ s.active[c] = status
           /\ \A d \in Clients : d # c => s.active[d] = state.active[d]
           /\ s.status = state.status /\ s.first = state.first
  BY DEF Permit, States

(* What serving a request makes of the state.                              *)
LEMMA EffectFacts ==
    ASSUME TypeOK, NEW c \in Clients, NEW request \in Requests,
           NEW s, s = IF Unknown(c, request) THEN state ELSE Effect(c, request)
    PROVE  /\ s \in States
           /\ \A d \in Clients : d # c => s.active[d] = state.active[d]
           /\ state.active[c] # "none" /\ request # "finishOk" => s.active[c] # "none"
           /\ request = "finishOk" => s.active[c] = "none"
           /\ request = "admit" /\ ~stopped => s.active[c] # "none"
           /\ stopped /\ state.active[c] = "none" => s.active[c] = "none"
           /\ s.status \in {state.status, "STOPPED"}
           /\ request # "failure" \/ state.first # None => s.first = state.first
<1>0. state \in States  BY DEF TypeOK
<1>1. CASE request = "failure"
  <2>1. s = FailedBy(state, c)  BY <1>1 DEF Unknown, Effect
  <2>2. s \in States /\ s.active = state.active /\ s.status = "STOPPED"
        /\ (state.first # None => s.first = state.first)
    BY <1>0, <2>1, FailedByFacts
  <2> QED  BY <1>1, <2>2
<1>2. CASE request \in {"finishOk", "finishBad"}
  <2>1. CASE Unknown(c, request)  BY <1>0, <1>2, <2>1 DEF Unknown
  <2>2. CASE ~Unknown(c, request)
    <3> DEFINE status == IF request = "finishOk" THEN "none" ELSE "CLEANUP_UNCONFIRMED"
    <3>1. s = Permit(state, c, status)  BY <1>2, <2>2 DEF Effect, Finished
    <3>2. status \in {"none", "ADMITTED", "CLEANUP_UNCONFIRMED"}  OBVIOUS
    <3>3. request # "finishOk" => status # "none"  BY <1>2
    <3>4. request = "finishOk" => status = "none"  OBVIOUS
    <3> HIDE DEF status
    <3>5. state.active[c] # "none"  BY <1>2, <2>2 DEF Unknown
    <3> QED  BY <1>0, <1>2, <3>1, <3>2, <3>3, <3>4, <3>5, PermitKeeps
  <2> QED  BY <2>1, <2>2
<1>3. CASE request = "admit" /\ ~stopped
  <2>1. s = Permit(state, c, "ADMITTED")  BY <1>3 DEF Unknown, Effect
  <2> QED  BY <1>0, <1>3, <2>1, PermitKeeps
<1>4. CASE request \notin {"failure", "finishOk", "finishBad"} /\ ~(request = "admit" /\ ~stopped)
  <2>1. s = state  BY <1>4 DEF Unknown, Effect
  <2> QED  BY <1>0, <1>4, <2>1
<1> QED  BY <1>1, <1>2, <1>3, <1>4

LEMMA DispatchInv ==
    ASSUME Inv, NEW c \in Clients, NEW request \in Requests, Dispatch(c, request)
    PROVE  Inv'
<1>0. TypeOK  BY DEF Inv
<1>1. /\ inbox # <<>> /\ inbox' = Tail(inbox) /\ Head(inbox) = <<c, request>>
      /\ thread.at = "accept"
      /\ state' = IF Unknown(c, request) THEN state ELSE Effect(c, request)
      /\ stopped' = (stopped \/ request = "failure")
      /\ UNCHANGED <<closed, pc, answer, proc, exec, seen, requested, terminated>>
  BY DEF Dispatch, executorVars
<1>2. /\ 1 \in DOMAIN inbox /\ inbox[1] = <<c, request>>
      /\ inbox' \in Seq(Clients \X Requests) /\ DOMAIN inbox' \subseteq Nat
      /\ \A i \in DOMAIN inbox' : i + 1 \in DOMAIN inbox /\ 1 < i + 1 /\ inbox'[i] = inbox[i + 1]
  BY <1>0, <1>1, TailFacts
<1>3. /\ request \in Outstanding(pc[c]) /\ answer[c] = "none"
      /\ request = pc[c] => \A i \in DOMAIN inbox' : inbox'[i][1] # c
  BY <1>2 DEF Inv, Queued
<1>4. /\ state' \in States
      /\ \A d \in Clients : d # c => state'.active[d] = state.active[d]
      /\ state.active[c] # "none" /\ request # "finishOk" => state'.active[c] # "none"
      /\ request = "finishOk" => state'.active[c] = "none"
      /\ request = "admit" /\ ~stopped => state'.active[c] # "none"
      /\ state'.status \in {state.status, "STOPPED"}
      /\ request # "failure" \/ state.first # None => state'.first = state.first
  BY <1>0, <1>1, EffectFacts
<1>5. /\ Copied /\ journal' \in States /\ faults' \in 0..MaxFaults
  <2>1. Persisted \/ PersistFails \/ UNCHANGED <<journal, faults>>  BY DEF Dispatch
  <2>2. CASE Persisted \/ PersistFails  BY <1>0, <1>4, <2>2, CopiedFacts
  <2>3. CASE UNCHANGED <<journal, faults>>  BY <1>0, <2>3 DEF TypeOK, Copied
  <2> QED  BY <2>1, <2>2, <2>3
<1>6. /\ thread' \in Threads /\ thread'.at \in {"reply", "failing"}
      /\ thread'.client = c /\ thread'.request = request
      /\ thread'.at = "reply" =>
           /\ thread'.ok = ~Refused(request)
           /\ Writes(request) => Persisted
  <2>1. \/ /\ thread' = [at |-> "reply", client |-> c, request |-> request, ok |-> ~Refused(request)]
           /\ Writes(request) => Persisted
        \/ thread' = [at |-> "failing", client |-> c, request |-> request, ok |-> FALSE]
    BY DEF Dispatch
  <2>2. PICK ok \in BOOLEAN : ok = ~Refused(request)  BY DEF Refused
  <2>3. CASE thread' = [at |-> "failing", client |-> c, request |-> request, ok |-> FALSE]
    BY <2>3 DEF Threads
  <2>4. CASE /\ thread' = [at |-> "reply", client |-> c, request |-> request, ok |-> ok]
             /\ Writes(request) => Persisted
    BY <2>2, <2>4 DEF Threads
  <2> QED  BY <2>1, <2>2, <2>3, <2>4
<1>7. TypeOK'  BY <1>0, <1>1, <1>2, <1>4, <1>5, <1>6 DEF TypeOK
<1>8. Queued'
  <2>1. ASSUME NEW i \in DOMAIN inbox', NEW j \in DOMAIN inbox', i < j
        PROVE  i + 1 < j + 1
    BY <1>2, <2>1
  <2> QED  BY <1>1, <1>2, <2>1 DEF Inv, Queued
<1>9. Taken'  BY <1>1, <1>3, <1>6 DEF Taken
<1>10. Answered'  BY <1>1 DEF Inv, Answered
<1>11. ASSUME NEW d \in Clients, NEW r, Replied(d, r)', ~Replied(d, r)
       PROVE  d = c /\ r = request /\ thread'.at = "reply" /\ thread'.ok
  BY <1>1, <1>6, <1>11 DEF Replied
<1>12. thread'.at = "reply" /\ thread'.ok /\ request \in {"admit", "finishOk"} =>
         /\ journal' = state'
         /\ request = "admit" => ~stopped
  BY <1>6 DEF Writes, Refused, AlwaysServed, Persisted
<1>13. /\ \A d \in Clients : d # c => (Held(d) => Held(d)') /\ (Released(d) => Released(d)')
       /\ request # "finishOk" /\ Held(c) => Held(c)'
  BY <1>4, <1>5 DEF Held, Released, Copied
<1>14. /\ ~Replied(c, "admit") /\ ~Replied(c, "finishOk")
  BY <1>1, <1>3 DEF Replied
<1>15. /\ pc[c] \in UnderPermit => request # "finishOk"
       /\ pc[c] # "done"
  BY <1>3 DEF Outstanding, UnderPermit, Requests
<1>16. proc[c] # "none" => request # "finishOk"
  BY <1>2 DEF Inv, PermitHeld
<1>17. PermitHeld'
  <2> SUFFICES ASSUME NEW d \in Clients
               PROVE  /\ pc[d] \in UnderPermit => Held(d)'
                      /\ Replied(d, "admit")' => Held(d)'
                      /\ proc[d] # "none" =>
                           /\ Held(d)'
                           /\ pc[d] \in Running
                           /\ \A i \in DOMAIN inbox' : inbox'[i] # <<d, "finishOk">>
    BY <1>1 DEF PermitHeld, Running
  <2>1. pc[d] \in UnderPermit => Held(d)'  BY <1>13, <1>15 DEF Inv, PermitHeld
  <2>2. Replied(d, "admit")' => Held(d)'
    <3>1. CASE Replied(d, "admit")  BY <1>13, <1>14, <3>1 DEF Inv, PermitHeld
    <3>2. CASE ~Replied(d, "admit") /\ Replied(d, "admit")'
      <4>1. d = c /\ request = "admit" /\ thread'.at = "reply" /\ thread'.ok
        BY <1>11, <3>2
      <4>2. journal' = state' /\ state'.active[c] # "none"  BY <1>4, <1>12, <4>1
      <4> QED  BY <4>1, <4>2 DEF Held
    <3> QED  BY <3>1, <3>2
  <2>3. proc[d] # "none" => Held(d)'  BY <1>13, <1>16 DEF Inv, PermitHeld
  <2>4. proc[d] # "none" => \A i \in DOMAIN inbox' : inbox'[i] # <<d, "finishOk">>
    BY <1>2 DEF Inv, PermitHeld
  <2>5. proc[d] # "none" => pc[d] \in Running  BY DEF Inv, PermitHeld, Running
  <2> QED  BY <2>1, <2>2, <2>3, <2>4, <2>5
<1>18. PermitReleased'
  <2> SUFFICES ASSUME NEW d \in Clients, Replied(d, "finishOk")' \/ pc[d] = "done"
               PROVE  Released(d)'
    BY <1>1 DEF PermitReleased
  <2>1. CASE d # c
    <3>1. Replied(d, "finishOk") \/ pc[d] = "done"  BY <1>11, <2>1
    <3> QED  BY <1>13, <2>1, <3>1 DEF Inv, PermitReleased
  <2>2. CASE d = c
    <3>1. request = "finishOk" /\ thread'.at = "reply" /\ thread'.ok
      BY <1>11, <1>14, <1>15, <2>2
    <3>2. journal' = state' /\ state'.active[c] = "none"  BY <1>4, <1>12, <3>1
    <3> QED  BY <2>2, <3>2 DEF Released
  <2> QED  BY <2>1, <2>2
<1>19. GateOpen'  BY <1>1, <1>4, <1>5, <1>6 DEF Inv, GateOpen, Copied
<1>20. ErrorKept'  BY <1>4, <1>5 DEF Inv, ErrorKept, Copied
<1>21. CancelOnce'  BY <1>1, <1>6 DEF Inv, CancelOnce
<1>22. LastSteps'
  <2>1. exec \notin {"exit", "join", "completed"}  BY <1>1, NotAtEnd
  <2>2. state.status # "COMPLETED" /\ journal.status # "COMPLETED"
    BY <1>1 DEF Inv, LastSteps
  <2>3. state'.status # "COMPLETED" /\ journal'.status # "COMPLETED"
    BY <1>4, <1>5, <2>2 DEF Copied
  <2> QED  BY <1>1, <2>1, <2>3 DEF LastSteps
<1> QED
  BY <1>7, <1>8, <1>9, <1>10, <1>17, <1>18, <1>19, <1>20, <1>21, <1>22 DEF Inv

(* A step that leaves the clients and their requests alone, or loses all   *)
(* the requests with the thread.                                           *)
LEMMA ClientsLeft ==
    ASSUME Inv, UNCHANGED <<pc, answer, proc>>, Copied, state'.active = state.active,
           \/ UNCHANGED <<thread, inbox>>
           \/ /\ inbox' \in {inbox, <<>>}
              /\ \/ thread'.at \notin {"reply", "failing"}
                 \/ thread'.at = "failing" /\ thread'.client = None
    PROVE  Queued' /\ Taken' /\ Answered' /\ PermitHeld' /\ PermitReleased'
<1>1. Queued' /\ Answered'  BY DEF Inv, Queued, Answered
<1>2. Taken'  BY DEF Inv, Taken, Busy
<1>3. \A d \in Clients : \A r \in {"admit", "finishOk"} : Replied(d, r)' => Replied(d, r)
  BY DEF Replied
<1>4. PermitHeld' /\ PermitReleased'  BY <1>3, PermitsKept
<1> QED  BY <1>1, <1>2, <1>4

LEMMA ReplyInv ==
    ASSUME Inv, Reply
    PROVE  Inv'
<1>0. TypeOK /\ Busy  BY ClientsAssumption DEF Inv, Reply, Busy, TypeOK, Threads
<1> DEFINE c == thread.client
<1>1. /\ thread.at = "reply" /\ thread' = AfterRequest(stopped) /\ pc[c] = thread.request
      /\ UNCHANGED <<stopped, state, journal, faults, closed, inbox, pc, proc, exec, seen,
                     requested, terminated>>
  BY DEF Reply, Open, executorVars
<1>2. /\ c \in Clients /\ thread.request \in Requests
      /\ \A i \in DOMAIN inbox : inbox[i][1] # c
  BY <1>0, <1>1 DEF Inv, Taken
<1>3. /\ answer'[c] \in {"ok", "refused"} /\ (answer'[c] = "ok" => thread.ok)
      /\ \A d \in Clients : d # c => answer'[d] = answer[d]
      /\ answer' \in [Clients -> {"none", "ok", "refused"}]
  BY <1>0, <1>2 DEF Reply, TypeOK
<1>4. thread' \in Threads /\ thread'.at \in {"accept", "stop"} /\ (thread'.at = "stop" => stopped)
  BY <1>0, <1>1 DEF AfterRequest, Accepting, Threads, TypeOK
<1> HIDE DEF c
<1>5. TypeOK'  BY <1>0, <1>1, <1>3, <1>4 DEF TypeOK
<1>6. Queued'  BY <1>0, <1>1, <1>2, <1>3, InboxFacts DEF Inv, Queued
<1>7. Taken'  BY <1>4 DEF Taken, Busy
<1>8. Answered'  BY <1>1, <1>2, <1>3 DEF Inv, Answered
<1>9. \A d \in Clients : \A r \in {"admit", "finishOk"} : Replied(d, r)' => Replied(d, r)
  BY <1>1, <1>3, <1>4 DEF Replied, c
<1>10. PermitHeld' /\ PermitReleased'  BY <1>1, <1>9, PermitsKept DEF Copied
<1>11. GateOpen' /\ ErrorKept' /\ CancelOnce'
  BY <1>1, <1>4 DEF Inv, GateOpen, ErrorKept, CancelOnce
<1>12. LastSteps'  BY <1>1 DEF Inv, LastSteps
<1> QED
  BY <1>5, <1>6, <1>7, <1>8, <1>10, <1>11, <1>12 DEF Inv

LEMMA ReplyLostInv ==
    ASSUME Inv, ReplyLost
    PROVE  Inv'
<1>0. TypeOK  BY DEF Inv
<1>1. /\ thread.at = "reply"
      /\ UNCHANGED <<stopped, state, journal, faults, closed, inbox, pc, answer, proc, exec, seen,
                     requested, terminated>>
  BY DEF ReplyLost, clientVars, executorVars
<1>2. /\ thread' \in Threads /\ thread'.at = "failing"
      /\ thread'.client = thread.client /\ thread'.request = thread.request
  BY <1>0, <1>1 DEF ReplyLost, Threads, TypeOK
<1>3. TypeOK'  BY <1>0, <1>1, <1>2 DEF TypeOK
<1>4. Queued' /\ Answered'  BY <1>1 DEF Inv, Queued, Answered
<1>5. Taken'  BY <1>1, <1>2 DEF Inv, Taken, Busy
<1>6. \A d \in Clients : \A r \in {"admit", "finishOk"} : Replied(d, r)' => Replied(d, r)
  BY <1>1, <1>2 DEF Replied
<1>7. PermitHeld' /\ PermitReleased'  BY <1>1, <1>6, PermitsKept DEF Copied
<1>8. GateOpen' /\ ErrorKept' /\ CancelOnce'
  BY <1>1, <1>2 DEF Inv, GateOpen, ErrorKept, CancelOnce
<1>9. LastSteps'  BY <1>1 DEF Inv, LastSteps
<1> QED  BY <1>3, <1>4, <1>5, <1>7, <1>8, <1>9 DEF Inv

(* The controller fails closed, for a client's request or for a connection *)
(* that brought none.                                                      *)
LEMMA ControllerFailsInv ==
    ASSUME Inv, ControllerFails
    PROVE  Inv'
<1>0. TypeOK  BY DEF Inv
<1> DEFINE c == thread.client
<1>1. /\ thread.at = "failing" /\ thread' = AfterRequest(TRUE)
      /\ UNCHANGED <<closed, inbox, pc, proc, exec, seen, requested, terminated>>
  BY DEF ControllerFails, executorVars
<1>2. /\ stopped' = TRUE
      /\ state' \in States /\ journal' \in States /\ faults' \in 0..MaxFaults
      /\ Copied /\ state'.active = state.active /\ state'.status = "STOPPED"
      /\ state'.first \in {state.first, Controller}
      /\ GateOpen' /\ ErrorKept'
  BY FailKeeps DEF ControllerFails
<1>3. \/ answer' = answer
      \/ Open /\ answer' = [answer EXCEPT ![c] = "refused"]
  BY DEF ControllerFails
<1>4. /\ answer' \in [Clients -> {"none", "ok", "refused"}]
      /\ \A d \in Clients : answer'[d] = "ok" => answer[d] = "ok"
      /\ \A d \in Clients : answer'[d] # answer[d] =>
           pc[d] \in Requests /\ \A i \in DOMAIN inbox : inbox[i][1] # d
  <2>1. CASE answer' = answer  BY <1>0, <2>1 DEF TypeOK
  <2>2. CASE Open /\ answer' = [answer EXCEPT ![c] = "refused"]
    <3>1. Busy  BY <1>1, <2>2, ClientsAssumption DEF Busy, Open
    <3> QED  BY <1>0, <2>2, <3>1 DEF TypeOK, Open, Inv, Taken
  <2> QED  BY <1>3, <2>1, <2>2
<1>5. thread' \in Threads /\ thread'.at = "stop"
  BY <1>1 DEF AfterRequest, Accepting, Threads
<1> HIDE DEF c
<1>6. TypeOK'  BY <1>0, <1>1, <1>2, <1>4, <1>5 DEF TypeOK
<1>7. Queued'  BY <1>0, <1>1, <1>4, InboxFacts DEF Inv, Queued
<1>8. Taken'  BY <1>5 DEF Taken, Busy
<1>9. Answered'  BY <1>1, <1>4 DEF Inv, Answered
<1>10. \A d \in Clients : \A r \in {"admit", "finishOk"} : Replied(d, r)' => Replied(d, r)
  BY <1>1, <1>4, <1>5 DEF Replied
<1>11. PermitHeld' /\ PermitReleased'  BY <1>1, <1>2, <1>10, PermitsKept
<1>12. CancelOnce'  BY <1>1, <1>5 DEF Inv, CancelOnce
<1>13. LastSteps'
  <2>1. exec # "completed"  BY <1>1 DEF Inv, LastSteps
  <2>2. journal'.status # "COMPLETED"  BY <1>1, <1>2 DEF Inv, LastSteps, Copied
  <2> QED  BY <1>1, <1>2, <2>1, <2>2 DEF Inv, LastSteps, Copied
<1> QED
  BY <1>2, <1>6, <1>7, <1>8, <1>9, <1>11, <1>12, <1>13 DEF Inv

(* A connection that brings no request leaves the clients alone.           *)
LEMMA BadConnectionInv ==
    ASSUME Inv, BadConnection
    PROVE  Inv'
<1>0. TypeOK  BY DEF Inv
<1>1. /\ thread.at = "accept"
      /\ UNCHANGED <<stopped, state, journal, faults, closed, inbox, pc, answer, proc, exec, seen,
                     requested, terminated>>
  BY DEF BadConnection, clientVars, executorVars
<1>2. thread' \in Threads /\ thread'.at = "failing" /\ thread'.client = None
  BY DEF BadConnection, Accepting, Threads
<1>3. TypeOK'  BY <1>0, <1>1, <1>2 DEF TypeOK
<1>4. Queued' /\ Taken' /\ Answered' /\ PermitHeld' /\ PermitReleased'
  BY <1>1, <1>2, ClientsLeft DEF Copied
<1>5. GateOpen' /\ ErrorKept' /\ CancelOnce'
  BY <1>1, <1>2 DEF Inv, GateOpen, ErrorKept, CancelOnce
<1>6. LastSteps'  BY <1>1 DEF Inv, LastSteps
<1> QED  BY <1>3, <1>4, <1>5, <1>6 DEF Inv

LEMMA OnStopInv ==
    ASSUME Inv, OnStop
    PROVE  Inv'
<1>0. TypeOK  BY DEF Inv
<1>1. /\ thread.at = "stop" /\ requested' = TRUE
      /\ UNCHANGED <<stopped, state, journal, faults, closed, inbox, pc, answer, proc, exec, seen,
                     terminated>>
  BY DEF OnStop, clientVars
<1>2. /\ thread' \in Threads /\ thread'.at \in {"accept", "cancel"}
      /\ thread'.at = "cancel" => ~requested
  BY <1>0, <1>1 DEF OnStop, Threads, Accepting, TypeOK
<1>3. TypeOK'  BY <1>0, <1>1, <1>2 DEF TypeOK
<1>4. Queued' /\ Taken' /\ Answered' /\ PermitHeld' /\ PermitReleased'
  BY <1>1, <1>2, ClientsLeft DEF Copied
<1>5. GateOpen' /\ ErrorKept'
  BY <1>1, <1>2 DEF Inv, GateOpen, ErrorKept
<1>6. CancelOnce'  BY <1>1, <1>2 DEF Inv, CancelOnce
<1>7. LastSteps'  BY <1>1 DEF Inv, LastSteps
<1> QED  BY <1>3, <1>4, <1>5, <1>6, <1>7 DEF Inv

(* One termination, successful or not.                                     *)
LEMMA Terminating ==
    ASSUME Inv, ~requested \/ thread.at = "cancel",
           Terminates \/ (TerminationFails /\ (Persisted \/ PersistFails)),
           UNCHANGED seen, thread'.at \notin {"stop", "cancel"} \/ thread' = thread
    PROVE  /\ terminated' \in {0, 1}
           /\ state' \in States /\ journal' \in States /\ faults' \in 0..MaxFaults
           /\ stopped' \in BOOLEAN /\ (stopped => stopped')
           /\ Copied /\ state'.active = state.active
           /\ state'.status \in {state.status, "STOPPED"}
           /\ state'.first \in {state.first, Controller}
           /\ pc' = pc => GateOpen'
           /\ ErrorKept'
<1>0. TypeOK /\ terminated = 0  BY DEF Inv, CancelOnce
<1>1. CASE Terminates
  <2>1. /\ terminated' = terminated + 1 /\ UNCHANGED <<stopped, state, faults>> /\ journal' = state
    BY <1>1 DEF Terminates, Persisted
  <2>2. pc' = pc => GateOpen'  BY <2>1 DEF Inv, GateOpen
  <2> QED  BY <1>0, <2>1, <2>2 DEF TypeOK, Copied, ErrorKept
<1>2. CASE TerminationFails /\ (Persisted \/ PersistFails)
  <2>1. terminated' \in {0, 1} /\ Fail(Controller)  BY <1>0, <1>2 DEF TerminationFails
  <2> QED  BY <1>2, <2>1, FailKeeps
<1> QED  BY <1>1, <1>2

LEMMA CancelFromThreadInv ==
    ASSUME Inv, CancelFromThread
    PROVE  Inv'
<1>0. TypeOK  BY DEF Inv
<1>1. /\ thread.at = "cancel" /\ inbox' \in {inbox, <<>>}
      /\ UNCHANGED <<closed, pc, answer, proc, exec, seen, requested>>
      /\ Terminates \/ (TerminationFails /\ (Persisted \/ PersistFails))
  BY DEF CancelFromThread
<1>2. thread' \in Threads /\ thread'.at \in {"accept", "ended"}
  <2>1. thread' = Accepting \/ thread' = [thread EXCEPT !.at = "ended"]  BY DEF CancelFromThread
  <2>2. CASE thread' = Accepting  BY <2>2 DEF Accepting, Threads
  <2>3. CASE thread' = [thread EXCEPT !.at = "ended"]  BY <1>0, <1>1, <2>3 DEF TypeOK, Threads
  <2> QED  BY <2>1, <2>2, <2>3
<1>3. /\ terminated' \in {0, 1}
      /\ state' \in States /\ journal' \in States /\ faults' \in 0..MaxFaults
      /\ stopped' \in BOOLEAN
      /\ Copied /\ state'.active = state.active
      /\ state'.status \in {state.status, "STOPPED"}
      /\ state'.first \in {state.first, Controller}
      /\ GateOpen' /\ ErrorKept'
  BY <1>1, <1>2, Terminating
<1>4. TypeOK'
  <2>1. inbox' \in Seq(Clients \X Requests)
    <3>1. CASE inbox' = <<>>  BY <3>1
    <3>2. CASE inbox' = inbox  BY <1>0, <3>2 DEF TypeOK
    <3> QED  BY <1>1, <3>1, <3>2
  <2> QED  BY <1>0, <1>1, <1>2, <1>3, <2>1 DEF TypeOK
<1>5. Queued' /\ Taken' /\ Answered' /\ PermitHeld' /\ PermitReleased'
  BY <1>1, <1>2, <1>3, ClientsLeft
<1>6. CancelOnce'  BY <1>1, <1>2, <1>3 DEF Inv, CancelOnce
<1>7. LastSteps'
  <2>1. exec # "completed"  BY <1>1 DEF Inv, LastSteps
  <2>2. state'.status # "COMPLETED" /\ journal'.status # "COMPLETED"
    BY <1>1, <1>3 DEF Inv, LastSteps, Copied
  <2> QED  BY <1>1, <1>3, <2>1, <2>2 DEF Inv, LastSteps, Copied
<1> QED  BY <1>3, <1>4, <1>5, <1>6, <1>7 DEF Inv

(* accept() raises or the guardian is closed: the thread ends.             *)
LEMMA ThreadEndsInv ==
    ASSUME Inv, ThreadEnds \/ AcceptFails
    PROVE  Inv'
<1>0. TypeOK  BY DEF Inv
<1>1. /\ thread.at = "accept" /\ inbox' = <<>>
      /\ stopped' \in BOOLEAN /\ (stopped => stopped')
      /\ UNCHANGED <<state, journal, faults, closed, pc, answer, proc, exec, seen,
                     requested, terminated>>
  BY <1>0 DEF ThreadEnds, AcceptFails, executorVars, TypeOK
<1>2. thread' \in Threads /\ thread'.at = "ended"
  BY <1>0, <1>1 DEF ThreadEnds, AcceptFails, Threads, TypeOK
<1>3. TypeOK'
  <2>1. inbox' \in Seq(Clients \X Requests)  BY <1>1
  <2> QED  BY <1>0, <1>1, <1>2, <2>1 DEF TypeOK
<1>4. Queued' /\ Taken' /\ Answered' /\ PermitHeld' /\ PermitReleased'
  BY <1>1, <1>2, ClientsLeft DEF Copied
<1>5. GateOpen' /\ ErrorKept' /\ CancelOnce'
  BY <1>1, <1>2 DEF Inv, GateOpen, ErrorKept, CancelOnce
<1>6. LastSteps'  BY <1>1, <1>2 DEF Inv, LastSteps
<1> QED  BY <1>3, <1>4, <1>5, <1>6 DEF Inv

-----------------------------------------------------------------------------
(* The executor. *)

(* A step of the executor that only moves it on.                           *)
LEMMA ExecutorMoves ==
    ASSUME Inv, UNCHANGED <<stopped, state, journal, faults, clientVars, thread, requested, terminated>>,
           closed' \in BOOLEAN, exec' \in ExecutorSteps, seen' \subseteq Clients,
           exec \notin {"completed", "broken"}, exec' # "completed",
           ~stopped => \A c \in seen' : pc[c] = "done",
           exec' \in {"exit", "join"} =>
               exec \in {"exit", "join"} \/ (~stopped /\ \A c \in Clients : pc[c] = "done")
    PROVE  Inv'
<1>1. UNCHANGED <<inbox, pc, answer, proc>>  BY DEF clientVars
<1>2. TypeOK'  BY <1>1 DEF Inv, TypeOK
<1>3. Queued' /\ Taken' /\ Answered' /\ PermitHeld' /\ PermitReleased'
  BY <1>1, ClientsLeft DEF Copied
<1>4. GateOpen' /\ ErrorKept' /\ CancelOnce'
  BY <1>1 DEF Inv, GateOpen, ErrorKept, CancelOnce
<1>5. LastSteps'  BY <1>1 DEF Inv, LastSteps, GateOpen
<1> QED  BY <1>2, <1>3, <1>4, <1>5 DEF Inv

LEMMA MovesInv ==
    ASSUME Inv,
           \/ \E c \in Clients : StepSucceeded(c)
           \/ CheckStopped \/ EndOfSteps \/ Interrupted \/ Exit
    PROVE  Inv'
<1>0. /\ closed \in BOOLEAN /\ seen \subseteq Clients
      /\ ~stopped => \A c \in seen : pc[c] = "done"
  BY DEF Inv, TypeOK, GateOpen
<1>1. ASSUME NEW c \in Clients, StepSucceeded(c) PROVE Inv'
  BY <1>0, <1>1, ExecutorMoves DEF StepSucceeded, guardianVars, ExecutorSteps
<1>2. CASE CheckStopped
  BY <1>0, <1>2, ExecutorMoves DEF CheckStopped, guardianVars, ExecutorSteps
<1>3. CASE EndOfSteps
  <2>1. ~stopped => \A c \in Clients : pc[c] = "done"
    BY <1>0, <1>3 DEF EndOfSteps, AllOver
  <2>2. /\ UNCHANGED <<stopped, state, journal, faults, clientVars, thread, closed, seen,
                       requested, terminated>>
        /\ exec = "events" /\ exec' = IF stopped THEN "raising" ELSE "exit"
    BY <1>3 DEF EndOfSteps, AllOver, guardianVars
  <2> QED  BY <1>0, <2>1, <2>2, ExecutorMoves DEF ExecutorSteps
<1>4. CASE Interrupted
  BY <1>0, <1>4, ExecutorMoves DEF Interrupted, guardianVars, ExecutorSteps
<1>5. CASE Exit
  BY <1>0, <1>5, ExecutorMoves DEF Exit, guardianVars, ExecutorSteps
<1> QED  BY <1>1, <1>2, <1>3, <1>4, <1>5

(* A step of the executor that closes the gate.                            *)
LEMMA ExecutorFails ==
    ASSUME Inv, NEW cause \in Clients \cup {Controller}, Fail(cause), Persisted \/ PersistFails,
           exec \in {"events", "raising"}, exec' \in {"check", "raising", "raiseCancel", "exitRaised"},
           seen' \subseteq Clients, UNCHANGED <<closed, thread, clientVars, requested, terminated>>
    PROVE  Inv'
<1>1. UNCHANGED <<inbox, pc, answer, proc>>  BY DEF clientVars
<1>2. /\ stopped' = TRUE
      /\ state' \in States /\ journal' \in States /\ faults' \in 0..MaxFaults
      /\ Copied /\ state'.active = state.active /\ state'.status = "STOPPED"
      /\ GateOpen' /\ ErrorKept'
  BY FailKeeps
<1>3. TypeOK'  BY <1>1, <1>2 DEF Inv, TypeOK, ExecutorSteps
<1>4. Queued' /\ Taken' /\ Answered' /\ PermitHeld' /\ PermitReleased'
  BY <1>1, <1>2, ClientsLeft
<1>5. CancelOnce'  BY DEF Inv, CancelOnce
<1>6. LastSteps'
  <2>1. journal'.status # "COMPLETED"  BY <1>2 DEF Inv, LastSteps, Copied
  <2> QED  BY <1>2, <2>1 DEF LastSteps
<1> QED  BY <1>2, <1>3, <1>4, <1>5, <1>6 DEF Inv

LEMMA StepFailedInv ==
    ASSUME Inv, NEW c \in Clients, StepFailed(c)
    PROVE  Inv'
  BY ExecutorFails DEF StepFailed, Inv, TypeOK

LEMMA RaisesInv ==
    ASSUME Inv, Raises
    PROVE  Inv'
  BY ExecutorFails DEF Raises, Inv, TypeOK

LEMMA CancelFromExecutorInv ==
    ASSUME Inv, CancelFromExecutor
    PROVE  Inv'
<1>0. TypeOK  BY DEF Inv
<1>1. /\ exec \in {"cancel", "raiseCancel"} /\ exec' \in {"events", "raising", "exitRaised"}
      /\ requested' = TRUE
      /\ UNCHANGED <<closed, thread, inbox, pc, answer, proc, seen>>
  BY DEF CancelFromExecutor, AfterCancel, clientVars
<1>2. CASE requested /\ UNCHANGED <<stopped, state, journal, faults, terminated>>
  <2>1. UNCHANGED <<clientVars, requested>>  BY <1>1, <1>2 DEF clientVars, Inv, TypeOK
  <2>2. ~stopped => \A c \in seen : pc[c] = "done"  BY DEF Inv, GateOpen
  <2> QED  BY <1>0, <1>1, <1>2, <2>1, <2>2, ExecutorMoves DEF TypeOK, ExecutorSteps
<1>3. CASE ~requested /\ (Terminates \/ (TerminationFails /\ (Persisted \/ PersistFails)))
  <2>1. /\ terminated' \in {0, 1}
        /\ state' \in States /\ journal' \in States /\ faults' \in 0..MaxFaults
        /\ stopped' \in BOOLEAN
        /\ Copied /\ state'.active = state.active
        /\ state'.status \in {state.status, "STOPPED"}
        /\ GateOpen' /\ ErrorKept'
    BY <1>1, <1>3, Terminating
  <2>2. TypeOK'  BY <1>0, <1>1, <2>1 DEF TypeOK, ExecutorSteps
  <2>3. Queued' /\ Taken' /\ Answered' /\ PermitHeld' /\ PermitReleased'
    BY <1>1, <2>1, ClientsLeft
  <2>4. CancelOnce'  BY <1>1, <1>3, <2>1 DEF Inv, CancelOnce
  <2>5. state'.status # "COMPLETED" /\ journal'.status # "COMPLETED"
    BY <1>1, <2>1 DEF Inv, LastSteps, Copied
  <2>6. LastSteps'  BY <1>1, <2>5 DEF LastSteps
  <2> QED  BY <2>1, <2>2, <2>3, <2>4, <2>6 DEF Inv
<1> QED  BY <1>2, <1>3 DEF CancelFromExecutor

(* The final status is written after the thread has ended: it says what    *)
(* the gate was at the very end.                                           *)
LEMMA JoinedInv ==
    ASSUME Inv, Joined
    PROVE  Inv'
<1>0. TypeOK  BY DEF Inv
<1>1. /\ exec \in {"join", "joinRaised"} /\ thread.at = "ended"
      /\ UNCHANGED <<stopped, closed, thread, inbox, pc, answer, proc, seen, requested, terminated>>
      /\ \/ Persisted /\ exec' = (IF exec = "join" THEN "completed" ELSE "stopped")
         \/ PersistFails /\ exec' = "broken"
  <2>1. \/ Persisted /\ exec' = (IF exec = "join" THEN "completed" ELSE "stopped")
        \/ PersistFails /\ exec' = "broken"
    BY Zenon DEF Joined
  <2> QED  BY <2>1 DEF Joined, clientVars
<1>2. exec = "join" =>
        /\ \A c \in Clients : pc[c] = "done"
        /\ state.first \in {None, Controller} /\ journal.first \in {None, Controller}
  BY DEF Inv, LastSteps
<1>3. /\ state' \in States /\ state'.active = state.active /\ state'.first = state.first
      /\ state'.status = IF stopped \/ exec = "joinRaised" THEN "STOPPED" ELSE "COMPLETED"
  BY <1>0 DEF Joined, TypeOK, States
<1>4. Copied /\ journal' \in States /\ faults' \in 0..MaxFaults
  BY <1>0, <1>1, <1>3, CopiedFacts
<1>5. TypeOK'  BY <1>0, <1>1, <1>3, <1>4 DEF TypeOK, ExecutorSteps
<1>6. Queued' /\ Taken' /\ Answered' /\ PermitHeld' /\ PermitReleased'
  BY <1>1, <1>3, <1>4, ClientsLeft
<1>7. GateOpen' /\ ErrorKept' /\ CancelOnce'
  BY <1>1, <1>3, <1>4 DEF Inv, GateOpen, ErrorKept, CancelOnce, Copied
<1>8. journal.status # "COMPLETED"  BY <1>1 DEF Inv, LastSteps
<1>9. LastSteps'
  <2>1. exec' = "completed" => journal' = state'  BY <1>1 DEF Persisted
  <2>2. exec' \in {"completed", "stopped", "broken"}  BY <1>1
  <2>3. exec' = "completed" => exec = "join"  BY <1>1
  <2>4. exec' = "completed" => journal'.status = IF stopped' THEN "STOPPED" ELSE "COMPLETED"
    BY <1>1, <1>3, <2>1, <2>3
  <2>5. state'.status = "COMPLETED" \/ journal'.status = "COMPLETED" =>
          /\ exec' \in {"completed", "broken"} /\ ~stopped' /\ exec = "join"
    BY <1>1, <1>3, <1>4, <1>8 DEF Copied
  <2>6. exec' \in {"exit", "join", "completed"} =>
          /\ \A c \in Clients : pc'[c] = "done"
          /\ state'.first \in {None, Controller} /\ journal'.first \in {None, Controller}
    BY <1>1, <1>2, <1>3, <2>1, <2>2, <2>3
  <2> QED  BY <1>1, <1>2, <2>4, <2>5, <2>6 DEF LastSteps
<1> QED  BY <1>5, <1>6, <1>7, <1>9 DEF Inv

LEMMA JoinTimeoutInv ==
    ASSUME Inv, JoinTimeout
    PROVE  Inv'
<1>1. /\ exec \in {"join", "joinRaised"} /\ stopped' = TRUE /\ exec' = "broken"
      /\ UNCHANGED <<state, journal, faults, closed, thread, inbox, pc, answer, proc, seen,
                     requested, terminated>>
  BY DEF JoinTimeout, clientVars
<1>2. TypeOK'  BY <1>1 DEF Inv, TypeOK, ExecutorSteps
<1>3. Queued' /\ Taken' /\ Answered' /\ PermitHeld' /\ PermitReleased'
  BY <1>1, ClientsLeft DEF Copied
<1>4. GateOpen' /\ ErrorKept' /\ CancelOnce'
  BY <1>1 DEF Inv, GateOpen, ErrorKept, CancelOnce
<1>5. LastSteps'  BY <1>1 DEF Inv, LastSteps
<1> QED  BY <1>2, <1>3, <1>4, <1>5 DEF Inv

LEMMA WorkerDiesInv ==
    ASSUME Inv, WorkerDies
    PROVE  Inv'
<1>1. /\ exec \notin {"completed", "broken"} /\ exec' = "dead" /\ inbox' = <<>>
      /\ UNCHANGED <<stopped, state, journal, faults, closed, pc, answer, proc, seen,
                     requested, terminated>>
  BY DEF WorkerDies
<1>2. thread' \in Threads /\ thread'.at = "ended"  BY DEF WorkerDies, Accepting, Threads
<1>3. TypeOK'
  <2>1. inbox' \in Seq(Clients \X Requests)  BY <1>1
  <2> QED  BY <1>1, <1>2, <2>1 DEF Inv, TypeOK, ExecutorSteps
<1>4. Queued' /\ Taken' /\ Answered' /\ PermitHeld' /\ PermitReleased'
  BY <1>1, <1>2, ClientsLeft DEF Copied
<1>5. GateOpen' /\ ErrorKept' /\ CancelOnce'
  BY <1>1, <1>2 DEF Inv, GateOpen, ErrorKept, CancelOnce
<1>6. LastSteps'  BY <1>1 DEF Inv, LastSteps
<1> QED  BY <1>3, <1>4, <1>5, <1>6 DEF Inv

-----------------------------------------------------------------------------

LEMMA Initially ==
    Init => Inv
<1> SUFFICES ASSUME Init PROVE Inv  OBVIOUS
<1>1. TypeOK
  <2>1. state \in States  BY DEF Init, States
  <2>2. inbox \in Seq(Clients \X Requests)  BY DEF Init
  <2>3. thread \in Threads  BY DEF Init, Threads, Accepting
  <2>4. journal \in States  BY <2>1 DEF Init
  <2>5. pc \in [Clients -> ClientSteps]  BY DEF Init, ClientSteps
  <2>6. answer \in [Clients -> {"none", "ok", "refused"}] /\ proc \in [Clients -> {"none", "running", "stray"}]
    BY DEF Init
  <2>7. exec \in ExecutorSteps /\ seen \subseteq Clients  BY DEF Init, ExecutorSteps
  <2>8. stopped \in BOOLEAN /\ closed \in BOOLEAN /\ requested \in BOOLEAN  BY DEF Init
  <2>9. terminated \in Nat /\ faults \in 0..MaxFaults  BY FaultsAssumption DEF Init
  <2> QED  BY <2>1, <2>2, <2>3, <2>4, <2>5, <2>6, <2>7, <2>8, <2>9 DEF TypeOK
<1>2. Queued /\ Taken /\ Answered  BY DEF Init, Queued, Taken, Answered, Busy, Accepting
<1>3. PermitHeld /\ PermitReleased
  BY DEF Init, PermitHeld, PermitReleased, Replied, UnderPermit
<1>4. GateOpen /\ ErrorKept /\ CancelOnce
  BY DEF Init, GateOpen, ErrorKept, CancelOnce, Accepting
<1>5. LastSteps  BY DEF Init, LastSteps
<1> QED  BY <1>1, <1>2, <1>3, <1>4, <1>5 DEF Inv

LEMMA Stuttering ==
    ASSUME Inv, UNCHANGED vars
    PROVE  Inv'
  BY DEF vars, Inv, TypeOK, Queued, Taken, Answered, PermitHeld, PermitReleased, GateOpen,
         ErrorKept, CancelOnce, LastSteps, Busy, Held, Released, Replied

LEMMA Inductive ==
    Inv /\ [Next]_vars => Inv'
<1> SUFFICES ASSUME Inv, [Next]_vars PROVE Inv'  OBVIOUS
<1>1. ASSUME NEW c \in Clients, NEW request \in Requests, Dispatch(c, request) PROVE Inv'
  BY <1>1, DispatchInv
<1>2. CASE \/ BadConnection \/ Reply \/ ReplyLost \/ ControllerFails \/ OnStop \/ CancelFromThread
           \/ AcceptFails \/ ThreadEnds
  BY <1>2, BadConnectionInv, ReplyInv, ReplyLostInv, ControllerFailsInv, OnStopInv,
     CancelFromThreadInv, ThreadEndsInv
<1>3. ASSUME NEW c \in Clients, Begin(c) \/ Operate(c) \/ Deadline(c) PROVE Inv'
  BY <1>3, BeginInv, ReceiveInv, UnavailableInv, BodyInv, PopenInv, KillInv DEF Operate
<1>4. ASSUME NEW c \in Clients, ClientCrashes(c) \/ ProcessExits(c) PROVE Inv'
  BY <1>4, CrashInv, ExitsInv
<1>5. ASSUME NEW c \in Clients, StepSucceeded(c) \/ StepFailed(c) PROVE Inv'
  BY <1>5, MovesInv, StepFailedInv
<1>6. CASE CheckStopped \/ CancelFromExecutor \/ EndOfSteps \/ Raises \/ Exit \/ Joined \/ JoinTimeout
  BY <1>6, MovesInv, CancelFromExecutorInv, RaisesInv, JoinedInv, JoinTimeoutInv
<1>7. CASE Interrupted \/ WorkerDies  BY <1>7, MovesInv, WorkerDiesInv
<1>8. CASE UNCHANGED vars  BY <1>8, Stuttering
<1> QED
  BY <1>1, <1>2, <1>3, <1>4, <1>5, <1>6, <1>7, <1>8 DEF Next, Serve, Conduct

(* Every reachable state of the guardian, its clients and the executor     *)
(* satisfies the inductive invariant.                                      *)
THEOREM Invariance ==
    Spec => []Inv
  BY Initially, Inductive, PTL DEF Spec

(* The guardian's records, the queue and the steps of the actors stay      *)
(* typed.                                                                  *)
THEOREM TypeCorrect ==
    Spec => []TypeOK
<1>1. Inv => TypeOK  BY DEF Inv
<1> QED  BY Invariance, <1>1, PTL

(* Whatever died and whichever write failed, a local process that may      *)
(* still run has the permit it was started under on disk (execution_safety *)
(* operation, run_process and _dispatch).                                  *)
THEOREM Accounted ==
    Spec => []ProcessAccounted
<1>1. Inv => ProcessAccounted  BY DEF Inv, PermitHeld, Held, ProcessAccounted
<1> QED  BY Invariance, <1>1, PTL

(* COMPLETED is written only for a run in which every step succeeded, no   *)
(* permit and no process is left and no error was latched (__exit__).      *)
THEOREM CompletionClean ==
    Spec => []CompletedClean
<1>1. ASSUME Inv, journal.status = "COMPLETED"
      PROVE  /\ ~stopped /\ journal.first = None
             /\ \A c \in Clients : pc[c] = "done" /\ journal.active[c] = "none" /\ proc[c] = "none"
  <2>1. ~stopped /\ \A c \in Clients : pc[c] = "done"  BY <1>1 DEF Inv, LastSteps
  <2>2. journal.first = None  BY <1>1, <2>1 DEF Inv, GateOpen
  <2>3. \A c \in Clients : journal.active[c] = "none"
    BY <1>1, <2>1 DEF Inv, PermitReleased, Released
  <2>4. \A c \in Clients : proc[c] = "none"  BY <1>1, <2>1 DEF Inv, PermitHeld
  <2> QED  BY <2>1, <2>2, <2>3, <2>4
<1>2. Inv => CompletedClean  BY <1>1 DEF CompletedClean
<1> QED  BY Invariance, <1>2, PTL

(* The executor ends without an exception only when every step succeeded,  *)
(* no permit or process is left, and the journal's end differs from        *)
(* COMPLETED only by a later failure of the guardian itself                *)
(* (SafetyExecutor.execute, _serve and __exit__).                          *)
THEOREM SuccessesAgree ==
    Spec => []SuccessAgrees
<1>1. Inv => SuccessAgrees
  BY DEF Inv, LastSteps, PermitReleased, Released, PermitHeld, SuccessAgrees
<1> QED  BY Invariance, <1>1, PTL

(* cancel_once terminates the run at most once, from whichever of the      *)
(* server thread and the executor comes first.                             *)
THEOREM TerminatesOnce ==
    Spec => []TerminatedOnce
<1>1. Inv => TerminatedOnce  BY DEF Inv, CancelOnce, TerminatedOnce
<1> QED  BY Invariance, <1>1, PTL

(* What a step may do to the guardian's state and to the journal.          *)
LEMMA StateSteps ==
    ASSUME Inv, [Next]_vars
    PROVE  /\ Copied
           /\ state.first # None => state'.first = state.first
           /\ stopped => \A d \in Clients : state.active[d] = "none" => state'.active[d] = "none"
<1> DEFINE Grants == stopped => \A d \in Clients : state.active[d] = "none" => state'.active[d] = "none"
           Good == Copied /\ (state.first # None => state'.first = state.first) /\ Grants
<1> SUFFICES Good  OBVIOUS
<1>0. TypeOK  BY DEF Inv
<1>1. ASSUME NEW c \in Clients, NEW request \in Requests, Dispatch(c, request) PROVE Good
  <2>1. (state.first # None => state'.first = state.first) /\ Grants
    BY <1>0, <1>1, EffectFacts DEF Dispatch
  <2>2. Copied  BY <1>1 DEF Dispatch, Persisted, PersistFails, Copied
  <2> QED  BY <2>1, <2>2
<1>2. ASSUME NEW cause \in Clients \cup {Controller}, Fail(cause), Persisted \/ PersistFails
      PROVE  Good
  BY <1>0, <1>2, FailedByFacts DEF Fail, Persisted, PersistFails, TypeOK, Copied
<1>3. CASE ControllerFails \/ Raises  BY <1>2, <1>3 DEF ControllerFails, Raises
<1>4. ASSUME NEW c \in Clients, StepFailed(c) PROVE Good  BY <1>2, <1>4 DEF StepFailed
<1>5. CASE Terminates  BY <1>5 DEF Terminates, Persisted, Copied
<1>6. CASE TerminationFails /\ (Persisted \/ PersistFails)  BY <1>2, <1>6 DEF TerminationFails
<1>7. CASE UNCHANGED <<state, journal>>  BY <1>7 DEF Copied
<1>8. CASE CancelFromThread  BY <1>5, <1>6, <1>8 DEF CancelFromThread
<1>9. CASE CancelFromExecutor  BY <1>5, <1>6, <1>7, <1>9 DEF CancelFromExecutor
<1>10. CASE Joined
  <2>1. PICK status : state' = [state EXCEPT !.status = status]  BY <1>10 DEF Joined
  <2>2. state'.active = state.active /\ state'.first = state.first
    BY <1>0, <2>1 DEF TypeOK, States
  <2>3. Copied  BY <1>10 DEF Joined, Persisted, PersistFails, Copied
  <2> QED  BY <2>2, <2>3
<1>11. CASE \/ BadConnection \/ Reply \/ ReplyLost \/ OnStop \/ AcceptFails \/ ThreadEnds \/ CheckStopped \/ EndOfSteps
            \/ Exit \/ JoinTimeout \/ Interrupted \/ WorkerDies \/ UNCHANGED vars
  BY <1>7, <1>11 DEF BadConnection, Reply, ReplyLost, OnStop, AcceptFails, ThreadEnds, CheckStopped, EndOfSteps, Exit,
                     JoinTimeout, Interrupted, WorkerDies, vars, guardianVars
<1>12. ASSUME NEW c \in Clients,
              \/ Begin(c) \/ Operate(c) \/ Deadline(c) \/ ClientCrashes(c) \/ ProcessExits(c)
              \/ StepSucceeded(c)
       PROVE  Good
  BY <1>7, <1>12 DEF Begin, Operate, Receive, Unavailable, RunProcess, BodyReturns, BodyRaises, Popen,
                     Poll, Communicate, Kill, Deadline, ClientCrashes, ProcessExits, StepSucceeded,
                     guardianVars
<1> HIDE DEF Good
<1>13. CASE Serve  BY <1>1, <1>3, <1>8, <1>11, <1>13 DEF Serve
<1>14. CASE Conduct  BY <1>3, <1>4, <1>9, <1>10, <1>11, <1>12, <1>14 DEF Conduct
<1> QED  BY <1>11, <1>12, <1>13, <1>14 DEF Next

(* The state latches its first error, and the journal is always a copy of  *)
(* it: no later failure replaces the first one on disk (fail, _persist).   *)
THEOREM FirstErrorStays ==
    Spec => FirstErrorKept
<1>1. Inv /\ [Next]_vars => [journal.first # None => journal'.first = journal.first]_vars
  BY StateSteps DEF Copied, Inv, ErrorKept
<1> QED  BY Invariance, <1>1, PTL DEF Spec, FirstErrorKept

(* A request that waited in the socket while the gate closed, or a client  *)
(* that asks late, gets no permit (_dispatch).                             *)
THEOREM NoLateGrant ==
    Spec => NoGrantAfterStop
<1>1. Inv /\ [Next]_vars =>
        [stopped => \A c \in Clients : state.active[c] = "none" => state'.active[c] = "none"]_vars
  BY StateSteps
<1> QED  BY Invariance, <1>1, PTL DEF Spec, NoGrantAfterStop

=============================================================================
