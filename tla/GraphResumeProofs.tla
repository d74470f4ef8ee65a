-------------------------- MODULE GraphResumeProofs --------------------------
(***************************************************************************)
(* Proofs about GraphResume, for any graph, any sets of drivers and any    *)
(* bounds.                                                                 *)
(*                                                                         *)
(* What a claim names never changes: a step only adds attempts, accepts    *)
(* them and sets the quality of one.  So what holds of an attempt when a   *)
(* driver takes it up holds for good, and the proof has to look only at    *)
(* the driver that moves (DriverKept), at the files (FilesOK) and at the   *)
(* releases (ReleasesOK).                                                  *)
(***************************************************************************)
EXTENDS GraphResume, TLAPS

Conductors == Graphs \cup Dispatches

(* The driver made the attempt at[d][j] or completed the job with it.      *)
Holds(d, j) == st[d][j] \in {"prepared", "claimed", "begun", "unit", "executed", "done"}

(* A graph that decided to reuse the attempt at[d][j].                     *)
Reusing(d, j) == d \in Graphs /\ dec[d][j] = "REUSE"

Uses(d, j) == Holds(d, j) \/ Reusing(d, j)

(* The attempt agrees on the target with each handoff it was given.        *)
Agreed(j, a) ==
    \A k \in Jobs : rec[j][a].up[k] # 0 =>
        /\ rec[j][a].up[k] <= made[k]
        /\ rec[k][rec[j][a].up[k]].snap \in {0, rec[j][a].snap}

(* The attempt in preparation was given attempts there are; if it takes    *)
(* its target from them, it takes that of one of them.                     *)
Named(j, a) ==
    /\ \A k \in Jobs : rec[j][a].up[k] <= made[k]
    /\ j \in TargetFree => \A k \in Jobs :
         rec[j][a].up[k] # 0 /\ rec[k][rec[j][a].up[k]].snap # 0 =>
           \E i \in Jobs :
             /\ rec[j][a].up[i] # 0 /\ rec[i][rec[j][a].up[i]].snap # 0
             /\ rec[i][rec[j][a].up[i]].snap = rec[j][a].snap

(* The attempt names the release the run is bound to, and is one the       *)
(* admitted repair wants.                                                  *)
Honours(j, a) ==
    /\ rec[j][a].bind = boundId[j]
    /\ repair # 0 /\ ordered[j] # "REUSE" => rec[j][a].rep = repair

(* Accepted attempts, and the releases claims name.                        *)
FilesOK == \A j \in Jobs :
    /\ accepted[j] \subseteq 1..made[j]
    /\ latest[j] \in accepted[j] \cup {0}
    /\ \A a \in accepted[j] : Agreed(j, a) /\ Measured(j, a) /\ rec[j][a].quality # "bare"
    /\ \A a \in 1..made[j] : rec[j][a] \in Record /\ rec[j][a].bind <= bound

(* A release the run is not bound to yet gives what it changes identities  *)
(* that no release a claim names has.                                      *)
ReleasesOK ==
    /\ bound <= deployed
    /\ \A j \in Jobs :
         /\ boundId[j] <= bound /\ ident[j] <= deployed
         /\ ident[j] # boundId[j] => ident[j] > bound

(* What a driver knows of the attempts it uses is true of them.            *)
Started(d) == \A j \in Jobs :
    /\ pc[d] = "idle" => st[d][j] = "todo" /\ dec[d][j] = NoDecision
    /\ d \in Graphs /\ dec[d][j] = NoDecision => st[d][j] = "todo"

Pointing(d) == \A j \in Jobs :
    /\ at[d][j] \in 0..made[j]
    /\ Holds(d, j) => at[d][j] # 0
    /\ Holds(d, j) /\ st[d][j] # "prepared" =>
         Agreed(j, at[d][j]) /\ rec[j][at[d][j]].quality # "bare"
    /\ st[d][j] = "prepared" =>
         /\ rec[j][at[d][j]].by = d /\ rec[j][at[d][j]].quality = "bare"
         /\ Named(j, at[d][j])
    /\ st[d][j] = "done" \/ Reusing(d, j) => at[d][j] \in accepted[j]

(* The claim is of the bound implementation, or split by a deployment.     *)
Runs(j, a) ==
    \/ rec[j][a].rel = boundId[j]
    \/ rec[j][a].rel > boundId[j] /\ ~Measured(j, a)

Working(d) == \A j \in Jobs : worker[d][j] = "active" =>
    \/ st[d][j] \in {"prepared", "claimed"}
    \/ st[d][j] = "unit" /\ Runs(j, at[d][j])

Fitting(d) == d \in Conductors => \A j \in Jobs :
    /\ Holds(d, j) => Ancestors[j] \subseteq Finished(d)
    /\ Uses(d, j) => rec[j][at[d][j]].up = Projection(j, at[d])
    /\ Reusing(d, j) => \A k \in Ancestors[j] \cap Propagating : dec[d][k] = "REUSE"

Forcing(d) == d \in Conductors => \A j \in Jobs :
    /\ Reusing(d, j) => ~ForceSelected(d, j)
    /\ Holds(d, j) /\ ForceSelected(d, j) => rec[j][at[d][j]].by = d
    /\ d \in Graphs /\ force[d] = j /\ dec[d][j] # NoDecision => dec[d][j] = "RUN"

Honouring(d) ==
    /\ since[d] <= repair
    /\ d \in Conductors /\ since[d] = repair =>
         \A j \in Jobs : Uses(d, j) => Honours(j, at[d][j])

DriverOK(d) ==
    Started(d) /\ Pointing(d) /\ Working(d) /\ Fitting(d) /\ Forcing(d) /\ Honouring(d)

Inv == TypeOK /\ FilesOK /\ ReleasesOK /\ \A d \in Drivers : DriverOK(d)

-----------------------------------------------------------------------------
(* The graph. *)

(* The ancestors hold the dependencies and are closed under them.          *)
LEMMA AncestorsClosed ==
    ASSUME NEW j \in Jobs
    PROVE  /\ Ancestors[j] \subseteq Jobs /\ Deps[j] \subseteq Ancestors[j]
           /\ \A i \in Ancestors[j] : Deps[i] \subseteq Ancestors[j]
<1>1. Deps[j] \subseteq Jobs /\ \A i \in Jobs : Deps[i] \subseteq Jobs
  BY GraphOrderAssumption
<1>2. Ancestors[j] = {k \in Jobs : \A S \in SUBSET Jobs :
        (Deps[j] \subseteq S /\ \A i \in S : Deps[i] \subseteq S) => k \in S}
  BY DEF Ancestors
<1> QED  BY <1>1, <1>2

(* They are the least such set.                                            *)
LEMMA AncestorsLeast ==
    ASSUME NEW j \in Jobs, NEW S \in SUBSET Jobs, Deps[j] \subseteq S,
           \A i \in S : Deps[i] \subseteq S
    PROVE  Ancestors[j] \subseteq S
  BY DEF Ancestors

(* Graph order is a topological order.                                     *)
LEMMA AncestorsBefore ==
    ASSUME NEW j \in Jobs
    PROVE  Ancestors[j] \subseteq 1..(j - 1)
<1>1. 1..(j - 1) \in SUBSET Jobs  BY GraphOrderAssumption DEF Jobs
<1>2. Deps[j] \subseteq 1..(j - 1)  BY GraphOrderAssumption DEF Jobs
<1>3. \A i \in 1..(j - 1) : Deps[i] \subseteq 1..(j - 1)  BY GraphOrderAssumption DEF Jobs
<1> QED  BY <1>1, <1>2, <1>3, AncestorsLeast

(* The ancestors are reached through the direct dependencies.              *)
LEMMA AncestorsThrough ==
    ASSUME NEW j \in Jobs
    PROVE  /\ \A i \in Deps[j] : i \in Jobs /\ Ancestors[i] \subseteq Ancestors[j]
           /\ \A k \in Ancestors[j] : k \in Deps[j] \/ \E i \in Deps[j] : k \in Ancestors[i]
<1>0. Deps[j] \subseteq Jobs  BY GraphOrderAssumption
<1>1. \A i \in Deps[j] : Ancestors[i] \subseteq Ancestors[j]
  <2> SUFFICES ASSUME NEW i \in Deps[j] PROVE Ancestors[i] \subseteq Ancestors[j]  OBVIOUS
  <2>1. i \in Jobs /\ i \in Ancestors[j]  BY <1>0, AncestorsClosed
  <2>2. Deps[i] \subseteq Ancestors[j] /\ \A m \in Ancestors[j] : Deps[m] \subseteq Ancestors[j]
    BY <2>1, AncestorsClosed
  <2> QED  BY <2>1, <2>2, AncestorsClosed, AncestorsLeast
<1> DEFINE S == Deps[j] \cup {k \in Jobs : \E i \in Deps[j] : k \in Ancestors[i]}
<1>2. S \in SUBSET Jobs  BY <1>0
<1>3. ASSUME NEW m \in S PROVE Deps[m] \subseteq S
  <2>1. CASE m \in Deps[j]
    <3>1. m \in Jobs  BY <1>0, <2>1
    <3>2. Deps[m] \subseteq Ancestors[m] /\ Ancestors[m] \subseteq Jobs  BY <3>1, AncestorsClosed
    <3> QED  BY <2>1, <3>2
  <2>2. CASE m \notin Deps[j]
    <3>1. PICK i \in Deps[j] : m \in Ancestors[i]  BY <1>3, <2>2
    <3>2. i \in Jobs  BY <1>0
    <3>3. Deps[m] \subseteq Ancestors[i] /\ Ancestors[i] \subseteq Jobs
      BY <3>1, <3>2, AncestorsClosed
    <3> QED  BY <3>1, <3>3
  <2> QED  BY <2>1, <2>2
<1>4. Ancestors[j] \subseteq S
  <2> HIDE DEF S
  <2>1. Deps[j] \subseteq S  BY DEF S
  <2> QED  BY <1>2, <1>3, <2>1, AncestorsLeast
<1> QED  BY <1>0, <1>1, <1>4

(* A set of jobs that holds the dependencies of each of them holds their   *)
(* ancestors.                                                              *)
LEMMA AncestorsWithin ==
    ASSUME NEW S \in SUBSET Jobs, \A i \in S : Ancestors[i] \subseteq S,
           NEW j \in Jobs, Deps[j] \subseteq S
    PROVE  Ancestors[j] \subseteq S
<1>1. ASSUME NEW k \in Ancestors[j] PROVE k \in S
  <2>1. k \in Deps[j] \/ \E i \in Deps[j] : k \in Ancestors[i]  BY AncestorsThrough
  <2> QED  BY <2>1
<1> QED  BY <1>1

LEMMA ProjectionFacts ==
    ASSUME NEW j \in Jobs, NEW up \in Hashes
    PROVE  /\ Projection(j, up) \in Hashes
           /\ \A k \in Jobs : Projection(j, up)[k] \in {0, up[k]}
           /\ \A k \in Ancestors[j] \cap Propagating : Projection(j, up)[k] = up[k]
<1>1. Ancestors[j] \subseteq Jobs  BY AncestorsClosed
<1>2. MaxAttempt \in Nat  BY BoundsAssumption
<1> QED  BY <1>1, <1>2 DEF Projection, Hashes

(* The projection looks at the propagating ancestors only.                 *)
LEMMA ProjectionSame ==
    ASSUME NEW j \in Jobs, NEW up, NEW down,
           \A k \in Ancestors[j] \cap Propagating : up[k] = down[k]
    PROVE  Projection(j, up) = Projection(j, down)
  BY DEF Projection

-----------------------------------------------------------------------------
(* What every step keeps. *)

(* Attempts are added and accepted, and what a claim says stays.  A claim  *)
(* is written by the driver that prepared its attempt.                     *)
Kept == \A j \in Jobs :
    /\ made[j] <= made'[j] /\ accepted[j] \subseteq accepted'[j]
    /\ \A a \in 1..made[j] :
         /\ rec'[j][a].by = rec[j][a].by /\ rec'[j][a].up = rec[j][a].up
         /\ rec'[j][a].snap = rec[j][a].snap /\ rec'[j][a].bind = rec[j][a].bind
         /\ rec'[j][a].rep = rec[j][a].rep
         /\ rec[j][a].quality # "bare" =>
              rec'[j][a].rel = rec[j][a].rel /\ rec'[j][a].quality # "bare"
         /\ rec[j][a].quality = "bare" /\ rec'[j][a].quality # "bare" =>
              LET d == rec[j][a].by IN st[d][j] = "prepared" /\ st'[d][j] # "prepared"

(* The fields of the attempts and the pointers of the drivers.             *)
LEMMA Typed ==
    ASSUME TypeOK
    PROVE  /\ \A j \in Jobs : made[j] \in Nat /\ made[j] <= MaxAttempt
           /\ \A j \in Jobs : \A a \in Attempts :
                /\ rec[j][a].up \in Hashes /\ rec[j][a].snap \in 0..MaxTarget
                /\ rec[j][a].rel \in 0..MaxRelease /\ rec[j][a].bind \in 0..MaxRelease
                /\ rec[j][a].rep \in 0..MaxRepair
           /\ \A j \in Jobs : 1..made[j] \subseteq Attempts
           /\ \A d \in Drivers : at[d] \in Hashes
<1>1. MaxAttempt \in Nat /\ MaxTarget \in Nat /\ MaxRelease \in Nat /\ MaxRepair \in Nat
  BY BoundsAssumption
<1>2. \A j \in Jobs : made[j] \in Nat /\ made[j] <= MaxAttempt  BY <1>1 DEF TypeOK
<1>3. ASSUME NEW r \in Record \cup {NoRecord}
      PROVE  /\ r.up \in Hashes /\ r.snap \in 0..MaxTarget
             /\ r.rel \in 0..MaxRelease /\ r.bind \in 0..MaxRelease /\ r.rep \in 0..MaxRepair
  BY <1>1, <1>3 DEF Record, NoRecord, Hashes
<1>4. \A j \in Jobs : \A a \in Attempts : rec[j][a] \in Record \cup {NoRecord}  BY DEF TypeOK
<1>5. \A j \in Jobs : 1..made[j] \subseteq Attempts  BY <1>1, <1>2 DEF Attempts
<1>6. \A d \in Drivers : at[d] \in Hashes  BY DEF TypeOK
<1> QED  BY <1>2, <1>3, <1>4, <1>5, <1>6

LEMMA AgreedKept ==
    ASSUME TypeOK, TypeOK', Kept, NEW j \in Jobs, NEW a \in 1..made[j], Agreed(j, a)
    PROVE  Agreed(j, a)'
<1> DEFINE up == rec[j][a].up
<1>1. /\ rec'[j][a].up = up /\ rec'[j][a].snap = rec[j][a].snap
  BY DEF Kept
<1>2. up \in Hashes /\ \A k \in Jobs : made[k] \in Nat /\ made'[k] \in Nat /\ made[k] <= made'[k]
  <2>1. a \in Attempts  BY Typed
  <2>2. up \in Hashes  BY <2>1, Typed
  <2>3. \A k \in Jobs : made[k] \in Nat  BY Typed
  <2>4. \A k \in Jobs : made'[k] \in Nat  BY BoundsAssumption DEF TypeOK
  <2> HIDE DEF up
  <2> QED  BY <2>2, <2>3, <2>4 DEF Kept
<1>3. ASSUME NEW k \in Jobs, up[k] # 0
      PROVE  up[k] <= made'[k] /\ rec'[k][up[k]].snap \in {0, rec[j][a].snap}
  <2>1. up[k] <= made[k] /\ rec[k][up[k]].snap \in {0, rec[j][a].snap}  BY <1>3 DEF Agreed
  <2>2. up[k] \in 1..made[k]  BY <1>2, <1>3, <2>1, BoundsAssumption DEF Hashes
  <2>3. up[k] \in Nat  BY <2>2, SMTT(30)
  <2> HIDE DEF up
  <2> QED  BY <1>2, <2>1, <2>2, <2>3 DEF Kept
<1> QED  BY <1>1, <1>3 DEF Agreed

LEMMA NamedKept ==
    ASSUME TypeOK, TypeOK', Kept, NEW j \in Jobs, NEW a \in 1..made[j], Named(j, a)
    PROVE  Named(j, a)'
<1> DEFINE up == rec[j][a].up
           named == {k \in Jobs : up[k] # 0}
<1>1. rec'[j][a].up = up /\ rec'[j][a].snap = rec[j][a].snap  BY DEF Kept
<1>2. up \in Hashes  BY Typed
<1>3. \A k \in Jobs : made[k] \in Nat /\ made'[k] \in Nat /\ made[k] <= made'[k]
  BY Typed, BoundsAssumption DEF TypeOK, Kept
<1>4. \A k \in Jobs : up[k] \in Nat /\ up[k] <= made[k]
  BY <1>2, BoundsAssumption DEF Named, Hashes
<1>5. \A k \in named : rec'[k][up[k]].snap = rec[k][up[k]].snap
  <2> HIDE DEF up
  <2> QED  BY <1>3, <1>4, SMTT(30) DEF Kept
<1>6. j \in TargetFree => \A k \in named : rec[k][up[k]].snap # 0 =>
        \E i \in named : rec[i][up[i]].snap # 0 /\ rec[i][up[i]].snap = rec[j][a].snap
  BY DEF Named
<1>7. j \in TargetFree => \A k \in named : rec'[k][up[k]].snap # 0 =>
        \E i \in named : rec'[i][up[i]].snap # 0 /\ rec'[i][up[i]].snap = rec[j][a].snap
  <2> HIDE DEF named, up
  <2> QED  BY <1>5, <1>6
<1>11. \A k \in Jobs : rec'[j][a].up[k] <= made'[k]
  <2> HIDE DEF up
  <2> QED  BY <1>1, <1>3, <1>4
<1> QED  BY <1>1, <1>7, <1>11 DEF Named

(* A driver uses an attempt that was made.                                 *)
LEMMA UsedAttempt ==
    ASSUME Inv, NEW d \in Drivers, NEW j \in Jobs, Uses(d, j)
    PROVE  at[d][j] \in 1..made[j]
<1>1. TypeOK /\ DriverOK(d)  BY DEF Inv
<1>2. at[d][j] \in 0..made[j] /\ made[j] \in Nat  BY <1>1, Typed DEF DriverOK, Pointing
<1>3. at[d][j] # 0  BY <1>1, <1>2 DEF DriverOK, Pointing, Uses, Inv, FilesOK
<1> QED  BY <1>2, <1>3

(* A driver that does not move keeps what it knows of its attempts.        *)
LEMMA DriverKept ==
    ASSUME Inv, TypeOK', Kept, NEW d \in Drivers,
           at'[d] = at[d], st'[d] = st[d], dec'[d] = dec[d], force'[d] = force[d],
           pc'[d] = "idle" => pc[d] = "idle"
    PROVE  Started(d)' /\ Pointing(d)' /\ Fitting(d)' /\ Forcing(d)'
<1>0. TypeOK /\ DriverOK(d)  BY DEF Inv
<1>1. Started(d)'  BY <1>0 DEF DriverOK, Started
<1>2. \A j \in Jobs : /\ Holds(d, j)' <=> Holds(d, j)
                      /\ Reusing(d, j)' <=> Reusing(d, j)
                      /\ Uses(d, j)' <=> Uses(d, j)
                      /\ ForceSelected(d, j)' <=> ForceSelected(d, j)
  BY DEF Holds, Reusing, Uses, ForceSelected
<1>3. Finished(d)' = Finished(d)  BY DEF Finished
<1>4. ASSUME NEW j \in Jobs, Uses(d, j) PROVE at[d][j] \in 1..made[j]
  BY <1>4, UsedAttempt
<1>5. Pointing(d)'
  <2> SUFFICES ASSUME NEW j \in Jobs
               PROVE  /\ at[d][j] \in 0..made'[j]
                      /\ Holds(d, j) => at[d][j] # 0
                      /\ Holds(d, j) /\ st[d][j] # "prepared" =>
                           Agreed(j, at[d][j])' /\ rec'[j][at[d][j]].quality # "bare"
                      /\ st[d][j] = "prepared" =>
                           /\ rec'[j][at[d][j]].by = d /\ rec'[j][at[d][j]].quality = "bare"
                           /\ Named(j, at[d][j])'
                      /\ st[d][j] = "done" \/ Reusing(d, j) => at[d][j] \in accepted'[j]
    BY <1>2, Zenon DEF Pointing, Agreed, Named
  <2>1. at[d][j] \in 0..made'[j]
    BY <1>0, Typed DEF DriverOK, Pointing, Kept, TypeOK
  <2>2. Holds(d, j) => at[d][j] # 0 /\ at[d][j] \in 1..made[j]
    BY <1>0, <1>4 DEF DriverOK, Pointing, Uses
  <2>3. ASSUME Holds(d, j), st[d][j] # "prepared"
        PROVE  Agreed(j, at[d][j])' /\ rec'[j][at[d][j]].quality # "bare"
    <3>1. Agreed(j, at[d][j]) /\ rec[j][at[d][j]].quality # "bare"
      BY <1>0, <2>3 DEF DriverOK, Pointing
    <3>2. rec'[j][at[d][j]].quality # "bare"  BY <2>2, <2>3, <3>1 DEF Kept
    <3> QED  BY <1>0, <2>2, <2>3, <3>1, <3>2, AgreedKept
  <2>4. ASSUME st[d][j] = "prepared"
        PROVE  /\ rec'[j][at[d][j]].by = d /\ rec'[j][at[d][j]].quality = "bare"
               /\ Named(j, at[d][j])'
    <3>1. /\ at[d][j] \in 1..made[j] /\ Named(j, at[d][j])
          /\ rec[j][at[d][j]].by = d /\ rec[j][at[d][j]].quality = "bare"
      BY <1>0, <2>2, <2>4 DEF DriverOK, Pointing, Holds
    <3>2. st'[d][j] = "prepared"  BY <2>4
    <3>3. rec'[j][at[d][j]].by = d /\ rec'[j][at[d][j]].quality = "bare"
      BY <3>1, <3>2 DEF Kept
    <3> QED  BY <1>0, <3>1, <3>3, NamedKept
  <2>5. st[d][j] = "done" \/ Reusing(d, j) => at[d][j] \in accepted'[j]
    BY <1>0 DEF DriverOK, Pointing, Kept
  <2> QED  BY <2>1, <2>2, <2>3, <2>4, <2>5
<1>6. \A j \in Jobs : Projection(j, at[d])' = Projection(j, at[d])
  BY DEF Projection
<1>7. Fitting(d)'
  BY <1>0, <1>2, <1>3, <1>4, <1>6 DEF DriverOK, Fitting, Kept
<1>8. Forcing(d)'
  BY <1>0, <1>2, <1>4 DEF DriverOK, Forcing, Kept, Uses
<1> QED  BY <1>1, <1>5, <1>7, <1>8

(* The same for its worker records and the repair, while the release is    *)
(* the one bound.                                                          *)
LEMMA DriverAlone ==
    ASSUME Inv, TypeOK', Kept, NEW d \in Drivers,
           at'[d] = at[d], st'[d] = st[d], dec'[d] = dec[d], force'[d] = force[d],
           since'[d] = since[d], pc'[d] = "idle" => pc[d] = "idle",
           \A j \in Jobs : worker'[d][j] = "active" => worker[d][j] = "active",
           UNCHANGED <<boundId, repair, ordered>>
    PROVE  DriverOK(d)'
<1>0. TypeOK /\ DriverOK(d)  BY DEF Inv
<1>1. Started(d)' /\ Pointing(d)' /\ Fitting(d)' /\ Forcing(d)'  BY DriverKept
<1>2. \A j \in Jobs : (Uses(d, j)' <=> Uses(d, j)) /\ (Uses(d, j) => at[d][j] \in 1..made[j])
  <2>1. \A j \in Jobs : Uses(d, j)' <=> Uses(d, j)  BY DEF Uses, Holds, Reusing
  <2> QED  BY <2>1, UsedAttempt
<1>3. Working(d)'
  <2>1. ASSUME NEW j \in Jobs, worker'[d][j] = "active", st[d][j] \notin {"prepared", "claimed"}
        PROVE  st[d][j] = "unit" /\ Runs(j, at[d][j])'
    <3>1. st[d][j] = "unit" /\ Runs(j, at[d][j])
      BY <1>0, <2>1 DEF DriverOK, Working
    <3>2. at[d][j] \in 1..made[j]  BY <1>2, <3>1 DEF Uses, Holds
    <3>3. rec[j][at[d][j]].quality # "bare"  BY <1>0, <3>1 DEF DriverOK, Pointing, Holds
    <3> QED  BY <3>1, <3>2, <3>3 DEF Kept, Runs, Measured
  <2> QED  BY <2>1 DEF Working, Runs
<1>4. Honouring(d)'
  <2>1. ASSUME NEW j \in Jobs, Uses(d, j), Honours(j, at[d][j])
        PROVE  Honours(j, at[d][j])'
    <3>1. at[d][j] \in 1..made[j]  BY <1>2, <2>1
    <3> QED  BY <2>1, <3>1 DEF Honours, Kept
  <2> QED  BY <1>0, <1>2, <2>1 DEF DriverOK, Honouring, Honours
<1> QED  BY <1>1, <1>3, <1>4 DEF DriverOK

LEMMA FilesKept ==
    ASSUME Inv, UNCHANGED files, bound' \in Nat, bound <= bound'
    PROVE  FilesOK' /\ Kept
<1>1. TypeOK  BY DEF Inv
<1>2. Kept  BY <1>1, Typed DEF files, Kept
<1>3. \A j \in Jobs : \A a \in 1..made[j] : rec[j][a].bind <= bound'
  <2>1. \A j \in Jobs : \A a \in 1..made[j] : rec[j][a].bind \in Nat /\ bound \in Nat
    <3>1. bound \in Nat  BY <1>1, BoundsAssumption DEF TypeOK
    <3>2. \A j \in Jobs : \A a \in Attempts : rec[j][a].bind \in Nat
      BY <1>1, Typed, BoundsAssumption
    <3> QED  BY <1>1, <3>1, <3>2, Typed
  <2> QED  BY <2>1 DEF Inv, FilesOK
<1>4. \A j \in Jobs : \A a : Agreed(j, a)' <=> Agreed(j, a)  BY DEF files, Agreed
<1>5. FilesOK'  BY <1>3, <1>4 DEF Inv, FilesOK, files, Measured
<1> QED  BY <1>2, <1>5

-----------------------------------------------------------------------------
(* Steps that take up no attempt. *)

(* Something ends, dies, is read or is verified.                           *)
LEMMA Quiet ==
    ASSUME Inv, TypeOK', UNCHANGED <<files, release, at, dec, st, force, since>>,
           \A d \in Drivers : pc'[d] = "idle" => pc[d] = "idle",
           \A d \in Drivers, j \in Jobs : worker'[d][j] = "active" => worker[d][j] = "active"
    PROVE  Inv'
<1>1. bound' = bound /\ bound \in Nat  BY BoundsAssumption DEF Inv, TypeOK, release
<1>2. FilesOK' /\ Kept  BY <1>1, FilesKept
<1>3. ReleasesOK'  BY DEF Inv, ReleasesOK, release
<1>4. ASSUME NEW d \in Drivers PROVE DriverOK(d)'
  BY <1>2, <1>4, DriverAlone DEF release
<1> QED  BY <1>2, <1>3, <1>4 DEF Inv

(* A claimed attempt goes on, or a job is given up.                        *)
LEMMA JobMoves ==
    ASSUME Inv, TypeOK', UNCHANGED <<files, release, at, dec, force, since>>,
           NEW d \in Drivers, NEW j \in Jobs,
           st'[d][j] \in {"unit", "executed"} => st[d][j] \in {"begun", "unit"},
           st'[d][j] \in {"unit", "executed", "failed"}, st[d][j] # "done",
           \A i \in Jobs : i # j => st'[d][i] = st[d][i],
           \A e \in Drivers : e # d => st'[e] = st[e],
           d \in Graphs => dec[d][j] # NoDecision,
           pc'[d] # "idle", \A e \in Drivers : pc'[e] = "idle" => pc[e] = "idle",
           \A e \in Drivers, i \in Jobs : worker'[e][i] = "active" =>
               \/ worker[e][i] = "active" /\ (e # d \/ i # j)
               \/ e = d /\ i = j /\ st'[d][j] = "unit" /\ Runs(j, at[d][j])
    PROVE  Inv'
<1>0. TypeOK /\ DriverOK(d)  BY DEF Inv
<1>1. bound' = bound /\ bound \in Nat /\ UNCHANGED <<made, rec, accepted, boundId, repair, ordered>>
  BY BoundsAssumption DEF Inv, TypeOK, release, files
<1>2. FilesOK' /\ Kept  BY <1>1, FilesKept
<1>3. ReleasesOK'  BY DEF Inv, ReleasesOK, release
<1>4. /\ \A i \in Jobs : i # j => st'[d][i] = st[d][i]
      /\ \A e \in Drivers : e # d => st'[e] = st[e]
  OBVIOUS
<1>5. ASSUME NEW e \in Drivers, e # d PROVE DriverOK(e)'
  BY <1>1, <1>2, <1>4, <1>5, DriverAlone
<1>6. /\ \A i \in Jobs : Holds(d, i)' => Holds(d, i)
      /\ \A i \in Jobs : Reusing(d, i)' <=> Reusing(d, i)
      /\ \A i \in Jobs : ForceSelected(d, i)' <=> ForceSelected(d, i)
      /\ Finished(d)' = Finished(d)
  <2>1. \A i \in Jobs : Holds(d, i)' => Holds(d, i)  BY <1>4 DEF Holds
  <2>2. \A i \in Jobs : (Reusing(d, i)' <=> Reusing(d, i)) /\ (ForceSelected(d, i)' <=> ForceSelected(d, i))
    BY DEF Reusing, ForceSelected
  <2>3. Finished(d)' = Finished(d)  BY <1>4 DEF Finished
  <2> QED  BY <2>1, <2>2, <2>3
<1>7. Started(d)'  BY <1>0, <1>4 DEF DriverOK, Started
<1>8. Pointing(d)'
  <2>1. \A i \in Jobs : \A a : Agreed(i, a)' <=> Agreed(i, a)  BY <1>1 DEF Agreed
  <2>2. \A i \in Jobs : /\ st'[d][i] = "done" => st[d][i] = "done"
                        /\ st'[d][i] = "prepared" => st[d][i] = "prepared"
                        /\ Holds(d, i)' /\ st'[d][i] # "prepared" => st[d][i] # "prepared"
    BY <1>4 DEF Holds
  <2>3. \A i \in Jobs : \A a : Named(i, a)' <=> Named(i, a)  BY <1>1 DEF Named
  <2>4. at'[d] = at[d]  OBVIOUS
  <2>5. ASSUME NEW i \in Jobs
        PROVE  /\ Agreed(i, at[d][i])' <=> Agreed(i, at[d][i])
               /\ Named(i, at[d][i])' <=> Named(i, at[d][i])
    BY <1>1, <2>4 DEF Agreed, Named
  <2>6. ASSUME NEW i \in Jobs
        PROVE  /\ at'[d][i] \in 0..made'[i]
               /\ Holds(d, i)' => at'[d][i] # 0
               /\ Holds(d, i)' /\ st'[d][i] # "prepared" =>
                    Agreed(i, at[d][i])' /\ rec'[i][at'[d][i]].quality # "bare"
               /\ st'[d][i] = "prepared" =>
                    /\ rec'[i][at'[d][i]].by = d /\ rec'[i][at'[d][i]].quality = "bare"
                    /\ Named(i, at[d][i])'
               /\ st'[d][i] = "done" \/ Reusing(d, i)' => at'[d][i] \in accepted'[i]
    <3>1. /\ at[d][i] \in 0..made[i]
          /\ Holds(d, i) => at[d][i] # 0
          /\ Holds(d, i) /\ st[d][i] # "prepared" =>
               Agreed(i, at[d][i]) /\ rec[i][at[d][i]].quality # "bare"
          /\ st[d][i] = "prepared" =>
               /\ rec[i][at[d][i]].by = d /\ rec[i][at[d][i]].quality = "bare"
               /\ Named(i, at[d][i])
          /\ st[d][i] = "done" \/ Reusing(d, i) => at[d][i] \in accepted[i]
      BY <1>0 DEF DriverOK, Pointing
    <3>2. at'[d][i] = at[d][i] /\ made'[i] = made[i] /\ rec'[i] = rec[i] /\ accepted'[i] = accepted[i]
      BY <1>1, <2>4
    <3>3. Holds(d, i)' => at'[d][i] # 0  BY <1>6, <3>1, <3>2
    <3>4. Holds(d, i)' /\ st'[d][i] # "prepared" =>
            Agreed(i, at[d][i])' /\ rec'[i][at'[d][i]].quality # "bare"
      <4> SUFFICES ASSUME Holds(d, i)', st'[d][i] # "prepared"
                   PROVE  Agreed(i, at[d][i])' /\ rec'[i][at'[d][i]].quality # "bare"
        OBVIOUS
      <4>1. Holds(d, i)  BY <1>6
      <4>2. st[d][i] # "prepared"  BY <1>4 DEF Holds
      <4>3. Agreed(i, at[d][i]) /\ rec[i][at[d][i]].quality # "bare"  BY <3>1, <4>1, <4>2
      <4>4. rec'[i][at'[d][i]].quality # "bare"  BY <3>2, <4>3
      <4> QED  BY <2>5, <4>3, <4>4
    <3>5. st'[d][i] = "prepared" =>
            /\ rec'[i][at'[d][i]].by = d /\ rec'[i][at'[d][i]].quality = "bare"
            /\ Named(i, at[d][i])'
      BY <2>2, <2>5, <3>1, <3>2
    <3>6. st'[d][i] = "done" \/ Reusing(d, i)' => at'[d][i] \in accepted'[i]
      BY <1>6, <2>2, <3>1, <3>2
    <3> QED  BY <3>1, <3>2, <3>3, <3>4, <3>5, <3>6
  <2> QED  BY <2>6 DEF Pointing
<1>9. Working(d)'  BY <1>0, <1>1, <1>4 DEF DriverOK, Working, Runs, Measured
<1>10. \A i \in Jobs : Uses(d, i)' => Uses(d, i)  BY <1>6 DEF Uses
<1>11. Fitting(d)'
  <2>1. \A i \in Jobs : Projection(i, at[d])' = Projection(i, at[d])  BY DEF Projection
  <2> QED  BY <1>0, <1>1, <1>6, <1>10, <2>1 DEF DriverOK, Fitting
<1>12. Forcing(d)'  BY <1>0, <1>1, <1>6 DEF DriverOK, Forcing
<1>13. Honouring(d)'  BY <1>0, <1>1, <1>10 DEF DriverOK, Honouring, Honours
<1>14. DriverOK(d)'  BY <1>7, <1>8, <1>9, <1>11, <1>12, <1>13 DEF DriverOK
<1> QED  BY <1>2, <1>3, <1>5, <1>14 DEF Inv

(* A claim of the deployed identity names the bound one, unless it is      *)
(* split.                                                                  *)
LEMMA CurrentBound ==
    ASSUME Inv, NEW j \in Jobs, NEW a \in 1..made[j], rec[j][a].rel = ident[j]
    PROVE  /\ Measured(j, a) => ident[j] = boundId[j] /\ rec[j][a].bind = boundId[j]
           /\ Runs(j, a)
<1>1. rec[j][a].bind <= bound  BY DEF Inv, FilesOK
<1>2. (ident[j] # boundId[j] => ident[j] > bound) /\ boundId[j] <= bound  BY DEF Inv, ReleasesOK
<1>3. ident[j] \in Nat /\ bound \in Nat /\ boundId[j] \in Nat  BY BoundsAssumption DEF Inv, TypeOK
<1>4. rec[j][a].bind \in Nat  BY BoundsAssumption, Typed DEF Inv
<1> QED  BY <1>1, <1>2, <1>3, <1>4 DEF Measured, Runs

LEMMA GiveUpFacts ==
    ASSUME TypeOK, NEW d \in Drivers, NEW j \in Jobs, pc[d] = "run", GiveUp(d, j)
    PROVE  /\ st'[d][j] = "failed" /\ \A i \in Jobs : i # j => st'[d][i] = st[d][i]
           /\ \A e \in Drivers : e # d => st'[e] = st[e]
           /\ st' \in [Drivers -> [Jobs -> Stages]]
           /\ pc' \in [Drivers -> {"idle", "plan", "run", "done", "failed"}]
           /\ lock' \in Graphs \cup {Free}
           /\ pc'[d] # "idle" /\ \A e \in Drivers : pc'[e] = "idle" => pc[e] = "idle"
<1>1. st' = [st EXCEPT ![d][j] = "failed"]  BY DEF GiveUp
<1>2. st' \in [Drivers -> [Jobs -> Stages]]
  BY <1>1 DEF TypeOK, Stages
<1>6. /\ st'[d][j] = "failed" /\ \A i \in Jobs : i # j => st'[d][i] = st[d][i]
      /\ \A e \in Drivers : e # d => st'[e] = st[e]
  BY <1>1 DEF TypeOK
<1>3. pc' = pc \/ pc' = [pc EXCEPT ![d] = "failed"]  BY DEF GiveUp
<1>4. /\ pc' \in [Drivers -> {"idle", "plan", "run", "done", "failed"}]
      /\ pc'[d] # "idle" /\ \A e \in Drivers : pc'[e] = "idle" => pc[e] = "idle"
  BY <1>3 DEF TypeOK
<1>5. lock' \in Graphs \cup {Free}  BY DEF GiveUp, TypeOK
<1> QED  BY <1>2, <1>4, <1>5, <1>6

LEMMA EnterUnitInv ==
    ASSUME Inv, NEW d \in Drivers, NEW j \in Jobs, EnterUnit(d, j)
    PROVE  Inv'
<1>0. TypeOK /\ DriverOK(d)  BY DEF Inv
<1>1. /\ pc[d] = "run" /\ st[d][j] = "begun" /\ rec[j][at[d][j]].rel = ident[j]
      /\ st' = [st EXCEPT ![d][j] = "unit"] /\ worker' = [worker EXCEPT ![d][j] = "active"]
      /\ UNCHANGED <<files, release, target, lock, stopped, pc, force, fp, since, dec, at, gaps, refused>>
  BY DEF EnterUnit, Current, local
<1>2. TypeOK'  BY <1>0, <1>1 DEF TypeOK, Stages, files, release
<1>3. at[d][j] \in 1..made[j]  BY <1>1, UsedAttempt DEF Uses, Holds
<1>4. Runs(j, at[d][j])  BY <1>1, <1>3, CurrentBound
<1>5. d \in Graphs => dec[d][j] # NoDecision  BY <1>0, <1>1 DEF DriverOK, Started
<1>6. \A e \in Drivers, i \in Jobs : worker'[e][i] = "active" =>
        \/ worker[e][i] = "active" /\ (e # d \/ i # j)
        \/ e = d /\ i = j /\ Runs(j, at[d][j])
  BY <1>0, <1>1, <1>4 DEF TypeOK
<1>7. pc'[d] # "idle" /\ \A e \in Drivers : pc'[e] = "idle" => pc[e] = "idle"  BY <1>1
<1>8. UNCHANGED <<files, release, at, dec, force, since>>  BY <1>1
<1>9. /\ st[d][j] = "begun" /\ st[d][j] # "done"
      /\ st'[d][j] = "unit" /\ \A i \in Jobs : i # j => st'[d][i] = st[d][i]
      /\ \A e \in Drivers : e # d => st'[e] = st[e]
  BY <1>0, <1>1 DEF TypeOK
<1> QED  BY <1>2, <1>5, <1>6, <1>7, <1>8, <1>9, JobMoves

LEMMA LeaveUnitInv ==
    ASSUME Inv, NEW d \in Drivers, NEW j \in Jobs, LeaveUnit(d, j)
    PROVE  Inv'
<1>0. TypeOK /\ DriverOK(d)  BY DEF Inv
<1>1. /\ pc[d] = "run" /\ st[d][j] = "unit"
      /\ worker' = [worker EXCEPT ![d][j] = "none"]
      /\ UNCHANGED <<files, release, target, stopped, force, fp, since, dec, at, gaps, refused>>
      /\ (st' = [st EXCEPT ![d][j] = "executed"] /\ UNCHANGED <<pc, lock>>) \/ GiveUp(d, j)
  BY DEF LeaveUnit, Leave, local
<1>2. d \in Graphs => dec[d][j] # NoDecision  BY <1>0, <1>1 DEF DriverOK, Started
<1>3. \A e \in Drivers, i \in Jobs : worker'[e][i] = "active" =>
        worker[e][i] = "active" /\ (e # d \/ i # j)
  BY <1>0, <1>1 DEF TypeOK
<1>4. CASE st' = [st EXCEPT ![d][j] = "executed"] /\ UNCHANGED <<pc, lock>>
  <2>1. TypeOK'  BY <1>0, <1>1, <1>4 DEF TypeOK, Stages, files, release
  <2>2. pc'[d] # "idle" /\ \A e \in Drivers : pc'[e] = "idle" => pc[e] = "idle"  BY <1>1, <1>4
  <2>3. UNCHANGED <<files, release, at, dec, force, since>>  BY <1>1
  <2>4. st[d][j] = "unit" /\ st[d][j] # "done"  BY <1>1
  <2>5. /\ st'[d][j] = "executed" /\ \A i \in Jobs : i # j => st'[d][i] = st[d][i]
        /\ \A e \in Drivers : e # d => st'[e] = st[e]
    BY <1>0, <1>4 DEF TypeOK
  <2> QED  BY <1>2, <1>3, <2>1, <2>2, <2>3, <2>4, <2>5, JobMoves
<1>5. CASE GiveUp(d, j)
  <2>1. TypeOK'  BY <1>0, <1>1, <1>5, GiveUpFacts DEF TypeOK, files, release
  <2> QED  BY <1>0, <1>1, <1>2, <1>3, <1>5, <2>1, GiveUpFacts, JobMoves
<1> QED  BY <1>1, <1>4, <1>5

(* A driver gives a claimed or prepared attempt up.                        *)
LEMMA GivesUp ==
    ASSUME Inv, NEW d \in Drivers, NEW j \in Jobs, pc[d] = "run",
           st[d][j] \in {"prepared", "claimed", "begun", "executed"}, GiveUp(d, j), Leave(d, j),
           UNCHANGED <<files, target, release, stopped, local, dec, at, gaps, refused>>
    PROVE  Inv'
<1>0. TypeOK /\ DriverOK(d)  BY DEF Inv
<1>1. /\ worker' = [worker EXCEPT ![d][j] = "none"]
      /\ UNCHANGED <<files, release, target, stopped, force, fp, since, dec, at, gaps, refused>>
  BY DEF Leave, local
<1>2. d \in Graphs => dec[d][j] # NoDecision  BY <1>0 DEF DriverOK, Started
<1>3. \A e \in Drivers, i \in Jobs : worker'[e][i] = "active" =>
        worker[e][i] = "active" /\ (e # d \/ i # j)
  BY <1>0, <1>1 DEF TypeOK
<1>4. TypeOK'  BY <1>0, <1>1, GiveUpFacts DEF TypeOK, files, release
<1> QED  BY <1>0, <1>1, <1>2, <1>3, <1>4, GiveUpFacts, JobMoves

LEMMA RaiseChangedInv ==
    ASSUME Inv, NEW d \in Drivers, NEW j \in Jobs, RaiseChanged(d, j) \/ AbandonAttempt(d, j)
    PROVE  Inv'
  BY GivesUp DEF RaiseChanged, AbandonAttempt

LEMMA RefuseAttemptInv ==
    ASSUME Inv, NEW d \in Drivers, NEW j \in Jobs, pc[d] = "run", st[d][j] = "todo",
           d \in Graphs => dec[d][j] # NoDecision, RefuseAttempt(d, j),
           UNCHANGED <<target, release, stopped, local>>
    PROVE  Inv'
<1>0. TypeOK /\ DriverOK(d)  BY DEF Inv
<1>1. /\ GiveUp(d, j) /\ refused' \subseteq Drivers
      /\ UNCHANGED <<files, release, target, worker, stopped, force, fp, since, dec, at, gaps>>
  BY <1>0 DEF RefuseAttempt, TypeOK, local, files
<1>2. worker[d][j] # "active"  BY <1>0 DEF DriverOK, Working
<1>3. TypeOK'  BY <1>0, <1>1, GiveUpFacts DEF TypeOK, files, release
<1> QED  BY <1>0, <1>1, <1>2, <1>3, GiveUpFacts, JobMoves

-----------------------------------------------------------------------------
(* Steps that only end, move or verify something. *)

LEMMA QuietInv ==
    ASSUME Inv,
           \/ \E g \in Graphs : FingerprintTarget(g) \/ CompleteGraph(g)
           \/ \E d \in Dispatches : CompleteDispatch(d) \/ FailDispatch(d) \/ VerifyStop(d)
           \/ \E l \in Launches : CompleteLaunch(l)
           \/ ChangeTarget
    PROVE  Inv'
<1>0. TypeOK  BY DEF Inv
<1>1. UNCHANGED <<files, release, worker, force, since, dec, st, at, gaps, refused>>
  BY DEF FingerprintTarget, CompleteGraph, CompleteDispatch, FailDispatch, VerifyStop,
         CompleteLaunch, ChangeTarget, local
<1>2. target' \in 1..MaxTarget
  BY <1>0, BoundsAssumption DEF FingerprintTarget, CompleteGraph, CompleteDispatch, FailDispatch,
         VerifyStop, CompleteLaunch, ChangeTarget, TypeOK
<1>3. fp' \in [Drivers -> 0..MaxTarget]
  <2>1. fp' = fp \/ \E g \in Graphs : fp' = [fp EXCEPT ![g] = target]
    BY DEF FingerprintTarget, CompleteGraph, CompleteDispatch, FailDispatch, VerifyStop,
           CompleteLaunch, ChangeTarget, local
  <2>2. fp \in [Drivers -> 0..MaxTarget] /\ target \in 0..MaxTarget
    BY <1>0, BoundsAssumption DEF TypeOK
  <2> QED  BY <2>1, <2>2
<1>4. lock' \in Graphs \cup {Free} /\ stopped' \subseteq Dispatches
  BY <1>0 DEF FingerprintTarget, CompleteGraph, CompleteDispatch, FailDispatch,
         VerifyStop, CompleteLaunch, ChangeTarget, TypeOK
<1>5. pc' = pc \/ \E d \in Drivers, x \in {"plan", "done", "failed"} : pc' = [pc EXCEPT ![d] = x]
  <2>1. ASSUME NEW g \in Graphs, FingerprintTarget(g) \/ CompleteGraph(g)
        PROVE  \E x \in {"plan", "done", "failed"} : pc' = [pc EXCEPT ![g] = x]
    BY <2>1 DEF FingerprintTarget, CompleteGraph
  <2>2. ASSUME NEW d \in Dispatches, CompleteDispatch(d) \/ FailDispatch(d)
        PROVE  \E x \in {"plan", "done", "failed"} : pc' = [pc EXCEPT ![d] = x]
    BY <2>2 DEF CompleteDispatch, FailDispatch
  <2>3. ASSUME NEW l \in Launches, CompleteLaunch(l)
        PROVE  \E x \in {"plan", "done", "failed"} : pc' = [pc EXCEPT ![l] = x]
    BY <2>3 DEF CompleteLaunch
  <2>4. (\E d \in Dispatches : VerifyStop(d)) \/ ChangeTarget => pc' = pc
    BY DEF VerifyStop, ChangeTarget
  <2> QED  BY <2>1, <2>2, <2>3, <2>4 DEF Drivers
<1>6. /\ pc' \in [Drivers -> {"idle", "plan", "run", "done", "failed"}]
      /\ \A d \in Drivers : pc'[d] = "idle" => pc[d] = "idle"
  BY <1>0, <1>5 DEF TypeOK
<1>7. TypeOK'  BY <1>0, <1>1, <1>2, <1>3, <1>4, <1>6 DEF TypeOK, files, release
<1> QED  BY <1>1, <1>6, <1>7, Quiet

LEMMA CrashInv ==
    ASSUME Inv, NEW d \in Drivers, Crash(d)
    PROVE  Inv'
<1>0. TypeOK  BY DEF Inv
<1>1. /\ UNCHANGED <<files, release, target, stopped, force, fp, since, dec, st, at, gaps, refused>>
      /\ pc' = [pc EXCEPT ![d] = "failed"] /\ lock' \in {Free, lock}
  BY DEF Crash, local
<1>2. /\ worker' \in [Drivers -> [Jobs -> {"none", "active", "dead"}]]
      /\ \A e \in Drivers, j \in Jobs : worker'[e][j] = "active" => worker[e][j] = "active"
  <2>1. worker' = [worker EXCEPT ![d] =
                     [j \in Jobs |-> IF worker[d][j] = "active" THEN "dead" ELSE worker[d][j]]]
    BY DEF Crash
  <2> QED  BY <1>0, <2>1 DEF TypeOK
<1>3. TypeOK'  BY <1>0, <1>1, <1>2 DEF TypeOK, files, release
<1>4. \A e \in Drivers : pc'[e] = "idle" => pc[e] = "idle"  BY <1>0, <1>1 DEF TypeOK
<1> QED  BY <1>1, <1>2, <1>3, <1>4, Quiet

(* A deployment touches no claim, and the identities it gives are new.     *)
LEMMA DeployInv ==
    ASSUME Inv, NEW S \in SUBSET Jobs, Deploy(S)
    PROVE  Inv'
<1>0. TypeOK /\ ReleasesOK  BY DEF Inv
<1>1. /\ UNCHANGED <<files, target, bound, boundId, repair, ordered, lock, worker, stopped, pc, force, fp,
                     since, dec, st, at, gaps, refused>>
      /\ deployed < MaxRelease /\ deployed' = deployed + 1
      /\ ident' = [j \in Jobs |-> IF j \in S THEN deployed + 1 ELSE ident[j]]
  BY DEF Deploy, local
<1>2. /\ deployed \in Nat /\ bound \in Nat /\ MaxRelease \in Nat
      /\ \A j \in Jobs : ident[j] \in Nat /\ boundId[j] \in Nat
  BY <1>0, BoundsAssumption DEF TypeOK
<1>3. deployed' \in 0..MaxRelease  BY <1>1, <1>2
<1>4. ident' \in [Jobs -> 0..MaxRelease]  BY <1>0, <1>1, <1>3 DEF TypeOK
<1>5. TypeOK'  BY <1>0, <1>1, <1>3, <1>4 DEF TypeOK, files
<1>6. ReleasesOK'
  <2>1. bound <= deployed'  BY <1>0, <1>1, <1>2 DEF ReleasesOK
  <2>2. ASSUME NEW j \in Jobs
        PROVE  boundId[j] <= bound /\ ident'[j] <= deployed' /\ (ident'[j] # boundId[j] => ident'[j] > bound)
    BY <1>0, <1>1, <1>2 DEF ReleasesOK
  <2> QED  BY <1>1, <2>1, <2>2 DEF ReleasesOK
<1>7. FilesOK' /\ Kept  BY <1>1, <1>2, FilesKept
<1>8. ASSUME NEW d \in Drivers PROVE DriverOK(d)'  BY <1>1, <1>5, <1>7, DriverAlone
<1> QED  BY <1>5, <1>6, <1>7, <1>8 DEF Inv

(* A repair is admitted with no worker active; nobody started under it.    *)
LEMMA AdmitRepairInv ==
    ASSUME Inv, NEW f, AdmitRepair(f)
    PROVE  Inv'
<1>0. TypeOK /\ ReleasesOK  BY DEF Inv
<1>1. /\ UNCHANGED <<files, target, deployed, ident, lock, worker, stopped, pc, force, fp,
                     since, dec, st, at, gaps, refused>>
      /\ repair < MaxRepair /\ repair' = repair + 1
      /\ bound' = deployed /\ boundId' = ident /\ ordered' \in [Jobs -> Decisions]
      /\ ~Blocked(FALSE)
  BY DEF AdmitRepair, local
<1>2. /\ deployed \in Nat /\ bound \in Nat /\ repair \in Nat /\ MaxRepair \in Nat
      /\ \A j \in Jobs : ident[j] \in Nat
  BY <1>0, BoundsAssumption DEF TypeOK
<1>3. TypeOK'  BY <1>0, <1>1, <1>2 DEF TypeOK, files
<1>4. ReleasesOK'  BY <1>0, <1>1, <1>2 DEF ReleasesOK
<1>5. FilesOK' /\ Kept  BY <1>0, <1>1, <1>2, FilesKept DEF ReleasesOK
<1>6. ASSUME NEW d \in Drivers PROVE DriverOK(d)'
  <2>1. Started(d)' /\ Pointing(d)' /\ Fitting(d)' /\ Forcing(d)'
    BY <1>1, <1>3, <1>5, DriverKept
  <2>2. Working(d)'  BY <1>1 DEF Working, Blocked
  <2>3. since[d] <= repair /\ since[d] \in Nat
    BY <1>0, BoundsAssumption DEF Inv, DriverOK, Honouring, TypeOK
  <2>4. Honouring(d)'  BY <1>1, <1>2, <2>3 DEF Honouring
  <2> QED  BY <2>1, <2>2, <2>4 DEF DriverOK
<1> QED  BY <1>3, <1>4, <1>5, <1>6 DEF Inv
-----------------------------------------------------------------------------
(* Drivers that start. *)

(* A driver that starts uses no attempt yet.                               *)
LEMMA Starts ==
    ASSUME Inv, TypeOK', NEW d \in Drivers, pc[d] = "idle", pc'[d] # "idle",
           UNCHANGED <<files, release, worker, st>>,
           \A e \in Drivers : e # d =>
               /\ at'[e] = at[e] /\ dec'[e] = dec[e] /\ force'[e] = force[e]
               /\ since'[e] = since[e] /\ pc'[e] = pc[e],
           d \in Conductors => dec'[d] = dec[d],
           since'[d] = repair,
           \A j \in Jobs : at'[d][j] \in 0..made[j]
    PROVE  Inv'
<1>0. TypeOK /\ DriverOK(d)  BY DEF Inv
<1>1. bound' = bound /\ bound \in Nat /\ UNCHANGED <<made, rec, accepted, boundId, repair, ordered>>
  BY BoundsAssumption DEF Inv, TypeOK, release, files
<1>2. FilesOK' /\ Kept  BY <1>1, FilesKept
<1>3. ReleasesOK'  BY DEF Inv, ReleasesOK, release
<1>4. ASSUME NEW e \in Drivers, e # d PROVE DriverOK(e)'
  BY <1>1, <1>2, <1>4, DriverAlone
<1>5. \A j \in Jobs : st'[d][j] = "todo" /\ ~Holds(d, j)' /\ ~Reusing(d, j)' /\ ~Uses(d, j)'
  <2>1. \A j \in Jobs : st'[d][j] = "todo"  BY <1>0 DEF DriverOK, Started
  <2>2. \A j \in Jobs : ~Reusing(d, j)'
    BY <1>0 DEF DriverOK, Started, Reusing, Conductors, NoDecision
  <2> QED  BY <2>1, <2>2 DEF Holds, Uses
<1>6. Started(d)' /\ Pointing(d)'  BY <1>1, <1>5 DEF Started, Pointing
<1>7. Working(d)'  BY <1>0, <1>5 DEF DriverOK, Working, Started
<1>8. Fitting(d)' /\ Honouring(d)'
  <2>1. repair \in Nat  BY <1>0, BoundsAssumption DEF TypeOK
  <2> QED  BY <1>1, <1>5, <2>1 DEF Fitting, Honouring
<1>9. Forcing(d)'
  <2>1. d \in Graphs => \A j \in Jobs : dec'[d][j] = NoDecision
    BY <1>0 DEF DriverOK, Started, Conductors
  <2> QED  BY <1>5, <2>1 DEF Forcing
<1>10. DriverOK(d)'  BY <1>6, <1>7, <1>8, <1>9 DEF DriverOK
<1> QED  BY <1>2, <1>3, <1>4, <1>10 DEF Inv

LEMMA StartGraphInv ==
    ASSUME Inv, NEW g \in Graphs, NEW f \in Forces, StartGraph(g, f)
    PROVE  Inv'
<1>0. TypeOK /\ DriverOK(g) /\ g \in Drivers  BY DEF Inv, Drivers
<1>1. /\ UNCHANGED <<files, target, release, worker, stopped, dec, st, at, gaps, refused>>
      /\ pc[g] = "idle" /\ lock' = g /\ pc' = [pc EXCEPT ![g] = "plan"]
      /\ force' = [force EXCEPT ![g] = f] /\ since' = [since EXCEPT ![g] = repair]
      /\ fp' = [fp EXCEPT ![g] = IF Split = 0 THEN target ELSE 0]
  BY DEF StartGraph
<1>2. f \in 0..N  BY DriversAssumption, GraphOrderAssumption DEF Jobs
<1>3. target \in 0..MaxTarget /\ 0 \in 0..MaxTarget  BY <1>0, BoundsAssumption DEF TypeOK
<1>4. TypeOK'  BY <1>0, <1>1, <1>2, <1>3 DEF TypeOK, files, release
<1>5. \A j \in Jobs : at'[g][j] \in 0..made[j]  BY <1>0, <1>1 DEF DriverOK, Pointing
<1>6. /\ pc'[g] # "idle" /\ since'[g] = repair
      /\ \A e \in Drivers : e # g => force'[e] = force[e] /\ since'[e] = since[e] /\ pc'[e] = pc[e]
  BY <1>0, <1>1 DEF TypeOK
<1> QED  BY <1>0, <1>1, <1>4, <1>5, <1>6, Starts

LEMMA StartDispatchInv ==
    ASSUME Inv, NEW d \in Dispatches, NEW f \in Forces, StartDispatch(d, f)
    PROVE  Inv'
<1>0. TypeOK /\ DriverOK(d) /\ d \in Drivers  BY DEF Inv, Drivers
<1>1. /\ UNCHANGED <<files, target, release, lock, worker, stopped, fp, dec, st, at, gaps, refused>>
      /\ pc[d] = "idle" /\ pc' = [pc EXCEPT ![d] = "run"]
      /\ force' = [force EXCEPT ![d] = f] /\ since' = [since EXCEPT ![d] = repair]
  BY DEF StartDispatch
<1>2. f \in 0..N  BY DriversAssumption, GraphOrderAssumption DEF Jobs
<1>4. TypeOK'  BY <1>0, <1>1, <1>2 DEF TypeOK, files, release
<1>5. \A j \in Jobs : at'[d][j] \in 0..made[j]  BY <1>0, <1>1 DEF DriverOK, Pointing
<1>6. /\ pc'[d] # "idle" /\ since'[d] = repair
      /\ \A e \in Drivers : e # d => force'[e] = force[e] /\ since'[e] = since[e] /\ pc'[e] = pc[e]
  BY <1>0, <1>1 DEF TypeOK
<1> QED  BY <1>0, <1>1, <1>4, <1>5, <1>6, Starts

(* A launch is given accepted handoffs.                                    *)
LEMMA StartLaunchInv ==
    ASSUME Inv, NEW l \in Launches, NEW j \in Jobs, NEW up \in LaunchInputs(j), StartLaunch(l, j, up)
    PROVE  Inv'
<1>0. TypeOK /\ DriverOK(l) /\ l \in Drivers /\ l \notin Conductors
  BY DriversAssumption DEF Inv, Drivers, Conductors
<1>1. /\ UNCHANGED <<files, target, release, lock, worker, stopped, force, st, gaps, refused>>
      /\ pc[l] = "idle" /\ pc' = [pc EXCEPT ![l] = "run"]
      /\ dec' = [dec EXCEPT ![l][j] = "RUN"] /\ at' = [at EXCEPT ![l] = up]
      /\ fp' = [fp EXCEPT ![l] = target] /\ since' = [since EXCEPT ![l] = repair]
  BY DEF StartLaunch
<1>2. up \in Hashes /\ \A k \in Jobs : up[k] \in 0..made[k]
  <2>1. latest \in Hashes /\ \A k \in Jobs : made[k] \in Nat  BY <1>0, Typed DEF TypeOK
  <2>2. \A k \in Jobs : latest[k] \in 0..made[k]  BY <2>1 DEF Inv, FilesOK
  <2>3. CASE up = [k \in Jobs |-> 0]  BY <2>1, <2>3, BoundsAssumption DEF Hashes
  <2>4. CASE up = Projection(j, latest)
    <3>1. up \in Hashes /\ \A k \in Jobs : up[k] \in {0, latest[k]}  BY <2>1, <2>4, ProjectionFacts
    <3> QED  BY <2>1, <2>2, <3>1
  <2> QED  BY <2>3, <2>4 DEF LaunchInputs
<1>3. target \in 0..MaxTarget  BY <1>0, BoundsAssumption DEF TypeOK
<1>4. TypeOK'  BY <1>0, <1>1, <1>2, <1>3 DEF TypeOK, files, release, Decisions
<1>5. \A k \in Jobs : at'[l][k] \in 0..made[k]  BY <1>0, <1>1, <1>2 DEF TypeOK
<1>6. /\ pc'[l] # "idle" /\ since'[l] = repair
      /\ \A e \in Drivers : e # l => /\ at'[e] = at[e] /\ dec'[e] = dec[e] /\ since'[e] = since[e]
                                     /\ pc'[e] = pc[e]
  BY <1>0, <1>1 DEF TypeOK
<1> QED  BY <1>0, <1>1, <1>4, <1>5, <1>6, Starts
-----------------------------------------------------------------------------
(* Planning. *)

(* What an admissible attempt is: accepted, made from the given handoffs,  *)
(* and of the implementation the run is bound to.                          *)
LEMMA AdmissibleFacts ==
    ASSUME Inv, NEW j \in Jobs, NEW f, NEW up, Admissible(j, f, up)
    PROVE  /\ latest[j] \in accepted[j] /\ latest[j] \in 1..made[j] /\ Agreed(j, latest[j])
           /\ rec[j][latest[j]].up = up /\ Honours(j, latest[j])
<1>1. latest[j] \in accepted[j]  BY DEF Inv, FilesOK, Admissible
<1>2. latest[j] \in 1..made[j] /\ Agreed(j, latest[j])  BY <1>1 DEF Inv, FilesOK
<1>3. rec[j][latest[j]].up = up /\ rec[j][latest[j]].rel = ident[j]
      /\ ~ForcedByRepair(j, rec[j][latest[j]])
  BY DEF Admissible
<1>4. rec[j][latest[j]].bind = boundId[j]
  BY <1>1, <1>2, <1>3, CurrentBound DEF Inv, FilesOK
<1>5. Honours(j, latest[j])  BY <1>3, <1>4 DEF Honours, ForcedByRepair
<1> QED  BY <1>1, <1>2, <1>3, <1>5

(* A job is reused when it is not forced, and neither is anything it       *)
(* depends on; every handoff it was made from is reused as well.           *)
LEMMA DecidedReuse ==
    ASSUME Inv, NEW g \in Graphs, NEW j \in Jobs, 1..(j - 1) \subseteq Planned(g),
           Decision(j, force[g], fp[g], dec[g], Reused(g)) = "REUSE"
    PROVE  /\ Admissible(j, fp[g], Projection(j, at[g]))
           /\ \A k \in Ancestors[j] \cap Propagating : dec[g][k] = "REUSE"
           /\ ~ForceSelected(g, j)
<1>0. TypeOK /\ DriverOK(g) /\ g \in Drivers  BY DEF Inv, Drivers
<1>1. /\ force[g] # j /\ Ancestors[j] \cap Dirty(dec[g], force[g]) = {}
      /\ Admissible(j, fp[g], Projection(j, Reused(g)))
  BY DEF Decision
<1>2. Ancestors[j] \subseteq 1..(j - 1) /\ Ancestors[j] \subseteq Jobs
  BY AncestorsBefore, AncestorsClosed
<1>3. \A k \in Ancestors[j] : k \in Jobs /\ dec[g][k] \in Decisions
  <2>1. \A k \in Ancestors[j] : k \in Jobs /\ dec[g][k] # NoDecision  BY <1>2 DEF Planned
  <2> QED  BY <1>0, <2>1 DEF TypeOK
<1>4. \A k \in Ancestors[j] \cap Propagating : dec[g][k] = "REUSE"
  BY <1>1, <1>3 DEF Dirty, Decisions
<1>5. ~ForceSelected(g, j)
  <2>1. SUFFICES ASSUME force[g] \in Ancestors[j] PROVE FALSE
    BY <1>1 DEF ForceSelected
  <2>2. dec[g][force[g]] = "RUN"
    <3>1. force[g] \in Jobs /\ dec[g][force[g]] # NoDecision
      BY <1>3, <2>1 DEF Decisions, NoDecision
    <3> QED  BY <1>0, <3>1 DEF DriverOK, Forcing, Conductors
  <2>3. force[g] \in Dirty(dec[g], force[g])  BY <1>3, <2>1, <2>2 DEF Dirty
  <2> QED  BY <1>1, <2>1, <2>3
<1>6. Projection(j, Reused(g)) = Projection(j, at[g])
  <2>1. \A k \in Ancestors[j] \cap Propagating : Reused(g)[k] = at[g][k]
    BY <1>3, <1>4 DEF Reused
  <2> QED  BY <2>1, ProjectionSame
<1> QED  BY <1>1, <1>4, <1>5, <1>6

LEMMA PlanJobInv ==
    ASSUME Inv, NEW g \in Graphs, NEW j \in Jobs, PlanJob(g, j)
    PROVE  Inv'
<1> DEFINE action == Decision(j, force[g], fp[g], dec[g], Reused(g))
<1>0. TypeOK /\ DriverOK(g) /\ g \in Drivers  BY DEF Inv, Drivers
<1>1. /\ UNCHANGED <<files, target, release, lock, worker, stopped, force, fp, since, st, gaps, refused>>
      /\ pc[g] = "plan" /\ dec[g][j] = NoDecision /\ 1..(j - 1) \subseteq Planned(g)
      /\ dec' = [dec EXCEPT ![g][j] = action]
      /\ at' = [at EXCEPT ![g][j] = IF action = "REUSE" THEN latest[j] ELSE 0]
      /\ pc' \in {pc, [pc EXCEPT ![g] = "run"]}
  BY DEF PlanJob, local, Planned
<1>2. action \in Decisions  BY DEF Decision, Decisions
<1>3. action = "REUSE" =>
        /\ Admissible(j, fp[g], Projection(j, at[g]))
        /\ \A k \in Ancestors[j] \cap Propagating : dec[g][k] = "REUSE"
        /\ ~ForceSelected(g, j)
  BY <1>1, DecidedReuse
<1>4. force[g] = j => action = "RUN"  BY DEF Decision
<1> HIDE DEF action
<1>5. action = "REUSE" =>
        /\ latest[j] \in accepted[j] /\ latest[j] \in 1..made[j]
        /\ rec[j][latest[j]].up = Projection(j, at[g]) /\ Honours(j, latest[j])
  BY <1>3, AdmissibleFacts
<1>6. /\ dec'[g][j] = action /\ \A i \in Jobs : i # j => dec'[g][i] = dec[g][i]
      /\ at'[g][j] = (IF action = "REUSE" THEN latest[j] ELSE 0)
      /\ \A i \in Jobs : i # j => at'[g][i] = at[g][i]
      /\ \A e \in Drivers : e # g => dec'[e] = dec[e] /\ at'[e] = at[e]
      /\ \A e \in Drivers : pc'[e] = "idle" => pc[e] = "idle"
      /\ pc'[g] # "idle"
  BY <1>0, <1>1 DEF TypeOK, Hashes
<1>7. TypeOK'
  <2>1. dec' \in [Drivers -> [Jobs -> Decisions \cup {NoDecision}]]  BY <1>0, <1>1, <1>2 DEF TypeOK
  <2>2. at' \in [Drivers -> Hashes]
    <3>1. latest[j] \in 0..MaxAttempt /\ 0 \in 0..MaxAttempt
      BY <1>0, BoundsAssumption DEF TypeOK, Hashes
    <3> QED  BY <1>0, <1>1, <3>1 DEF TypeOK, Hashes
  <2>3. pc' \in [Drivers -> {"idle", "plan", "run", "done", "failed"}]  BY <1>0, <1>1 DEF TypeOK
  <2> QED  BY <1>0, <1>1, <2>1, <2>2, <2>3 DEF TypeOK, files, release
<1>8. bound' = bound /\ bound \in Nat /\ UNCHANGED <<made, rec, accepted, boundId, repair, ordered>>
  BY <1>0, <1>1, BoundsAssumption DEF TypeOK, release, files
<1>9. FilesOK' /\ Kept  BY <1>1, <1>8, FilesKept
<1>10. ReleasesOK'  BY <1>1 DEF Inv, ReleasesOK, release
<1>11. ASSUME NEW e \in Drivers, e # g PROVE DriverOK(e)'
  BY <1>1, <1>6, <1>7, <1>8, <1>9, <1>11, DriverAlone
<1>12. st[g][j] = "todo"  BY <1>0, <1>1 DEF DriverOK, Started
<1>13. /\ \A i \in Jobs : Holds(g, i)' <=> Holds(g, i)
       /\ Finished(g)' = Finished(g) /\ ~Holds(g, j) /\ j \notin Finished(g) /\ ~Reusing(g, j)
       /\ Reusing(g, j)' <=> action = "REUSE"
       /\ \A i \in Jobs : i # j => /\ Reusing(g, i)' <=> Reusing(g, i)
                                   /\ Uses(g, i)' <=> Uses(g, i)
       /\ \A i \in Jobs : ForceSelected(g, i)' <=> ForceSelected(g, i)
  <2>1. \A i \in Jobs : Holds(g, i)' <=> Holds(g, i)  BY <1>1 DEF Holds
  <2>2. Finished(g)' = Finished(g) /\ ~Holds(g, j) /\ j \notin Finished(g) /\ ~Reusing(g, j)
    BY <1>1, <1>12 DEF Finished, Holds, Reusing, NoDecision
  <2>3. /\ Reusing(g, j)' <=> action = "REUSE"
        /\ \A i \in Jobs : i # j => (Reusing(g, i)' <=> Reusing(g, i))
    BY <1>6 DEF Reusing
  <2>4. \A i \in Jobs : ForceSelected(g, i)' <=> ForceSelected(g, i)  BY <1>1 DEF ForceSelected
  <2> QED  BY <2>1, <2>2, <2>3, <2>4 DEF Uses
<1>14. Started(g)'  BY <1>0, <1>1, <1>2, <1>6, <1>12 DEF DriverOK, Started
<1>15. Pointing(g)'
  <2>1. \A i \in Jobs : \A a : Agreed(i, a)' <=> Agreed(i, a)  BY <1>8 DEF Agreed
  <2>2. made[j] \in Nat  BY <1>0, Typed
  <2>3. at'[g][j] \in 0..made[j]  BY <1>5, <1>6, <2>2
  <2>4. ASSUME NEW i \in Jobs, i # j
        PROVE  /\ Agreed(i, at[g][i])' <=> Agreed(i, at[g][i])
               /\ Named(i, at[g][i])' <=> Named(i, at[g][i])
    <3>1. at'[g][i] = at[g][i] /\ rec' = rec /\ made' = made /\ accepted' = accepted
      BY <1>6, <1>8, <2>4
    <3>2. Agreed(i, at[g][i])' <=> Agreed(i, at[g][i])  BY <3>1 DEF Agreed
    <3>3. Named(i, at[g][i])' <=> Named(i, at[g][i])  BY <3>1 DEF Named
    <3> QED  BY <3>2, <3>3
  <2>5. st'[g] = st[g] /\ ~Holds(g, j)' /\ st'[g][j] = "todo"  BY <1>1, <1>12, <1>13
  <2>6. ASSUME NEW i \in Jobs, i # j
        PROVE  /\ at'[g][i] \in 0..made'[i]
               /\ Holds(g, i)' => at'[g][i] # 0
               /\ Holds(g, i)' /\ st'[g][i] # "prepared" =>
                    Agreed(i, at[g][i])' /\ rec'[i][at'[g][i]].quality # "bare"
               /\ st'[g][i] = "prepared" =>
                    /\ rec'[i][at'[g][i]].by = g /\ rec'[i][at'[g][i]].quality = "bare"
                    /\ Named(i, at[g][i])'
               /\ st'[g][i] = "done" \/ Reusing(g, i)' => at'[g][i] \in accepted'[i]
    BY <1>0, <1>6, <1>8, <1>13, <2>4, <2>5, <2>6 DEF DriverOK, Pointing
  <2> QED  BY <1>5, <1>6, <1>8, <1>13, <2>3, <2>5, <2>6 DEF Pointing
<1>16. Working(g)'
  <2>1. ASSUME NEW i \in Jobs, worker[g][i] = "active" PROVE i # j
    BY <1>0, <1>12, <2>1 DEF DriverOK, Working
  <2>2. \A i \in Jobs : i # j => (Runs(i, at[g][i])' <=> Runs(i, at[g][i]))
    BY <1>6, <1>8 DEF Runs, Measured
  <2>3. worker' = worker /\ st' = st  BY <1>1
  <2> QED  BY <1>0, <2>1, <2>2, <2>3 DEF DriverOK, Working
<1>17. \A i \in Jobs : Uses(g, i)' => rec[i][at'[g][i]].up = Projection(i, at[g])'
  <2>0. \A i \in Jobs : Projection(i, at[g])' = Projection(i, at'[g])  BY DEF Projection
  <2>1. ASSUME NEW i \in Jobs, i # j, Uses(g, i)'
        PROVE  rec[i][at'[g][i]].up = Projection(i, at'[g])
    <3>1. Uses(g, i)  BY <1>13, <2>1
    <3>2. rec[i][at[g][i]].up = Projection(i, at[g])
      BY <1>0, <3>1 DEF DriverOK, Fitting, Conductors
    <3>3. j \notin Ancestors[i] \cap Propagating
      BY <1>0, <1>1, <1>13, <3>1 DEF DriverOK, Fitting, Conductors, Uses, NoDecision
    <3>4. \A k \in Ancestors[i] \cap Propagating : at'[g][k] = at[g][k]
      BY <1>6, <3>3, AncestorsClosed
    <3> QED  BY <1>6, <2>1, <3>2, <3>4, ProjectionSame
  <2>2. ASSUME Uses(g, j)' PROVE rec[j][at'[g][j]].up = Projection(j, at'[g])
    <3>1. action = "REUSE"  BY <1>13, <2>2 DEF Uses
    <3>2. rec[j][at'[g][j]].up = Projection(j, at[g])  BY <1>5, <1>6, <3>1
    <3>3. j \notin Ancestors[j]  BY AncestorsBefore DEF Jobs
    <3>4. \A k \in Ancestors[j] \cap Propagating : at'[g][k] = at[g][k]
      BY <1>6, <3>3, AncestorsClosed
    <3> QED  BY <3>2, <3>4, ProjectionSame
  <2> QED  BY <2>0, <2>1, <2>2
<1>18. \A i \in Jobs : Reusing(g, i)' => \A k \in Ancestors[i] \cap Propagating : dec'[g][k] = "REUSE"
  <2>1. ASSUME NEW i \in Jobs, Reusing(g, i)', NEW k \in Ancestors[i] \cap Propagating
        PROVE  dec'[g][k] = "REUSE"
    <3>1. k \in Jobs /\ k # i  BY AncestorsBefore, AncestorsClosed DEF Jobs
    <3>2. dec[g][k] = "REUSE"
      BY <1>0, <1>3, <1>13, <2>1 DEF DriverOK, Fitting, Conductors
    <3>3. k # j  BY <1>1, <3>2 DEF NoDecision
    <3> QED  BY <1>6, <3>1, <3>2, <3>3
  <2> QED  BY <2>1
<1>19. Fitting(g)'
  <2>1. \A i \in Jobs : Holds(g, i)' => Ancestors[i] \subseteq Finished(g)'
    BY <1>0, <1>13 DEF DriverOK, Fitting, Conductors
  <2> QED  BY <1>8, <1>17, <1>18, <2>1 DEF Fitting
<1>20. Forcing(g)'
  BY <1>0, <1>1, <1>3, <1>4, <1>6, <1>8, <1>13 DEF DriverOK, Forcing, Conductors
<1>21. Honouring(g)'
  <2>1. \A i \in Jobs : \A a : Honours(i, a)' <=> Honours(i, a)  BY <1>8 DEF Honours
  <2> QED  BY <1>0, <1>1, <1>5, <1>6, <1>8, <1>13, <2>1 DEF DriverOK, Honouring, Uses
<1>22. DriverOK(g)'  BY <1>14, <1>15, <1>16, <1>19, <1>20, <1>21 DEF DriverOK
<1> QED  BY <1>7, <1>9, <1>10, <1>11, <1>22 DEF Inv
-----------------------------------------------------------------------------
(* Taking up an attempt. *)

(* What a driver must know of the attempt it takes up for a job whose      *)
(* ancestors it has done.                                                  *)
Suits(d, j, a, up) ==
    /\ a \in 1..made[j]
    /\ st[d][j] # "prepared" => Agreed(j, a) /\ rec[j][a].quality # "bare"
    /\ st[d][j] = "prepared" => rec[j][a].by = d /\ rec[j][a].quality = "bare" /\ Named(j, a)
    /\ st[d][j] = "done" => a \in accepted[j]
    /\ d \in Conductors =>
         /\ rec[j][a].up = up
         /\ ForceSelected(d, j) => rec[j][a].by = d
         /\ since[d] = repair => Honours(j, a)

(* A driver makes an attempt, completes a job with one, or gives up a job. *)
LEMMA TakesUp ==
    ASSUME Inv, TypeOK', FilesOK', Kept, NEW d \in Drivers, NEW j \in Jobs,
           UNCHANGED <<release, dec, force, since>>,
           \A e \in Drivers, i \in Jobs : worker'[e][i] = "active" =>
               \/ worker[e][i] = "active" /\ (e # d \/ i # j)
               \/ e = d /\ i = j /\ st'[d][j] \in {"prepared", "claimed"},
           \A e \in Drivers : e # d => at'[e] = at[e] /\ st'[e] = st[e],
           \A i \in Jobs : i # j => at'[d][i] = at[d][i] /\ st'[d][i] = st[d][i],
           \A e \in Drivers : pc'[e] = "idle" => pc[e] = "idle",
           pc'[d] # "idle", d \in Graphs => dec[d][j] # NoDecision,
           st[d][j] \notin {"unit", "done"}, Reusing(d, j) => at'[d][j] = at[d][j],
           at'[d][j] \in 0..made'[j],
           d \in Conductors => Ancestors[j] \subseteq Finished(d),
           Holds(d, j)' => Suits(d, j, at[d][j], Projection(j, at[d]))'
    PROVE  Inv'
<1>0. TypeOK /\ DriverOK(d)  BY DEF Inv
<1>1. UNCHANGED <<boundId, repair, ordered>>  BY DEF release
<1>2. ReleasesOK'  BY DEF Inv, ReleasesOK, release
<1>3. ASSUME NEW e \in Drivers, e # d PROVE DriverOK(e)'
  BY <1>1, <1>3, DriverAlone
<1>4. /\ \A i \in Jobs : Reusing(d, i)' <=> Reusing(d, i)
      /\ \A i \in Jobs : ForceSelected(d, i)' <=> ForceSelected(d, i)
      /\ \A i \in Jobs : i # j => (Holds(d, i)' <=> Holds(d, i)) /\ (Uses(d, i)' <=> Uses(d, i))
      /\ Finished(d) \subseteq Finished(d)' /\ j \notin Finished(d)
  <2>1. \A i \in Jobs : (Reusing(d, i)' <=> Reusing(d, i)) /\ (ForceSelected(d, i)' <=> ForceSelected(d, i))
    BY DEF Reusing, ForceSelected
  <2>2. \A i \in Jobs : i # j => (Holds(d, i)' <=> Holds(d, i))  BY DEF Holds
  <2>3. Finished(d) \subseteq Finished(d)' /\ j \notin Finished(d)  BY DEF Finished
  <2> QED  BY <2>1, <2>2, <2>3 DEF Uses
<1>5. \A i \in Jobs : Uses(d, i) => at[d][i] \in 1..made[i]  BY UsedAttempt
<1>6. Started(d)'  BY <1>0 DEF DriverOK, Started
<1>7. Pointing(d)'
  <2>1. ASSUME NEW i \in Jobs, i # j
        PROVE  /\ at'[d][i] \in 0..made'[i]
               /\ Holds(d, i)' => at'[d][i] # 0
               /\ Holds(d, i)' /\ st'[d][i] # "prepared" =>
                    Agreed(i, at[d][i])' /\ rec'[i][at'[d][i]].quality # "bare"
               /\ st'[d][i] = "prepared" =>
                    /\ rec'[i][at'[d][i]].by = d /\ rec'[i][at'[d][i]].quality = "bare"
                    /\ Named(i, at[d][i])'
               /\ st'[d][i] = "done" \/ Reusing(d, i)' => at'[d][i] \in accepted'[i]
    <3>1. at'[d][i] \in 0..made'[i]
      <4>1. at'[d][i] = at[d][i] /\ at[d][i] \in 0..made[i]  BY <1>0, <2>1 DEF DriverOK, Pointing
      <4>2. made[i] \in Nat /\ made'[i] \in Nat /\ made[i] <= made'[i]
        BY <1>0, Typed, BoundsAssumption DEF TypeOK, Kept
      <4> QED  BY <4>1, <4>2
    <3>2. ASSUME Holds(d, i) PROVE at'[d][i] = at[d][i] /\ at[d][i] \in 1..made[i] /\ at'[d][i] # 0
      BY <1>5, <2>1, <3>2 DEF Uses
    <3>3. ASSUME Holds(d, i), st[d][i] # "prepared"
          PROVE  Agreed(i, at[d][i])' /\ rec'[i][at'[d][i]].quality # "bare"
      <4>1. Agreed(i, at[d][i]) /\ rec[i][at[d][i]].quality # "bare"
        BY <1>0, <3>3 DEF DriverOK, Pointing
      <4>2. \A a \in 1..made[i] : Agreed(i, a) => Agreed(i, a)'  BY <1>0, AgreedKept
      <4>3. rec'[i][at[d][i]].quality # "bare"  BY <3>2, <3>3, <4>1 DEF Kept
      <4>4. Agreed(i, at[d][i])'  BY <3>2, <3>3, <4>1, <4>2, ZenonT(30) DEF Agreed
      <4> QED  BY <3>2, <3>3, <4>3, <4>4
    <3>5. ASSUME st[d][i] = "prepared"
          PROVE  /\ rec'[i][at'[d][i]].by = d /\ rec'[i][at'[d][i]].quality = "bare"
                 /\ Named(i, at[d][i])'
      <4>1. /\ Holds(d, i) /\ Named(i, at[d][i])
            /\ rec[i][at[d][i]].by = d /\ rec[i][at[d][i]].quality = "bare"
        BY <1>0, <3>5 DEF DriverOK, Pointing, Holds
      <4>2. \A a \in 1..made[i] : Named(i, a) => Named(i, a)'  BY <1>0, NamedKept
      <4>3. st'[d][i] = "prepared"  BY <2>1, <3>5
      <4>4. rec'[i][at[d][i]].by = d /\ rec'[i][at[d][i]].quality = "bare"
        BY <3>2, <4>1, <4>3 DEF Kept
      <4>5. Named(i, at[d][i])'
        <5>1. at'[d][i] = at[d][i] /\ at[d][i] \in 1..made[i]  BY <3>2, <4>1
        <5>2. PICK b \in 1..made[i] : b = at[d][i]  BY <5>1
        <5>3. Named(i, b)'  BY <4>1, <4>2, <5>2
        <5> QED  BY <5>1, <5>2, <5>3, ZenonT(30) DEF Named
      <4> QED  BY <3>2, <4>1, <4>4, <4>5
    <3>4. st[d][i] = "done" \/ Reusing(d, i) => at[d][i] \in accepted[i]
      BY <1>0 DEF DriverOK, Pointing
    <3>6. st'[d][i] = st[d][i] /\ (Holds(d, i)' <=> Holds(d, i)) /\ at'[d][i] = at[d][i]
      BY <1>4, <2>1
    <3>7. st[d][i] = "done" \/ Reusing(d, i) => at[d][i] \in accepted'[i]  BY <3>4 DEF Kept
    <3> QED  BY <1>4, <3>1, <3>2, <3>3, <3>5, <3>6, <3>7
  <2>2. /\ Holds(d, j)' => at'[d][j] # 0
        /\ Holds(d, j)' /\ st'[d][j] # "prepared" =>
             Agreed(j, at[d][j])' /\ rec'[j][at'[d][j]].quality # "bare"
        /\ st'[d][j] = "prepared" =>
             /\ rec'[j][at'[d][j]].by = d /\ rec'[j][at'[d][j]].quality = "bare"
             /\ Named(j, at[d][j])'
        /\ st'[d][j] = "done" \/ Reusing(d, j)' => at'[d][j] \in accepted'[j]
    <3>1. Reusing(d, j) => at[d][j] \in accepted[j]  BY <1>0 DEF DriverOK, Pointing
    <3> QED  BY <1>4, <3>1 DEF Suits, Holds, Kept
  <2> QED  BY <2>1, <2>2 DEF Pointing
<1>8. Working(d)'
  <2>1. ASSUME NEW i \in Jobs, worker'[d][i] = "active", st'[d][i] \notin {"prepared", "claimed"}
        PROVE  st'[d][i] = "unit" /\ Runs(i, at[d][i])'
    <3>1. i # j /\ worker[d][i] = "active" /\ st'[d][i] = st[d][i] /\ at'[d][i] = at[d][i]
      BY <2>1
    <3>2. st[d][i] = "unit" /\ Runs(i, at[d][i]) /\ rec[i][at[d][i]].quality # "bare"
      BY <1>0, <2>1, <3>1 DEF DriverOK, Working, Pointing, Holds
    <3>3. at[d][i] \in 1..made[i]  BY <1>5, <3>2 DEF Uses, Holds
    <3> QED  BY <1>1, <3>1, <3>2, <3>3 DEF Kept, Runs, Measured
  <2> QED  BY <2>1 DEF Working, Runs
<1>9. ASSUME d \in Conductors
      PROVE  \A i \in Jobs : Uses(d, i)' =>
               /\ rec'[i][at'[d][i]].up = Projection(i, at[d])'
               /\ since[d] = repair => Honours(i, at[d][i])'
  <2>0. \A i \in Jobs : Projection(i, at[d])' = Projection(i, at'[d])  BY DEF Projection
  <2>1. ASSUME NEW i \in Jobs, Uses(d, i), i = j => Reusing(d, i)
        PROVE  /\ rec'[i][at'[d][i]].up = Projection(i, at'[d])
               /\ since[d] = repair => Honours(i, at[d][i])'
    <3>1. at[d][i] \in 1..made[i] /\ at'[d][i] = at[d][i]  BY <1>5, <2>1
    <3>2. /\ rec[i][at[d][i]].up = Projection(i, at[d])
          /\ since[d] = repair => Honours(i, at[d][i])
      BY <1>0, <1>9, <2>1 DEF DriverOK, Fitting, Honouring
    <3>3. \A k \in Ancestors[i] \cap Propagating : at'[d][k] = at[d][k]
      <4>1. Reusing(d, i) => \A k \in Ancestors[i] \cap Propagating : dec[d][k] = "REUSE"
        BY <1>0, <1>9 DEF DriverOK, Fitting
      <4>2. Holds(d, i) => Ancestors[i] \subseteq Finished(d)
        BY <1>0, <1>9 DEF DriverOK, Fitting
      <4> QED  BY <1>4, <2>1, <4>1, <4>2, AncestorsClosed DEF Reusing, Uses
    <3> QED  BY <1>1, <3>1, <3>2, <3>3, ProjectionSame, SMTT(30) DEF Kept, Honours
  <2>2. ASSUME Holds(d, j)'
        PROVE  /\ rec'[j][at'[d][j]].up = Projection(j, at'[d])
               /\ since[d] = repair => Honours(j, at[d][j])'
    BY <1>1, <1>9, <2>0, <2>2 DEF Suits
  <2>3. ASSUME NEW i \in Jobs, Uses(d, i)'
        PROVE  /\ rec'[i][at'[d][i]].up = Projection(i, at[d])'
               /\ since[d] = repair => Honours(i, at[d][i])'
    <3>1. CASE i # j  BY <1>4, <2>0, <2>1, <2>3, <3>1
    <3>2. CASE i = j /\ Holds(d, j)'  BY <2>0, <2>2, <3>2 DEF Honours
    <3>3. CASE i = j /\ Reusing(d, j)  BY <2>0, <2>1, <3>3 DEF Uses
    <3> QED  BY <1>4, <2>3, <3>1, <3>2, <3>3 DEF Uses
  <2> QED  BY <2>3
<1>10. Fitting(d)'
  <2>1. d \in Conductors => \A i \in Jobs : Holds(d, i)' => Ancestors[i] \subseteq Finished(d)'
    BY <1>0, <1>4 DEF DriverOK, Fitting
  <2>2. \A i \in Jobs : d \in Conductors /\ Reusing(d, i)' =>
            \A k \in Ancestors[i] \cap Propagating : dec'[d][k] = "REUSE"
    BY <1>0, <1>4 DEF DriverOK, Fitting
  <2> QED  BY <1>9, <2>1, <2>2 DEF Fitting
<1>11. Forcing(d)'
  <2>1. ASSUME d \in Conductors, NEW i \in Jobs, Holds(d, i)', ForceSelected(d, i)'
        PROVE  rec'[i][at'[d][i]].by = d
    <3>1. CASE i = j  BY <2>1, <3>1 DEF Suits
    <3>2. CASE i # j
      <4>1. Holds(d, i) /\ at[d][i] \in 1..made[i]  BY <1>4, <1>5, <2>1, <3>2 DEF Uses
      <4>2. rec[i][at[d][i]].by = d  BY <1>0, <1>4, <2>1, <4>1 DEF DriverOK, Forcing
      <4> QED  BY <3>2, <4>1, <4>2 DEF Kept
    <3> QED  BY <3>1, <3>2
  <2> QED  BY <1>0, <1>4, <2>1 DEF DriverOK, Forcing
<1>12. Honouring(d)'
  BY <1>0, <1>1, <1>9 DEF DriverOK, Honouring
<1>13. DriverOK(d)'  BY <1>6, <1>7, <1>8, <1>10, <1>11, <1>12 DEF DriverOK
<1> QED  BY <1>2, <1>3, <1>13 DEF Inv
-----------------------------------------------------------------------------
(* What the drivers hand to a job. *)

(* A dispatch's op finds every ancestor done.                              *)
LEMMA ReadyAncestors ==
    ASSUME Inv, NEW d \in Dispatches, NEW j \in Jobs, Deps[j] \subseteq Finished(d)
    PROVE  Ancestors[j] \subseteq Finished(d)
<1>1. DriverOK(d) /\ d \in Conductors  BY DEF Inv, Drivers, Conductors
<1>2. Finished(d) \in SUBSET Jobs  BY DEF Finished
<1>3. \A i \in Finished(d) : Ancestors[i] \subseteq Finished(d)
  BY <1>1 DEF DriverOK, Fitting, Holds, Finished
<1> QED  BY <1>2, <1>3, AncestorsWithin

(* The merge of what the dependencies passed on is the projection of all   *)
(* the dispatch has done: each handoff arrives, whichever way it came, and *)
(* nothing else.                                                           *)
LEMMA ReceivedIsProjection ==
    ASSUME Inv, NEW d \in Dispatches, NEW j \in Jobs, Deps[j] \subseteq Finished(d)
    PROVE  Received(d, j) = Projection(j, at[d])
<1> DEFINE via(i) == rec[i][at[d][i]].up
           from(k) == {i \in Deps[j] : via(i)[k] # 0}
<1>0. TypeOK /\ DriverOK(d) /\ d \in Conductors /\ d \in Drivers  BY DEF Inv, Drivers, Conductors
<1>1. Ancestors[j] \subseteq Finished(d)  BY ReadyAncestors
<1>2. /\ Deps[j] \subseteq Ancestors[j] /\ Deps[j] \subseteq Jobs
      /\ \A i \in Deps[j] : Ancestors[i] \subseteq Ancestors[j]
      /\ \A k \in Ancestors[j] : k \in Deps[j] \/ \E i \in Deps[j] : k \in Ancestors[i]
  BY AncestorsClosed, AncestorsThrough
<1>3. \A i \in Deps[j] : via(i) = Projection(i, at[d])
  BY <1>0, <1>2 DEF DriverOK, Fitting, Uses, Holds, Finished
<1>4. \A i \in Deps[j], k \in Jobs :
        via(i)[k] = IF k \in Ancestors[i] \cap Propagating THEN at[d][k] ELSE 0
  <2> HIDE DEF via
  <2> QED  BY <1>3 DEF Projection
<1>5. \A k \in Ancestors[j] : k \in Jobs /\ at[d][k] # 0
  BY <1>0, <1>1 DEF DriverOK, Pointing, Holds, Finished
<1> DEFINE R(k) == IF k \in Deps[j] \cap Propagating THEN at[d][k]
                   ELSE IF from(k) = {} THEN 0 ELSE via(CHOOSE i \in from(k) : TRUE)[k]
<1>6. Received(d, j) = [k \in Jobs |-> R(k)]  BY DEF Received
<1>7. ASSUME NEW k \in Jobs
      PROVE  R(k) = IF k \in Ancestors[j] \cap Propagating THEN at[d][k] ELSE 0
  <2>1. CASE k \in Deps[j] \cap Propagating  BY <1>2, <2>1, Zenon
  <2>2. CASE k \notin Deps[j] \cap Propagating /\ k \in Ancestors[j] \cap Propagating
    <3>1. PICK i \in Deps[j] : k \in Ancestors[i]  BY <1>2, <2>2
    <3>2. via(i)[k] # 0  BY <1>4, <1>5, <2>2, <3>1
    <3>3. from(k) # {}  BY <3>2
    <3>4. \A x \in from(k) : via(x)[k] = at[d][k]
      <4> HIDE DEF via
      <4> QED  BY <1>4
    <3> HIDE DEF via, from
    <3>5. (CHOOSE x \in from(k) : TRUE) \in from(k)  BY <3>3
    <3> QED  BY <2>2, <3>3, <3>4, <3>5
  <2>3. CASE k \notin Ancestors[j] \cap Propagating
    <3>1. \A i \in Deps[j] : via(i)[k] = 0
      <4> HIDE DEF via
      <4> QED  BY <1>2, <1>4, <2>3
    <3>2. from(k) = {}  BY <3>1
    <3> HIDE DEF via, from
    <3> QED  BY <1>2, <2>3, <3>2
  <2> QED  BY <2>1, <2>2, <2>3, Zenon
<1> HIDE DEF R
<1> QED  BY <1>6, <1>7 DEF Projection

(* A graph hands over the handoffs of the jobs it has done.                *)
LEMMA UpstreamIsProjection ==
    ASSUME Inv, NEW g \in Graphs, NEW j \in Jobs, Turn(g, j)
    PROVE  /\ Ancestors[j] \subseteq Finished(g)
           /\ Projection(j, Upstream(g)) = Projection(j, at[g])
<1>1. Ancestors[j] \subseteq Finished(g)  BY AncestorsBefore DEF Turn
<1>2. \A k \in Ancestors[j] \cap Propagating : Upstream(g)[k] = at[g][k]
  BY <1>1 DEF Upstream, Finished
<1> QED  BY <1>1, <1>2, ProjectionSame

-----------------------------------------------------------------------------
(* Jobs that are reused. *)

LEMMA ReuseJobInv ==
    ASSUME Inv, NEW g \in Graphs, NEW j \in Jobs, ReuseJob(g, j)
    PROVE  Inv'
<1>0. TypeOK /\ DriverOK(g) /\ g \in Drivers /\ g \in Conductors  BY DEF Inv, Drivers, Conductors
<1>1. /\ UNCHANGED <<files, target, release, lock, worker, stopped, pc, force, fp, since, dec, at, refused>>
      /\ pc[g] = "run" /\ st[g][j] = "todo" /\ dec[g][j] = "REUSE" /\ Turn(g, j)
      /\ st' = [st EXCEPT ![g][j] = "done"] /\ gaps' \in {gaps, gaps \cup {g}}
  BY DEF ReuseJob, Turn, local
<1>2. TypeOK'  BY <1>0, <1>1 DEF TypeOK, Stages, files, release
<1>3. bound' = bound /\ bound \in Nat /\ UNCHANGED <<made, rec, accepted, boundId, repair, ordered>>
  BY <1>0, <1>1, BoundsAssumption DEF TypeOK, release, files
<1>4. FilesOK' /\ Kept  BY <1>1, <1>3, FilesKept
<1>5. /\ st'[g][j] = "done" /\ \A i \in Jobs : i # j => st'[g][i] = st[g][i]
      /\ \A e \in Drivers : e # g => st'[e] = st[e]
  BY <1>0, <1>1 DEF TypeOK
<1>6. Ancestors[j] \subseteq Finished(g)  BY <1>1, UpstreamIsProjection
<1>7. Reusing(g, j) /\ Uses(g, j)  BY <1>1 DEF Reusing, Uses
<1>8. /\ at[g][j] \in accepted[j] /\ at[g][j] \in 1..made[j] /\ Agreed(j, at[g][j])
      /\ rec[j][at[g][j]].quality # "bare"
  BY <1>0, <1>7, UsedAttempt DEF DriverOK, Pointing, Inv, FilesOK
<1>9. /\ rec[j][at[g][j]].up = Projection(j, at[g]) /\ ~ForceSelected(g, j)
      /\ since[g] = repair => Honours(j, at[g][j])
  BY <1>0, <1>7 DEF DriverOK, Fitting, Forcing, Honouring
<1>10. Suits(g, j, at[g][j], Projection(j, at[g]))'
  <2>1. Agreed(j, at[g][j])' /\ (since[g] = repair => Honours(j, at[g][j])')
    BY <1>1, <1>3, <1>8, <1>9 DEF Agreed, Honours
  <2>2. Projection(j, at[g])' = Projection(j, at[g]) /\ ~ForceSelected(g, j)'
    BY <1>1, <1>9 DEF Projection, ForceSelected
  <2> QED  BY <1>1, <1>3, <1>5, <1>8, <1>9, <2>1, <2>2, SMTT(30) DEF Suits
<1>11. /\ at'[g][j] \in 0..made'[j] /\ st[g][j] \notin {"unit", "done"} /\ pc'[g] # "idle"
       /\ dec[g][j] # NoDecision
  BY <1>0, <1>1, <1>3 DEF DriverOK, Pointing, NoDecision
<1>12. worker[g][j] # "active"  BY <1>0, <1>1 DEF DriverOK, Working
<1> QED  BY <1>0, <1>1, <1>2, <1>4, <1>5, <1>6, <1>10, <1>11, <1>12, TakesUp

(* A dispatch or a launch completes a job with the accepted attempt.       *)
LEMMA ReuseLatestInv ==
    ASSUME Inv, NEW d \in Dispatches \cup Launches, NEW j \in Jobs, NEW f,
           pc[d] = "run", st[d][j] = "todo",
           Admissible(j, f, Projection(j, at[d])),
           d \in Dispatches => ~ForceSelected(d, j) /\ Ancestors[j] \subseteq Finished(d),
           at' = [at EXCEPT ![d][j] = latest[j]], st' = [st EXCEPT ![d][j] = "done"],
           gaps' \in SUBSET Drivers,
           UNCHANGED <<files, target, release, lock, worker, stopped, pc, local, dec, refused>>
    PROVE  Inv'
<1>0. TypeOK /\ DriverOK(d) /\ d \in Drivers /\ d \notin Graphs
  BY DriversAssumption DEF Inv, Drivers
<1>1. UNCHANGED <<files, target, release, lock, worker, stopped, pc, force, fp, since, dec, refused>>
  BY DEF local
<1>2. /\ latest[j] \in accepted[j] /\ latest[j] \in 1..made[j] /\ Agreed(j, latest[j])
      /\ rec[j][latest[j]].up = Projection(j, at[d]) /\ Honours(j, latest[j])
      /\ rec[j][latest[j]].quality # "bare"
  BY AdmissibleFacts DEF Inv, FilesOK
<1>3. TypeOK'
  <2>1. latest[j] \in 0..MaxAttempt  BY <1>0, BoundsAssumption DEF TypeOK, Hashes
  <2>2. at' \in [Drivers -> Hashes]  BY <1>0, <2>1 DEF TypeOK, Hashes
  <2>3. st' \in [Drivers -> [Jobs -> Stages]]
    BY <1>0 DEF TypeOK, Stages
  <2> QED  BY <1>0, <1>1, <2>2, <2>3 DEF TypeOK, files, release
<1>4. bound' = bound /\ bound \in Nat /\ UNCHANGED <<made, rec, accepted, boundId, repair, ordered>>
  BY <1>0, <1>1, BoundsAssumption DEF TypeOK, release, files
<1>5. FilesOK' /\ Kept  BY <1>1, <1>4, FilesKept
<1>6. /\ st'[d][j] = "done" /\ \A i \in Jobs : i # j => st'[d][i] = st[d][i]
      /\ \A e \in Drivers : e # d => st'[e] = st[e]
  BY <1>0 DEF TypeOK
<1>7. /\ at'[d][j] = latest[j] /\ \A i \in Jobs : i # j => at'[d][i] = at[d][i]
      /\ \A e \in Drivers : e # d => at'[e] = at[e]
  BY <1>0 DEF TypeOK, Hashes
<1>8. Projection(j, at[d])' = Projection(j, at[d])
  <2>1. \A k \in Ancestors[j] \cap Propagating : at'[d][k] = at[d][k]
    BY <1>7, AncestorsBefore, AncestorsClosed DEF Jobs
  <2>2. Projection(j, at[d])' = Projection(j, at'[d])  BY DEF Projection
  <2> QED  BY <2>1, <2>2, ProjectionSame
<1>9. Suits(d, j, at[d][j], Projection(j, at[d]))'
  <2>1. Agreed(j, at[d][j])' /\ Honours(j, at[d][j])'
    BY <1>1, <1>2, <1>4, <1>7, Zenon DEF Agreed, Honours
  <2>2. d \in Conductors => ~ForceSelected(d, j)'
    BY <1>0, <1>1 DEF ForceSelected, Conductors
  <2> QED  BY <1>2, <1>4, <1>6, <1>7, <1>8, <2>1, <2>2 DEF Suits
<1>10. /\ at'[d][j] \in 0..made'[j] /\ st[d][j] \notin {"unit", "done"} /\ pc'[d] # "idle"
       /\ ~Reusing(d, j) /\ (d \in Conductors => Ancestors[j] \subseteq Finished(d))
  <2>1. made[j] \in Nat  BY <1>0, Typed
  <2> QED  BY <1>0, <1>1, <1>2, <1>4, <1>7, <2>1 DEF Reusing, Conductors
<1>11. worker[d][j] # "active"  BY <1>0 DEF DriverOK, Working
<1> QED  BY <1>0, <1>1, <1>3, <1>5, <1>6, <1>7, <1>9, <1>10, <1>11, TakesUp

LEMMA ReuseOpInv ==
    ASSUME Inv, NEW d \in Dispatches, NEW j \in Jobs, ReuseOp(d, j)
    PROVE  Inv'
<1>1. Deps[j] \subseteq Finished(d) /\ pc[d] = "run" /\ st[d][j] = "todo"  BY DEF ReuseOp, Ready
<1>2. Ancestors[j] \subseteq Finished(d) /\ Received(d, j) = Projection(j, at[d])
  BY <1>1, ReadyAncestors, ReceivedIsProjection
<1>3. gaps' \in SUBSET Drivers  BY DEF ReuseOp, Inv, TypeOK, Drivers
<1>4. /\ Admissible(j, target, Projection(j, at[d])) /\ ~ForceSelected(d, j)
      /\ at' = [at EXCEPT ![d][j] = latest[j]] /\ st' = [st EXCEPT ![d][j] = "done"]
      /\ UNCHANGED <<files, target, release, lock, worker, stopped, pc, local, dec, refused>>
  BY <1>2 DEF ReuseOp
<1> QED  BY <1>1, <1>2, <1>3, <1>4, ReuseLatestInv

LEMMA LaunchReuseInv ==
    ASSUME Inv, NEW l \in Launches, NEW j \in Jobs, LaunchReuse(l, j)
    PROVE  Inv'
<1>1. /\ pc[l] = "run" /\ st[l][j] = "todo" /\ Admissible(j, fp[l], Projection(j, at[l]))
      /\ at' = [at EXCEPT ![l][j] = latest[j]] /\ st' = [st EXCEPT ![l][j] = "done"]
      /\ UNCHANGED <<files, target, release, lock, worker, stopped, pc, local, dec, refused>>
  BY DEF LaunchReuse, Launching
<1>2. gaps' \in SUBSET Drivers  BY DEF LaunchReuse, Inv, TypeOK
<1>3. l \notin Dispatches  BY DriversAssumption
<1> QED  BY <1>1, <1>2, <1>3, ReuseLatestInv
-----------------------------------------------------------------------------
(* Jobs that run. *)

(* A claim that resolve_evidence_target accepts agrees with the handoffs   *)
(* it names.                                                               *)
LEMMA ClaimAgrees ==
    ASSUME NEW j \in Jobs, NEW a, NEW up, up = rec[j][a].up, Named(j, a),
           TargetAgreed(j, rec[j][a].snap, up), NEW k \in Jobs, up[k] # 0
    PROVE  rec[k][up[k]].snap \in {0, rec[j][a].snap}
<1> DEFINE x == rec[k][up[k]].snap
<1>1. x = 0 \/ x \in Snapshots(up)  BY Zenon DEF Snapshots
<1>2. CASE x \in Snapshots(up) /\ j \notin TargetFree  BY <1>2, SMTT(30) DEF TargetAgreed
<1>3. CASE x \in Snapshots(up) /\ x # 0 /\ j \in TargetFree
  <2>1. rec[j][a].snap \in Snapshots(up)
    <3>1. PICK i \in Jobs : /\ up[i] # 0 /\ rec[i][up[i]].snap # 0
                           /\ rec[i][up[i]].snap = rec[j][a].snap
      BY <1>3, Zenon DEF Named
    <3> QED  BY <3>1, SMTT(30) DEF Snapshots
  <2>2. x = rec[j][a].snap
    <3> HIDE DEF x
    <3> QED  BY <1>3, <2>1 DEF TargetAgreed
  <2> QED  BY <2>2
<1> QED  BY <1>1, <1>2, <1>3, SMTT(30)

(* A new attempt, whose claim names handoffs there are: what the files     *)
(* keep, and what the claim says.                                          *)
LEMMA ClaimedFiles ==
    ASSUME Inv, NEW d \in Drivers, NEW j \in Jobs, NEW finger \in 0..MaxTarget, NEW up \in Hashes,
           \A k \in Jobs : up[k] <= made[k],
           made[j] < MaxAttempt, bound = deployed,
           made' = [made EXCEPT ![j] = @ + 1],
           rec' = [rec EXCEPT ![j][made[j] + 1] = Claim(d, j, finger, up)],
           UNCHANGED <<accepted, latest, release>>
    PROVE  /\ made' \in [Jobs -> 0..MaxAttempt]
           /\ rec' \in [Jobs -> [Attempts -> Record \cup {NoRecord}]]
           /\ Kept /\ made'[j] = made[j] + 1 /\ made[j] \in Nat
           /\ rec'[j][made[j] + 1] = Claim(d, j, finger, up)
           /\ \A i \in Jobs : \A a \in 1..made[i] : rec'[i][a] = rec[i][a]
           /\ \A i \in Jobs : \A a \in 1..made'[i] : rec'[i][a] \in Record /\ rec'[i][a].bind <= bound
<1>0. TypeOK  BY DEF Inv
<1>1. MaxAttempt \in Nat /\ \A i \in Jobs : made[i] \in Nat /\ made[i] <= MaxAttempt
  BY <1>0, BoundsAssumption, Typed
<1>2. made[j] + 1 \in Attempts  BY <1>1 DEF Attempts
<1>3. made' \in [Jobs -> 0..MaxAttempt]  BY <1>0, <1>1 DEF TypeOK
<1>4. made'[j] = made[j] + 1 /\ \A i \in Jobs : i # j => made'[i] = made[i]  BY <1>0 DEF TypeOK
<1>5. Snapshot(j, finger, up) \in 0..MaxTarget
  <2>1. Snapshots(up) \subseteq 0..MaxTarget
    <3>1. \A k \in Jobs : up[k] # 0 => up[k] \in Attempts  BY <1>1 DEF Hashes, Attempts
    <3>2. \A k \in Jobs : \A a \in Attempts : rec[k][a].snap \in 0..MaxTarget  BY <1>0, Typed
    <3> QED  BY <3>1, <3>2 DEF Snapshots
  <2>2. 0 \in 0..MaxTarget  BY BoundsAssumption
  <2>3. Snapshots(up) # {} => (CHOOSE y \in Snapshots(up) : TRUE) \in Snapshots(up)  OBVIOUS
  <2> QED  BY <2>1, <2>2, <2>3 DEF Snapshot
<1>6. Claim(d, j, finger, up) \in Record
  <2>1. boundId[j] \in 0..MaxRelease /\ 0 \in 0..MaxRelease /\ repair \in 0..MaxRepair
    BY <1>0, BoundsAssumption DEF TypeOK
  <2> QED  BY <1>5, <2>1 DEF Claim, Record
<1>7. rec' \in [Jobs -> [Attempts -> Record \cup {NoRecord}]]  BY <1>0, <1>2, <1>6 DEF TypeOK
<1>8. /\ rec'[j][made[j] + 1] = Claim(d, j, finger, up)
      /\ \A i \in Jobs : \A a \in Attempts : i # j \/ a # made[j] + 1 => rec'[i][a] = rec[i][a]
  BY <1>0, <1>2 DEF TypeOK
<1>9. \A i \in Jobs : \A a \in 1..made[i] : rec'[i][a] = rec[i][a]
  <2>1. ASSUME NEW i \in Jobs, NEW a \in 1..made[i] PROVE a \in Attempts /\ (i = j => a # made[j] + 1)
    BY <1>1 DEF Attempts
  <2> QED  BY <1>8, <2>1
<1>10. Kept
  <2>1. \A i \in Jobs : made[i] <= made'[i]  BY <1>1, <1>4
  <2> QED  BY <1>9, <2>1 DEF Kept
<1>11. \A i \in Jobs : \A a \in 1..made'[i] : rec'[i][a] \in Record /\ rec'[i][a].bind <= bound
  <2>1. boundId[j] <= bound  BY DEF Inv, ReleasesOK
  <2>2. Claim(d, j, finger, up).bind = boundId[j]  BY DEF Claim
  <2>3. ASSUME NEW i \in Jobs, NEW a \in 1..made'[i] PROVE rec'[i][a] \in Record /\ rec'[i][a].bind <= bound
    <3>1. CASE a \in 1..made[i]  BY <1>9, <3>1 DEF Inv, FilesOK
    <3>2. CASE a \notin 1..made[i]
      <4>1. i = j /\ a = made[j] + 1  BY <1>1, <1>4, <2>3, <3>2
      <4> QED  BY <1>6, <1>8, <2>1, <2>2, <4>1
    <3> QED  BY <3>1, <3>2
  <2> QED  BY <2>3
<1> QED  BY <1>1, <1>3, <1>4, <1>7, <1>8, <1>9, <1>10, <1>11

(* A driver prepares a fresh attempt for a job.                            *)
LEMMA BeginAttemptInv ==
    ASSUME Inv, NEW d \in Drivers, NEW j \in Jobs, NEW finger \in 0..MaxTarget,
           BeginAttempt(d, j, finger, Projection(j, at[d])),
           pc[d] = "run", st[d][j] = "todo",
           d \in Graphs => dec[d][j] \notin {NoDecision, "REUSE"},
           d \in Conductors => Ancestors[j] \subseteq Finished(d),
           UNCHANGED <<target, release, stopped, local>>
    PROVE  Inv'
<1> DEFINE up == Projection(j, at[d])
           new == made[j] + 1
<1>0. TypeOK /\ DriverOK(d)  BY DEF Inv
<1>1. up \in Hashes /\ \A k \in Jobs : up[k] <= made[k]
  <2>1. at[d] \in Hashes /\ \A k \in Jobs : made[k] \in Nat  BY <1>0, Typed
  <2>2. up \in Hashes /\ \A k \in Jobs : up[k] \in {0, at[d][k]}  BY <2>1, ProjectionFacts
  <2>3. \A k \in Jobs : at[d][k] \in 0..made[k]  BY <1>0 DEF DriverOK, Pointing
  <2> HIDE DEF up
  <2> QED  BY <2>1, <2>2, <2>3
<1>2. /\ made[j] < MaxAttempt /\ bound = deployed /\ made' = [made EXCEPT ![j] = @ + 1]
      /\ rec' = [rec EXCEPT ![j][made[j] + 1] = Claim(d, j, finger, up)]
      /\ UNCHANGED <<accepted, latest, dec, gaps, refused, target, release, stopped,
                     force, fp, since, pc, lock>>
      /\ st' = [st EXCEPT ![d][j] = "prepared"] /\ at' = [at EXCEPT ![d][j] = new]
      /\ worker' = [worker EXCEPT ![d][j] = "active"]
  BY DEF BeginAttempt, local
<1> HIDE DEF up
<1>3. /\ made' \in [Jobs -> 0..MaxAttempt]
      /\ rec' \in [Jobs -> [Attempts -> Record \cup {NoRecord}]]
      /\ Kept /\ made'[j] = made[j] + 1 /\ made[j] \in Nat
      /\ rec'[j][made[j] + 1] = Claim(d, j, finger, up)
      /\ \A i \in Jobs : \A a \in 1..made[i] : rec'[i][a] = rec[i][a]
      /\ \A i \in Jobs : \A a \in 1..made'[i] : rec'[i][a] \in Record /\ rec'[i][a].bind <= bound
  BY <1>1, <1>2, ClaimedFiles
<1>4. \A i \in Jobs : made'[i] \in Nat /\ made[i] \in Nat /\ made[i] <= made'[i]
  BY <1>0, <1>3, Typed, BoundsAssumption DEF Kept
<1>5. /\ TypeOK' /\ st'[d][j] = "prepared" /\ at'[d][j] = new
      /\ \A e \in Drivers : e # d => at'[e] = at[e] /\ st'[e] = st[e]
      /\ \A i \in Jobs : i # j => at'[d][i] = at[d][i] /\ st'[d][i] = st[d][i]
      /\ \A e \in Drivers, i \in Jobs : e # d \/ i # j => worker'[e][i] = worker[e][i]
  <2>1. new \in 0..MaxAttempt  BY <1>2, <1>3, BoundsAssumption
  <2>2. at' \in [Drivers -> Hashes]  BY <1>0, <1>2, <2>1 DEF TypeOK, Hashes
  <2>3. st' \in [Drivers -> [Jobs -> Stages]]  BY <1>0, <1>2 DEF TypeOK, Stages
  <2>4. worker' \in [Drivers -> [Jobs -> {"none", "active", "dead"}]]  BY <1>0, <1>2 DEF TypeOK
  <2>5. TypeOK'  BY <1>0, <1>2, <1>3, <2>2, <2>3, <2>4 DEF TypeOK, release
  <2>6. /\ st'[d][j] = "prepared" /\ at'[d][j] = new
        /\ \A e \in Drivers : e # d => at'[e] = at[e] /\ st'[e] = st[e]
    BY <1>0, <1>2 DEF TypeOK, Hashes
  <2>7. \A i \in Jobs : i # j => at'[d][i] = at[d][i] /\ st'[d][i] = st[d][i]
    BY <1>0, <1>2 DEF TypeOK, Hashes
  <2>8. \A e \in Drivers, i \in Jobs : e # d \/ i # j => worker'[e][i] = worker[e][i]
    BY <1>0, <1>2 DEF TypeOK
  <2> QED  BY <2>5, <2>6, <2>7, <2>8
<1>6. FilesOK'
  <2>1. ASSUME NEW i \in Jobs
        PROVE  /\ accepted[i] \subseteq 1..made'[i] /\ latest[i] \in accepted[i] \cup {0}
               /\ \A a \in accepted[i] : Agreed(i, a)' /\ Measured(i, a)' /\ rec'[i][a].quality # "bare"
    <3>1. accepted[i] \subseteq 1..made[i] /\ latest[i] \in accepted[i] \cup {0}
      BY DEF Inv, FilesOK
    <3>2. ASSUME NEW a \in accepted[i]
          PROVE  Agreed(i, a)' /\ Measured(i, a)' /\ rec'[i][a].quality # "bare"
      <4>1. Agreed(i, a) /\ Measured(i, a) /\ rec[i][a].quality # "bare"  BY DEF Inv, FilesOK
      <4>2. Agreed(i, a)'  BY <1>0, <1>3, <1>5, <3>1, <4>1, AgreedKept
      <4> QED  BY <1>3, <3>1, <4>1, <4>2 DEF Measured
    <3> QED  BY <1>4, <3>1, <3>2
  <2> QED  BY <1>2, <1>3, <2>1 DEF FilesOK, release
<1>7. Suits(d, j, at[d][j], Projection(j, at[d]))'
  <2>1. new \in 1..made'[j]  BY <1>3
  <2>2. /\ rec'[j][new].up = up /\ rec'[j][new].by = d /\ rec'[j][new].rep = repair
        /\ rec'[j][new].snap = Snapshot(j, finger, up) /\ rec'[j][new].bind = boundId[j]
        /\ rec'[j][new].quality = "bare"
    BY <1>3 DEF Claim
  <2>3. Named(j, at[d][j])'
    <3>1. \A k \in Jobs : up[k] \in Nat /\ up[k] <= made[k]
      BY <1>1, BoundsAssumption DEF Hashes
    <3>2. \A k \in {i \in Jobs : up[i] # 0} : rec'[k][up[k]] = rec[k][up[k]]
      BY <1>3, <1>4, <3>1
    <3>3. \A k \in Jobs : rec'[j][at'[d][j]].up[k] <= made'[k]  BY <1>4, <1>5, <2>2, <3>1
    <3>4. ASSUME j \in TargetFree, NEW k \in Jobs, up[k] # 0, rec[k][up[k]].snap # 0
          PROVE  \E i \in Jobs : /\ up[i] # 0 /\ rec[i][up[i]].snap # 0
                                 /\ rec[i][up[i]].snap = Snapshot(j, finger, up)
      <4>1. rec[k][up[k]].snap \in Snapshots(up)  BY <3>4 DEF Snapshots
      <4>2. Snapshot(j, finger, up) \in Snapshots(up)  BY <3>4, <4>1 DEF Snapshot
      <4> QED  BY <4>2 DEF Snapshots
    <3> QED  BY <1>5, <2>2, <3>2, <3>3, <3>4 DEF Named
  <2>4. Projection(j, at[d])' = up
    <3>1. \A k \in Ancestors[j] \cap Propagating : at'[d][k] = at[d][k]
      BY <1>5, AncestorsBefore, AncestorsClosed DEF Jobs
    <3>2. Projection(j, at[d])' = Projection(j, at'[d])  BY DEF Projection
    <3> QED  BY <3>1, <3>2, ProjectionSame DEF up
  <2>5. Honours(j, at[d][j])'  BY <1>2, <1>5, <2>2 DEF Honours, release
  <2> QED  BY <1>5, <2>1, <2>2, <2>3, <2>4, <2>5 DEF Suits
<1>8. at'[d][j] \in 0..made'[j] /\ pc'[d] # "idle"  BY <1>2, <1>3, <1>5
<1>9. /\ st[d][j] \notin {"unit", "done"} /\ ~Reusing(d, j) /\ (d \in Graphs => dec[d][j] # NoDecision)
  BY DEF Reusing
<1> QED  BY <1>2, <1>3, <1>5, <1>6, <1>7, <1>8, <1>9, TakesUp, SMTT(30)

LEMMA RunJobInv ==
    ASSUME Inv, NEW g \in Graphs, NEW j \in Jobs, RunJob(g, j)
    PROVE  Inv'
<1>1. /\ Turn(g, j) /\ dec[g][j] \notin {NoDecision, "REUSE"} /\ pc[g] = "run" /\ st[g][j] = "todo"
      /\ UNCHANGED <<target, release, stopped, local>> /\ g \in Drivers
  BY DEF RunJob, Turn, Drivers
<1>2. Ancestors[j] \subseteq Finished(g) /\ Projection(j, Upstream(g)) = Projection(j, at[g])
  BY <1>1, UpstreamIsProjection
<1>3. fp[g] \in 0..MaxTarget  BY <1>1 DEF Inv, TypeOK
<1>4. CASE BeginAttempt(g, j, fp[g], Projection(j, Upstream(g)))
  <2>1. BeginAttempt(g, j, fp[g], Projection(j, at[g]))  BY <1>2, <1>4
  <2> QED  BY <1>1, <1>2, <1>3, <2>1, BeginAttemptInv
<1>5. CASE RefuseAttempt(g, j)  BY <1>1, <1>5, RefuseAttemptInv
<1> QED  BY <1>4, <1>5 DEF RunJob

LEMMA BeginOpInv ==
    ASSUME Inv, NEW d \in Dispatches, NEW j \in Jobs, BeginOp(d, j)
    PROVE  Inv'
<1>1. /\ Deps[j] \subseteq Finished(d) /\ pc[d] = "run" /\ st[d][j] = "todo"
      /\ UNCHANGED <<target, release, stopped, local>> /\ d \in Drivers /\ d \notin Graphs
  BY DriversAssumption DEF BeginOp, Ready, Drivers
<1>2. Ancestors[j] \subseteq Finished(d) /\ Received(d, j) = Projection(j, at[d])
  BY <1>1, ReadyAncestors, ReceivedIsProjection
<1>3. target \in 0..MaxTarget  BY BoundsAssumption DEF Inv, TypeOK
<1>4. CASE BeginAttempt(d, j, target, Received(d, j))
  <2>1. BeginAttempt(d, j, target, Projection(j, at[d]))  BY <1>2, <1>4
  <2> QED  BY <1>1, <1>2, <1>3, <2>1, BeginAttemptInv
<1>5. CASE RefuseAttempt(d, j)  BY <1>1, <1>5, RefuseAttemptInv
<1> QED  BY <1>4, <1>5 DEF BeginOp

LEMMA LaunchJobInv ==
    ASSUME Inv, NEW l \in Launches, NEW j \in Jobs, LaunchJob(l, j)
    PROVE  Inv'
<1>1. /\ pc[l] = "run" /\ st[l][j] = "todo"
      /\ UNCHANGED <<target, release, stopped, local>>
      /\ l \in Drivers /\ l \notin Graphs /\ l \notin Conductors
  BY DriversAssumption DEF LaunchJob, Launching, Drivers, Conductors
<1>2. fp[l] \in 0..MaxTarget  BY <1>1 DEF Inv, TypeOK
<1>3. CASE BeginAttempt(l, j, fp[l], Projection(j, at[l]))  BY <1>1, <1>2, <1>3, BeginAttemptInv
<1>4. CASE RefuseAttempt(l, j)  BY <1>1, <1>4, RefuseAttemptInv
<1> QED  BY <1>3, <1>4 DEF LaunchJob

(* The record of a driver's attempt changes: its claim is written, its     *)
(* status, or it is accepted as it was claimed.                            *)
RecordMoves(d, j, a, r) ==
    /\ a = at[d][j] /\ r \in Record /\ rec' = [rec EXCEPT ![j][a] = r]
    /\ r.by = rec[j][a].by /\ r.up = rec[j][a].up /\ r.snap = rec[j][a].snap
    /\ r.bind = rec[j][a].bind /\ r.rep = rec[j][a].rep /\ r.quality # "bare"
    /\ st[d][j] # "prepared" => r.rel = rec[j][a].rel
    /\ st'[d][j] # "failed" => Agreed(j, a)
    /\ \/ /\ st'[d][j] = "done" /\ r.rel = r.bind
          /\ accepted' = [accepted EXCEPT ![j] = @ \cup {a}]
          /\ latest' = [latest EXCEPT ![j] = a]
       \/ st'[d][j] # "done" /\ accepted' = accepted /\ latest' = latest

JobAdvances(d, j) ==
    /\ pc[d] = "run" /\ st[d][j] \in {"prepared", "claimed", "executed"}
    /\ st'[d][j] \in {"claimed", "begun", "done", "failed"}
    /\ st' \in [Drivers -> [Jobs -> Stages]]
    /\ \A i \in Jobs : i # j => st'[d][i] = st[d][i]
    /\ \A e \in Drivers : e # d => st'[e] = st[e]
    /\ pc' \in [Drivers -> {"idle", "plan", "run", "done", "failed"}]
    /\ pc'[d] # "idle" /\ \A e \in Drivers : pc'[e] = "idle" => pc[e] = "idle"
    /\ lock' \in Graphs \cup {Free} /\ gaps' \subseteq Drivers
    /\ worker' \in [Drivers -> [Jobs -> {"none", "active", "dead"}]]
    /\ \A e \in Drivers, i \in Jobs : worker'[e][i] = "active" =>
         \/ worker[e][i] = "active" /\ (e # d \/ i # j)
         \/ e = d /\ i = j /\ st'[d][j] = "claimed"
    /\ UNCHANGED <<made, target, release, stopped, force, fp, since, dec, at, refused>>

LEMMA AttemptMoves ==
    ASSUME Inv, NEW d \in Drivers, NEW j \in Jobs, NEW a, NEW r,
           RecordMoves(d, j, a, r), JobAdvances(d, j)
    PROVE  Inv'
<1> USE DEF RecordMoves, JobAdvances
<1>0. TypeOK /\ DriverOK(d)  BY DEF Inv
<1>1. Holds(d, j) /\ Uses(d, j)  BY DEF Holds, Uses
<1>2. a \in 1..made[j] /\ a \in Attempts  BY <1>0, <1>1, UsedAttempt, Typed
<1>3. /\ st[d][j] = "prepared" => rec[j][a].by = d /\ rec[j][a].quality = "bare"
      /\ st[d][j] # "prepared" => rec[j][a].quality # "bare"
  BY <1>0, <1>1 DEF DriverOK, Pointing
<1>4. rec' \in [Jobs -> [Attempts -> Record \cup {NoRecord}]]
  <2>1. rec \in [Jobs -> [Attempts -> Record \cup {NoRecord}]]  BY <1>0 DEF TypeOK
  <2> QED  BY <1>2, <2>1
<1>5. /\ rec'[j][a] = r
      /\ \A i \in Jobs : \A b \in Attempts : i # j \/ b # a => rec'[i][b] = rec[i][b]
  <2>1. rec \in [Jobs -> [Attempts -> Record \cup {NoRecord}]]  BY <1>0 DEF TypeOK
  <2> QED  BY <1>2, <2>1
<1>6. ASSUME NEW i \in Jobs, NEW b \in 1..made[i]
      PROVE  /\ rec'[i][b] \in Record
             /\ rec'[i][b].by = rec[i][b].by /\ rec'[i][b].up = rec[i][b].up
             /\ rec'[i][b].snap = rec[i][b].snap /\ rec'[i][b].bind = rec[i][b].bind
             /\ rec'[i][b].rep = rec[i][b].rep
             /\ rec[i][b].quality # "bare" =>
                  rec'[i][b].rel = rec[i][b].rel /\ rec'[i][b].quality # "bare"
             /\ rec[i][b].quality = "bare" /\ rec'[i][b].quality # "bare" =>
                  st[rec[i][b].by][i] = "prepared" /\ st'[rec[i][b].by][i] # "prepared"
  <2>1. b \in Attempts /\ rec[i][b] \in Record  BY <1>0, Typed DEF Inv, FilesOK
  <2>2. CASE i = j /\ b = a  BY <1>3, <1>5, <2>2
  <2>3. CASE i # j \/ b # a
    <3>1. rec'[i][b] = rec[i][b]  BY <1>5, <2>1, <2>3
    <3> QED  BY <2>1, <3>1
  <2> QED  BY <2>2, <2>3
<1>7. /\ \A i \in Jobs : i # j => accepted'[i] = accepted[i] /\ latest'[i] = latest[i]
      /\ accepted[j] \subseteq accepted'[j] /\ accepted'[j] \subseteq accepted[j] \cup {a}
      /\ st'[d][j] = "done" => a \in accepted'[j] /\ r.rel = r.bind
      /\ st'[d][j] # "done" => accepted' = accepted
      /\ (latest'[j] = a /\ a \in accepted'[j]) \/ latest'[j] = latest[j]
      /\ accepted' \in [Jobs -> SUBSET Attempts] /\ latest' \in Hashes
  <2>0. /\ accepted \in [Jobs -> SUBSET Attempts] /\ latest \in [Jobs -> 0..MaxAttempt]
        /\ a \in 0..MaxAttempt
    BY <1>0, <1>2, BoundsAssumption DEF TypeOK, Hashes, Attempts
  <2>1. CASE /\ st'[d][j] = "done" /\ r.rel = r.bind
             /\ accepted' = [accepted EXCEPT ![j] = @ \cup {a}]
             /\ latest' = [latest EXCEPT ![j] = a]
    BY <1>2, <2>0, <2>1 DEF Hashes
  <2>2. CASE st'[d][j] # "done" /\ accepted' = accepted /\ latest' = latest
    BY <2>0, <2>2 DEF Hashes
  <2> QED  BY <2>1, <2>2
<1>8. Kept
  <2>1. \A i \in Jobs : made[i] <= made[i]  BY <1>0, Typed
  <2>2. \A i \in Jobs : accepted[i] \subseteq accepted'[i]  BY <1>7
  <2>3. \A i \in Jobs : made[i] <= made'[i] /\ accepted[i] \subseteq accepted'[i]  BY <2>1, <2>2, SMTT(30)
  <2>4. ASSUME NEW i \in Jobs, NEW b \in 1..made[i], rec[i][b].quality = "bare",
               rec'[i][b].quality # "bare"
        PROVE  LET e == rec[i][b].by IN st[e][i] = "prepared" /\ st'[e][i] # "prepared"
    BY <1>6, <2>4, SMTT(30)
  <2>5. ASSUME NEW i \in Jobs, NEW b \in 1..made[i]
        PROVE  /\ rec'[i][b].by = rec[i][b].by /\ rec'[i][b].up = rec[i][b].up
               /\ rec'[i][b].snap = rec[i][b].snap /\ rec'[i][b].bind = rec[i][b].bind
               /\ rec'[i][b].rep = rec[i][b].rep
               /\ rec[i][b].quality # "bare" =>
                    rec'[i][b].rel = rec[i][b].rel /\ rec'[i][b].quality # "bare"
    BY <1>6
  <2> HIDE DEF RecordMoves, JobAdvances
  <2> QED  BY <2>3, <2>4, <2>5 DEF Kept
<1>10. TypeOK'  BY <1>0, <1>4, <1>7 DEF TypeOK, release
<1>11. FilesOK'
  <2>1. ASSUME NEW i \in Jobs, NEW b \in accepted'[i]
        PROVE  b \in 1..made[i] /\ Agreed(i, b)' /\ Measured(i, b)' /\ rec'[i][b].quality # "bare"
    <3>1. CASE b \in accepted[i]
      <4>1. b \in 1..made[i] /\ Agreed(i, b) /\ Measured(i, b) /\ rec[i][b].quality # "bare"
        BY <3>1 DEF Inv, FilesOK
      <4>2. Agreed(i, b)'  BY <1>0, <1>8, <1>10, <4>1, AgreedKept
      <4> QED  BY <1>6, <4>1, <4>2 DEF Measured
    <3>2. CASE b \notin accepted[i]
      <4>1. i = j /\ b = a /\ st'[d][j] = "done"  BY <1>7, <2>1, <3>2
      <4>2. Agreed(i, b)'  BY <1>0, <1>2, <1>8, <1>10, <4>1, AgreedKept
      <4> QED  BY <1>2, <1>5, <1>7, <4>1, <4>2 DEF Measured
    <3> QED  BY <3>1, <3>2, SMTT(30)
  <2>2. \A i \in Jobs : latest'[i] \in accepted'[i] \cup {0}
    <3>1. \A i \in Jobs : latest[i] \in accepted[i] \cup {0}  BY SMTT(30) DEF Inv, FilesOK
    <3> QED  BY <1>7, <3>1
  <2>3. \A i \in Jobs : \A b \in 1..made[i] : rec'[i][b] \in Record /\ rec'[i][b].bind <= bound
    BY <1>6 DEF Inv, FilesOK
  <2> QED  BY <2>1, <2>2, <2>3 DEF FilesOK, release
<1>12. /\ d \in Conductors => Ancestors[j] \subseteq Finished(d)
       /\ d \in Conductors => rec[j][a].up = Projection(j, at[d])
       /\ d \in Conductors /\ ForceSelected(d, j) => rec[j][a].by = d
       /\ d \in Conductors /\ since[d] = repair => Honours(j, a)
       /\ d \in Graphs => dec[d][j] # NoDecision
  BY <1>0, <1>1 DEF DriverOK, Fitting, Forcing, Honouring, Started
<1>13. ASSUME Holds(d, j)' PROVE Suits(d, j, at[d][j], Projection(j, at[d]))'
  <2>1. st'[d][j] # "failed" /\ st'[d][j] # "prepared"  BY <1>13 DEF Holds
  <2>2. Agreed(j, a)'  BY <1>0, <1>2, <1>8, <1>10, <2>1, AgreedKept
  <2>3. Agreed(j, at[d][j])'  BY <2>2, ZenonT(30) DEF Agreed
  <2>4. Projection(j, at[d])' = Projection(j, at[d]) /\ (ForceSelected(d, j)' <=> ForceSelected(d, j))
    BY DEF Projection, ForceSelected
  <2>5. d \in Conductors /\ since[d] = repair => Honours(j, at[d][j])'
    <3>1. rec'[j][a].bind = rec[j][a].bind /\ rec'[j][a].rep = rec[j][a].rep  BY <1>2, <1>6
    <3>2. UNCHANGED <<boundId, repair, ordered, since>> /\ at'[d][j] = a  BY DEF release
    <3> HIDE DEF RecordMoves, JobAdvances
    <3> QED  BY <1>12, <3>1, <3>2, SMTT(30) DEF Honours
  <2>6. at'[d][j] = a /\ (st'[d][j] = "done" => a \in accepted'[j])  BY <1>7
  <2> QED  BY <1>2, <1>5, <1>12, <2>1, <2>3, <2>4, <2>5, <2>6 DEF Suits, release
<1>14. at'[d][j] \in 0..made'[j] /\ st[d][j] \notin {"unit", "done"}
  BY <1>0 DEF DriverOK, Pointing
<1>15. /\ UNCHANGED <<release, dec, force, since>>
       /\ \A e \in Drivers : e # d => at'[e] = at[e] /\ st'[e] = st[e]
       /\ \A i \in Jobs : i # j => at'[d][i] = at[d][i] /\ st'[d][i] = st[d][i]
       /\ Reusing(d, j) => at'[d][j] = at[d][j]
       /\ \A e \in Drivers, i \in Jobs : worker'[e][i] = "active" =>
            \/ worker[e][i] = "active" /\ (e # d \/ i # j)
            \/ e = d /\ i = j /\ st'[d][j] \in {"prepared", "claimed"}
  OBVIOUS
<1> QED  BY <1>8, <1>10, <1>11, <1>12, <1>13, <1>14, <1>15, TakesUp

(* The record of the attempt at hand.                                      *)
LEMMA AtHand ==
    ASSUME Inv, NEW d \in Drivers, NEW j \in Jobs, Holds(d, j)
    PROVE  /\ at[d][j] \in 1..made[j] /\ at[d][j] \in Attempts /\ rec[j][at[d][j]] \in Record
           /\ st[d][j] # "prepared" => Agreed(j, at[d][j])
<1>0. TypeOK /\ DriverOK(d)  BY DEF Inv
<1>1. at[d][j] \in 1..made[j]  BY UsedAttempt DEF Uses
<1>2. at[d][j] \in Attempts  BY <1>0, <1>1, Typed
<1>3. rec[j][at[d][j]] \in Record  BY <1>1 DEF Inv, FilesOK
<1>4. st[d][j] # "prepared" => Agreed(j, at[d][j])  BY <1>0 DEF DriverOK, Pointing
<1> QED  BY <1>1, <1>2, <1>3, <1>4

(* A claim that is written agrees with the handoffs it names, or its       *)
(* driver gives up.                                                        *)
LEMMA WriteClaimInv ==
    ASSUME Inv, NEW d \in Drivers, NEW j \in Jobs, WriteClaim(d, j)
    PROVE  Inv'
<1> DEFINE agreed == TargetAgreed(j, rec[j][at[d][j]].snap, rec[j][at[d][j]].up)
           q == IF agreed THEN "claimed" ELSE "clean"
<1>a. PICK a : a = at[d][j]  OBVIOUS
<1>0. TypeOK /\ DriverOK(d)  BY DEF Inv
<1>1. /\ pc[d] = "run" /\ st[d][j] = "prepared"
      /\ rec' = [rec EXCEPT ![j][a].rel = ident[j], ![j][a].quality = q]
      /\ \/ agreed /\ st' = [st EXCEPT ![d][j] = "claimed"] /\ UNCHANGED <<pc, lock, worker>>
         \/ GiveUp(d, j) /\ worker' = [worker EXCEPT ![d][j] = "none"]
      /\ UNCHANGED <<made, accepted, latest, target, release, stopped, force, fp, since, dec, at,
                     gaps, refused>>
  BY <1>a DEF WriteClaim, Leave, local
<1>2. Holds(d, j)  BY <1>1 DEF Holds
<1>3. a \in 1..made[j] /\ a \in Attempts /\ rec[j][a] \in Record  BY <1>a, <1>2, AtHand
<1>4. agreed => Agreed(j, a)
  <2>1. Named(j, a)  BY <1>a, <1>0, <1>1 DEF DriverOK, Pointing
  <2>2. rec[j][a].up \in Hashes  BY <1>3 DEF Record
  <2>3. ASSUME agreed, NEW k \in Jobs, rec[j][a].up[k] # 0
        PROVE  rec[k][rec[j][a].up[k]].snap \in {0, rec[j][a].snap}
    <3>1. TargetAgreed(j, rec[j][a].snap, rec[j][a].up)  BY <1>a, <2>3
    <3> QED  BY <2>1, <2>3, <3>1, ClaimAgrees
  <2>4. \A k \in Jobs : rec[j][a].up[k] <= made[k]  BY <2>1 DEF Named
  <2> QED  BY <2>3, <2>4 DEF Agreed
<1> HIDE DEF agreed
<1> DEFINE r == [rec[j][a] EXCEPT !.rel = ident[j], !.quality = q]
<1>5. q \in {"claimed", "clean"}  OBVIOUS
<1> HIDE DEF q
<1>6. rec' = [rec EXCEPT ![j][a] = r]
  <2>1. rec \in [Jobs -> [Attempts -> Record \cup {NoRecord}]]  BY <1>0 DEF TypeOK
  <2> QED  BY <1>1, <1>3, <2>1
<1>7. /\ r \in Record /\ r.by = rec[j][a].by /\ r.up = rec[j][a].up /\ r.snap = rec[j][a].snap
      /\ r.bind = rec[j][a].bind /\ r.rep = rec[j][a].rep /\ r.quality # "bare"
  <2>1. ident[j] \in 0..MaxRelease  BY <1>0 DEF TypeOK
  <2> QED  BY <1>3, <1>5, <2>1 DEF Record
<1> HIDE DEF r
<1>8. gaps' \subseteq Drivers  BY <1>0, <1>1 DEF TypeOK
<1>9. CASE agreed /\ st' = [st EXCEPT ![d][j] = "claimed"] /\ UNCHANGED <<pc, lock, worker>>
  <2>1. /\ st'[d][j] = "claimed" /\ \A i \in Jobs : i # j => st'[d][i] = st[d][i]
        /\ \A e \in Drivers : e # d => st'[e] = st[e]
        /\ st' \in [Drivers -> [Jobs -> Stages]]
    BY <1>0, <1>9 DEF TypeOK, Stages
  <2>2. /\ pc' \in [Drivers -> {"idle", "plan", "run", "done", "failed"}] /\ lock' \in Graphs \cup {Free}
        /\ worker' \in [Drivers -> [Jobs -> {"none", "active", "dead"}]]
        /\ pc'[d] # "idle" /\ \A e \in Drivers : pc'[e] = "idle" => pc[e] = "idle"
        /\ \A e \in Drivers, i \in Jobs : worker'[e][i] = worker[e][i]
    BY <1>0, <1>1, <1>9 DEF TypeOK
  <2>3. /\ st[d][j] \in {"prepared", "claimed", "executed"}
        /\ st[d][j] # "prepared" => r.rel = rec[j][a].rel
        /\ st'[d][j] \in {"claimed", "begun", "done", "failed"}
        /\ st'[d][j] # "done" /\ accepted' = accepted /\ latest' = latest
        /\ UNCHANGED <<made, target, release, stopped, force, fp, since, dec, at, refused>>
    BY <1>1, <2>1
  <2>4. Agreed(j, a)  BY <1>4, <1>9
  <2>5. \A e \in Drivers, i \in Jobs : worker'[e][i] = "active" =>
          \/ worker[e][i] = "active" /\ (e # d \/ i # j)
          \/ e = d /\ i = j /\ st'[d][j] = "claimed"
    BY <2>1, <2>2
  <2>6. RecordMoves(d, j, a, r)  BY <1>a, <1>6, <1>7, <2>3, <2>4 DEF RecordMoves
  <2>7. JobAdvances(d, j)  BY <1>1, <1>8, <2>1, <2>2, <2>3, <2>5 DEF JobAdvances
  <2> QED  BY <2>6, <2>7, AttemptMoves
<1>10. CASE GiveUp(d, j) /\ worker' = [worker EXCEPT ![d][j] = "none"]
  <2>1. /\ st'[d][j] = "failed" /\ \A i \in Jobs : i # j => st'[d][i] = st[d][i]
        /\ \A e \in Drivers : e # d => st'[e] = st[e]
        /\ st' \in [Drivers -> [Jobs -> Stages]]
        /\ pc' \in [Drivers -> {"idle", "plan", "run", "done", "failed"}]
        /\ lock' \in Graphs \cup {Free}
        /\ pc'[d] # "idle" /\ \A e \in Drivers : pc'[e] = "idle" => pc[e] = "idle"
    BY <1>0, <1>1, <1>10, GiveUpFacts
  <2>2. /\ worker' \in [Drivers -> [Jobs -> {"none", "active", "dead"}]]
        /\ \A e \in Drivers, i \in Jobs : worker'[e][i] = "active" =>
             worker[e][i] = "active" /\ (e # d \/ i # j)
    BY <1>0, <1>10 DEF TypeOK
  <2>3. /\ st[d][j] \in {"prepared", "claimed", "executed"}
        /\ st[d][j] # "prepared" => r.rel = rec[j][a].rel
        /\ st'[d][j] \in {"claimed", "begun", "done", "failed"}
        /\ st'[d][j] # "done" /\ accepted' = accepted /\ latest' = latest
        /\ UNCHANGED <<made, target, release, stopped, force, fp, since, dec, at, refused>>
    BY <1>1, <2>1
  <2>4. RecordMoves(d, j, a, r)  BY <1>a, <1>6, <1>7, <2>1, <2>3 DEF RecordMoves
  <2>5. JobAdvances(d, j)  BY <1>1, <1>8, <2>1, <2>2, <2>3 DEF JobAdvances
  <2> QED  BY <2>4, <2>5, AttemptMoves
<1> QED  BY <1>1, <1>9, <1>10

LEMMA StartAttemptInv ==
    ASSUME Inv, NEW d \in Drivers, NEW j \in Jobs, StartAttempt(d, j)
    PROVE  Inv'
<1>a. PICK a : a = at[d][j]  OBVIOUS
<1>0. TypeOK /\ DriverOK(d)  BY DEF Inv
<1>1. /\ pc[d] = "run" /\ st[d][j] = "claimed"
      /\ rec' = [rec EXCEPT ![j][a].quality = "clean"] /\ st' = [st EXCEPT ![d][j] = "begun"]
      /\ worker' = [worker EXCEPT ![d][j] = "none"]
      /\ UNCHANGED <<made, accepted, latest, target, release, lock, stopped, pc, force, fp, since,
                     dec, at, gaps, refused>>
  BY <1>a DEF StartAttempt, Leave, local
<1>2. Holds(d, j)  BY <1>1 DEF Holds
<1>3. a \in 1..made[j] /\ a \in Attempts /\ rec[j][a] \in Record /\ Agreed(j, a)
  BY <1>a, <1>1, <1>2, AtHand
<1> DEFINE r == [rec[j][a] EXCEPT !.quality = "clean"]
<1>4. /\ r \in Record /\ r.by = rec[j][a].by /\ r.up = rec[j][a].up /\ r.snap = rec[j][a].snap
      /\ r.bind = rec[j][a].bind /\ r.rep = rec[j][a].rep /\ r.quality # "bare"
      /\ r.rel = rec[j][a].rel
  BY <1>3 DEF Record
<1>5. rec' = [rec EXCEPT ![j][a] = r]  BY <1>1
<1> HIDE DEF r
<1>6. /\ st'[d][j] = "begun" /\ \A i \in Jobs : i # j => st'[d][i] = st[d][i]
      /\ \A e \in Drivers : e # d => st'[e] = st[e]
      /\ st' \in [Drivers -> [Jobs -> Stages]]
  BY <1>0, <1>1 DEF TypeOK, Stages
<1>7. /\ pc' \in [Drivers -> {"idle", "plan", "run", "done", "failed"}] /\ lock' \in Graphs \cup {Free}
      /\ gaps' \subseteq Drivers /\ pc'[d] # "idle"
      /\ worker' \in [Drivers -> [Jobs -> {"none", "active", "dead"}]]
      /\ \A e \in Drivers, i \in Jobs : worker'[e][i] = "active" =>
           worker[e][i] = "active" /\ (e # d \/ i # j)
  BY <1>0, <1>1 DEF TypeOK
<1>8. /\ st[d][j] \in {"prepared", "claimed", "executed"}
      /\ st'[d][j] \in {"claimed", "begun", "done", "failed"}
      /\ st'[d][j] # "done" /\ accepted' = accepted /\ latest' = latest
      /\ \A e \in Drivers : pc'[e] = "idle" => pc[e] = "idle"
      /\ UNCHANGED <<made, target, release, stopped, force, fp, since, dec, at, refused>>
  BY <1>1, <1>6
<1>9. RecordMoves(d, j, a, r)  BY <1>a, <1>3, <1>4, <1>5, <1>8 DEF RecordMoves
<1>10. JobAdvances(d, j)  BY <1>1, <1>6, <1>7, <1>8 DEF JobAdvances
<1> QED  BY <1>9, <1>10, AttemptMoves

(* A finalized attempt is accepted as it was claimed.                      *)
LEMMA FinalizeInv ==
    ASSUME Inv, NEW d \in Drivers, NEW j \in Jobs, NEW q \in Qualities, Finalize(d, j, q)
    PROVE  Inv'
<1>a. PICK a : a = at[d][j]  OBVIOUS
<1>0. TypeOK /\ DriverOK(d)  BY DEF Inv
<1>1. /\ pc[d] = "run" /\ st[d][j] = "executed" /\ rec[j][a].rel = rec[j][a].bind
      /\ rec' = [rec EXCEPT ![j][a].quality = q] /\ accepted' = [accepted EXCEPT ![j] = @ \cup {a}]
      /\ latest' = [latest EXCEPT ![j] = a] /\ st' = [st EXCEPT ![d][j] = "done"]
      /\ gaps' \in {gaps, gaps \cup {d}}
      /\ UNCHANGED <<made, target, release, lock, worker, stopped, pc, force, fp, since, dec, at, refused>>
  BY <1>a DEF Finalize, Measured, local
<1>2. Holds(d, j)  BY <1>1 DEF Holds
<1>3. a \in 1..made[j] /\ a \in Attempts /\ rec[j][a] \in Record /\ Agreed(j, a)
  BY <1>a, <1>1, <1>2, AtHand
<1> DEFINE r == [rec[j][a] EXCEPT !.quality = q]
<1>4. /\ r \in Record /\ r.by = rec[j][a].by /\ r.up = rec[j][a].up /\ r.snap = rec[j][a].snap
      /\ r.bind = rec[j][a].bind /\ r.rep = rec[j][a].rep /\ r.quality # "bare"
      /\ r.rel = rec[j][a].rel
  BY <1>3, QualitiesAssumption DEF Record
<1>5. rec' = [rec EXCEPT ![j][a] = r]  BY <1>1
<1> HIDE DEF r
<1>6. /\ st'[d][j] = "done" /\ \A i \in Jobs : i # j => st'[d][i] = st[d][i]
      /\ \A e \in Drivers : e # d => st'[e] = st[e]
      /\ st' \in [Drivers -> [Jobs -> Stages]]
  BY <1>0, <1>1 DEF TypeOK, Stages
<1>7. /\ pc' \in [Drivers -> {"idle", "plan", "run", "done", "failed"}] /\ lock' \in Graphs \cup {Free}
      /\ gaps' \subseteq Drivers /\ pc'[d] # "idle"
      /\ worker' \in [Drivers -> [Jobs -> {"none", "active", "dead"}]]
  BY <1>0, <1>1 DEF TypeOK
<1>8. \A e \in Drivers, i \in Jobs : worker'[e][i] = "active" =>
        worker[e][i] = "active" /\ (e # d \/ i # j)
  BY <1>0, <1>1 DEF DriverOK, Working
<1>9. r.rel = r.bind  BY <1>1, <1>4
<1>10. /\ st[d][j] \in {"prepared", "claimed", "executed"}
       /\ st'[d][j] \in {"claimed", "begun", "done", "failed"}
       /\ \A e \in Drivers : pc'[e] = "idle" => pc[e] = "idle"
       /\ UNCHANGED <<made, target, release, stopped, force, fp, since, dec, at, refused>>
  BY <1>1, <1>6
<1>11. RecordMoves(d, j, a, r)  BY <1>a, <1>1, <1>3, <1>4, <1>5, <1>6, <1>9 DEF RecordMoves
<1>12. JobAdvances(d, j)  BY <1>1, <1>6, <1>7, <1>8, <1>10 DEF JobAdvances
<1> QED  BY <1>11, <1>12, AttemptMoves
-----------------------------------------------------------------------------
(* The invariant. *)

LEMMA Initially == Init => Inv
<1> SUFFICES ASSUME Init PROVE Inv  OBVIOUS
<1>0. MaxAttempt \in Nat /\ MaxTarget \in Nat \ {0} /\ MaxRelease \in Nat /\ MaxRepair \in Nat /\ N \in Nat
  BY BoundsAssumption, GraphOrderAssumption
<1>1. TypeOK  BY <1>0 DEF Init, TypeOK, Hashes, Decisions, NoDecision, Stages
<1>2. FilesOK  BY <1>0 DEF Init, FilesOK
<1>3. ReleasesOK  BY <1>0 DEF Init, ReleasesOK
<1>4. ASSUME NEW d \in Drivers PROVE DriverOK(d)
  <2>1. \A j \in Jobs : ~Holds(d, j) /\ ~Reusing(d, j) /\ ~Uses(d, j)
    BY DEF Init, Holds, Reusing, Uses, NoDecision
  <2>2. Started(d) /\ Pointing(d) /\ Working(d)  BY <1>0, <2>1 DEF Init, Started, Pointing, Working
  <2>3. Fitting(d) /\ Forcing(d) /\ Honouring(d)
    BY <1>0, <2>1 DEF Init, Fitting, Forcing, Honouring
  <2> QED  BY <2>2, <2>3 DEF DriverOK
<1> QED  BY <1>1, <1>2, <1>3, <1>4 DEF Inv

LEMMA AttemptInv ==
    ASSUME Inv, NEW d \in Drivers, NEW j \in Jobs, Attempt(d, j)
    PROVE  Inv'
  BY WriteClaimInv, StartAttemptInv, EnterUnitInv, LeaveUnitInv, RaiseChangedInv, FinalizeInv
     DEF Attempt

LEMMA Inductive == Inv /\ [Next]_vars => Inv'
<1> SUFFICES ASSUME Inv, [Next]_vars PROVE Inv'  OBVIOUS
<1>0. Graphs \subseteq Drivers /\ Dispatches \subseteq Drivers /\ Launches \subseteq Drivers
  BY DEF Drivers
<1>1. ASSUME NEW g \in Graphs, GraphStep(g) PROVE Inv'
  BY <1>0, <1>1, PlanJobInv, ReuseJobInv, RunJobInv, AttemptInv, QuietInv DEF GraphStep
<1>2. ASSUME NEW d \in Dispatches, DispatchStep(d) PROVE Inv'
  BY <1>0, <1>2, ReuseOpInv, BeginOpInv, AttemptInv, QuietInv DEF DispatchStep
<1>3. ASSUME NEW l \in Launches, LaunchStep(l) PROVE Inv'
  BY <1>0, <1>3, LaunchReuseInv, LaunchJobInv, AttemptInv, QuietInv DEF LaunchStep
<1>4. ASSUME NEW S \in Changes, Deploy(S) PROVE Inv'
  BY <1>4, DriversAssumption, DeployInv
<1>5. CASE UNCHANGED vars
  <2>1. UNCHANGED <<files, release, worker, force, since, dec, st, at, pc, lock, target, stopped,
                    fp, gaps, refused>>
    BY <1>5 DEF vars, files, release
  <2>2. TypeOK'  BY <1>5 DEF Inv, TypeOK, vars
  <2> QED  BY <2>1, <2>2, Quiet
<1>6. CASE Next
  BY <1>1, <1>2, <1>3, <1>4, <1>6, StartGraphInv, StartDispatchInv, StartLaunchInv, CrashInv,
     QuietInv, AdmitRepairInv DEF Next
<1> QED  BY <1>5, <1>6

(* The inductive invariant holds in every state the drivers reach.         *)
THEOREM Invariance == Spec => []Inv
  BY Initially, Inductive, PTL DEF Spec

-----------------------------------------------------------------------------
(* What it gives. *)

(* A graph or a dispatch is done when every job is.                        *)
Done == \A d \in Conductors : pc[d] = "done" => Finished(d) = Jobs

(* Only a driver at work changes the progress of its jobs.                 *)
LEMMA AtWork ==
    ASSUME TypeOK, NEW d \in Drivers, NEW j \in Jobs,
           \/ PlanJob(d, j) \/ ReuseJob(d, j) \/ RunJob(d, j) \/ Attempt(d, j)
           \/ ReuseOp(d, j) \/ BeginOp(d, j) \/ LaunchReuse(d, j) \/ LaunchJob(d, j)
    PROVE  /\ pc[d] # "done" /\ pc'[d] # "done"
           /\ \A e \in Drivers : e # d => pc'[e] = pc[e] /\ st'[e] = st[e]
<1>1. ASSUME pc[d] = "run", GiveUp(d, j)
      PROVE  pc'[d] # "done" /\ \A e \in Drivers : e # d => pc'[e] = pc[e] /\ st'[e] = st[e]
  BY <1>1 DEF GiveUp, TypeOK
<1>2. CASE PlanJob(d, j)
  <2>1. pc[d] = "plan" /\ pc' \in {pc, [pc EXCEPT ![d] = "run"]} /\ UNCHANGED st
    BY <1>2 DEF PlanJob
  <2> QED  BY <2>1 DEF TypeOK
<1>3. CASE ReuseJob(d, j)  BY <1>3 DEF ReuseJob, Turn, TypeOK
<1>4. ASSUME pc[d] = "run", NEW finger, NEW up, BeginAttempt(d, j, finger, up) \/ RefuseAttempt(d, j)
      PROVE  pc'[d] # "done" /\ \A e \in Drivers : e # d => pc'[e] = pc[e] /\ st'[e] = st[e]
  <2>1. \/ GiveUp(d, j)
        \/ st' = [st EXCEPT ![d][j] = "prepared"] /\ UNCHANGED pc
    BY <1>4 DEF BeginAttempt, RefuseAttempt
  <2> QED  BY <1>1, <1>4, <2>1 DEF TypeOK
<1>5. CASE RunJob(d, j)  BY <1>4, <1>5 DEF RunJob, Turn
<1>6. CASE BeginOp(d, j)  BY <1>4, <1>6 DEF BeginOp, Ready
<1>7. CASE LaunchJob(d, j)  BY <1>4, <1>7 DEF LaunchJob, Launching
<1>8. CASE ReuseOp(d, j)  BY <1>8 DEF ReuseOp, Ready, TypeOK
<1>9. CASE LaunchReuse(d, j)  BY <1>9 DEF LaunchReuse, Launching, TypeOK
<1>10. CASE Attempt(d, j)
  <2>1. CASE EnterUnit(d, j)  BY <2>1 DEF EnterUnit, TypeOK
  <2>2. CASE LeaveUnit(d, j)
    <3>1. /\ pc[d] = "run"
          /\ (st' = [st EXCEPT ![d][j] = "executed"] /\ UNCHANGED pc) \/ GiveUp(d, j)
      BY <2>2 DEF LeaveUnit
    <3> QED  BY <1>1, <3>1 DEF TypeOK
  <2>3. CASE RaiseChanged(d, j) \/ AbandonAttempt(d, j)
    BY <1>1, <2>3 DEF RaiseChanged, AbandonAttempt
  <2>5. CASE WriteClaim(d, j)
    <3>1. /\ pc[d] = "run"
          /\ (st' = [st EXCEPT ![d][j] = "claimed"] /\ UNCHANGED pc) \/ GiveUp(d, j)
      BY <2>5 DEF WriteClaim
    <3> QED  BY <1>1, <3>1 DEF TypeOK
  <2>6. CASE StartAttempt(d, j)  BY <2>6 DEF StartAttempt, TypeOK
  <2>4. ASSUME NEW q \in Qualities, Finalize(d, j, q)
        PROVE  /\ pc[d] # "done" /\ pc'[d] # "done"
               /\ \A e \in Drivers : e # d => pc'[e] = pc[e] /\ st'[e] = st[e]
    BY <2>4 DEF Finalize, TypeOK
  <2> QED  BY <1>10, <2>1, <2>2, <2>3, <2>4, <2>5, <2>6 DEF Attempt
<1> QED  BY <1>2, <1>3, <1>5, <1>6, <1>7, <1>8, <1>9, <1>10

LEMMA DoneKept ==
    ASSUME TypeOK, Done, [Next]_vars
    PROVE  Done'
<1>0. /\ Graphs \subseteq Drivers /\ Dispatches \subseteq Drivers /\ Launches \subseteq Drivers
      /\ Conductors \subseteq Drivers /\ Launches \cap Conductors = {}
  BY DriversAssumption DEF Drivers, Conductors
<1>1. ASSUME NEW d \in Drivers, pc'[d] # "done",
             \A e \in Drivers : e # d => pc'[e] = pc[e] /\ st'[e] = st[e]
      PROVE  Done'
  BY <1>0, <1>1 DEF Done, Finished
<1>2. ASSUME UNCHANGED st,
             \A e \in Conductors : pc'[e] = "done" => pc[e] = "done" \/ Finished(e) = Jobs
      PROVE  Done'
  BY <1>2 DEF Done, Finished
<1>3. ASSUME NEW d \in Drivers, NEW j \in Jobs,
             \/ PlanJob(d, j) \/ ReuseJob(d, j) \/ RunJob(d, j) \/ Attempt(d, j)
             \/ ReuseOp(d, j) \/ BeginOp(d, j) \/ LaunchReuse(d, j) \/ LaunchJob(d, j)
      PROVE  Done'
  BY <1>1, <1>3, AtWork
<1>4. ASSUME NEW d \in Drivers, NEW x \in {"plan", "run", "failed"},
             pc' = [pc EXCEPT ![d] = x], UNCHANGED st
      PROVE  Done'
  BY <1>0, <1>2, <1>4 DEF TypeOK
<1>5. ASSUME NEW d \in Drivers, d \in Launches \/ Finished(d) = Jobs,
             pc' = [pc EXCEPT ![d] = "done"], UNCHANGED st
      PROVE  Done'
  BY <1>0, <1>2, <1>5 DEF TypeOK
<1>6. ASSUME NEW g \in Graphs, GraphStep(g) PROVE Done'
  <2>1. CASE FingerprintTarget(g)  BY <1>0, <1>4, <2>1 DEF FingerprintTarget
  <2>2. CASE CompleteGraph(g)  BY <1>0, <1>5, <2>2 DEF CompleteGraph
  <2> QED  BY <1>0, <1>3, <1>6, <2>1, <2>2 DEF GraphStep
<1>7. ASSUME NEW d \in Dispatches, DispatchStep(d) \/ VerifyStop(d) PROVE Done'
  <2>1. CASE CompleteDispatch(d)  BY <1>0, <1>5, <2>1 DEF CompleteDispatch
  <2>2. CASE FailDispatch(d)  BY <1>0, <1>4, <2>2 DEF FailDispatch
  <2>3. CASE VerifyStop(d)  BY <1>2, <2>3 DEF VerifyStop
  <2> QED  BY <1>0, <1>3, <1>7, <2>1, <2>2, <2>3 DEF DispatchStep
<1>8. ASSUME NEW l \in Launches, LaunchStep(l) PROVE Done'
  <2>1. CASE CompleteLaunch(l)  BY <1>0, <1>5, <2>1 DEF CompleteLaunch
  <2> QED  BY <1>0, <1>3, <1>8, <2>1 DEF LaunchStep
<1>9. ASSUME NEW g \in Graphs, NEW f, StartGraph(g, f) PROVE Done'
  BY <1>0, <1>4, <1>9 DEF StartGraph
<1>10. ASSUME NEW d \in Dispatches, NEW f, StartDispatch(d, f) PROVE Done'
  BY <1>0, <1>4, <1>10 DEF StartDispatch
<1>11. ASSUME NEW l \in Launches, NEW j, NEW up, StartLaunch(l, j, up) PROVE Done'
  BY <1>0, <1>4, <1>11 DEF StartLaunch
<1>12. ASSUME NEW d \in Drivers, Crash(d) PROVE Done'
  BY <1>4, <1>12 DEF Crash
<1>13. CASE ChangeTarget \/ (\E S \in Changes : Deploy(S)) \/ (\E f \in Forces : AdmitRepair(f))
            \/ UNCHANGED vars
  BY <1>2, <1>13 DEF ChangeTarget, Deploy, AdmitRepair, vars
<1> QED  BY <1>6, <1>7, <1>8, <1>9, <1>10, <1>11, <1>12, <1>13 DEF Next

(* A driver that is done completed every job, and by Inv with attempts     *)
(* that fit.                                                               *)
LEMMA Completion == Spec => [](Inv /\ Done)
<1>1. Init => Done  BY DEF Init, Done, Drivers, Conductors
<1>2. Inv /\ Done /\ [Next]_vars => Inv' /\ Done'
  BY Inductive, DoneKept DEF Inv
<1> QED  BY <1>1, <1>2, Initially, PTL DEF Spec

LEMMA Completed ==
    ASSUME Inv, Done, NEW d \in Graphs \cup Dispatches, pc[d] = "done", NEW j \in Jobs
    PROVE  /\ DriverOK(d) /\ d \in Conductors /\ Holds(d, j) /\ Uses(d, j)
           /\ st[d][j] = "done" /\ at[d][j] \in accepted[j]
<1>1. DriverOK(d) /\ d \in Conductors  BY DEF Inv, Drivers, Conductors
<1>2. st[d][j] = "done"  BY <1>1 DEF Done, Finished
<1>3. at[d][j] \in accepted[j]  BY <1>1, <1>2 DEF DriverOK, Pointing
<1> QED  BY <1>1, <1>2, <1>3 DEF Holds, Uses

(* Every variable keeps its type.                                          *)
THEOREM TypeCorrect == Spec => []TypeOK
<1>1. Inv => TypeOK  BY DEF Inv
<1> QED  BY <1>1, Invariance, PTL

(* What a completed graph or dispatch published fits together, whatever    *)
(* other drivers made, published or were refused while it ran: each job's  *)
(* handoff was made from exactly the handoffs the same driver completed    *)
(* its propagating ancestors with.                                         *)
THEOREM PublishedFits == Spec => []CompletedConsistent
<1>1. Inv /\ Done => CompletedConsistent
  <2> SUFFICES ASSUME Inv, Done, NEW d \in Graphs \cup Dispatches, pc[d] = "done", NEW j \in Jobs
               PROVE  at[d][j] \in accepted[j] /\ rec[j][at[d][j]].up = Projection(j, at[d])
    BY DEF CompletedConsistent
  <2>1. /\ DriverOK(d) /\ d \in Conductors /\ Uses(d, j) /\ at[d][j] \in accepted[j]
    BY Completed
  <2> QED  BY <2>1 DEF DriverOK, Fitting
<1> QED  BY <1>1, Completion, PTL

(* A completed graph is about one state of the target, however often the   *)
(* checkout changed while its jobs ran.                                    *)
THEOREM TargetIsOne == Spec => []OneTarget
<1>1. Inv /\ Done => OneTarget
  <2> SUFFICES ASSUME Inv, Done, NEW d \in Graphs \cup Dispatches, pc[d] = "done", NEW j \in Jobs,
                      NEW k \in Ancestors[j] \cap Propagating
               PROVE  rec[k][at[d][k]].snap \in {0, rec[j][at[d][j]].snap}
    BY DEF OneTarget
  <2>1. k \in Jobs  BY AncestorsClosed
  <2>2. DriverOK(d) /\ d \in Conductors /\ d \in Drivers /\ Holds(d, j) /\ Uses(d, j)
    BY Completed DEF Drivers
  <2>3. Holds(d, k)  BY <2>1, Completed
  <2>4. rec[j][at[d][j]].up = Projection(j, at[d])  BY <2>2 DEF DriverOK, Fitting
  <2>5. rec[j][at[d][j]].up[k] = at[d][k]
    <3>1. Projection(j, at[d])[k] = at[d][k]  BY <2>1 DEF Projection
    <3> QED  BY <2>4, <3>1
  <2>6. at[d][k] # 0 /\ Agreed(j, at[d][j])
    <3>1. st[d][j] = "done"  BY Completed
    <3> QED  BY <2>1, <2>2, <2>3, <3>1 DEF DriverOK, Pointing
  <2> QED  BY <2>1, <2>5, <2>6, Zenon DEF Agreed
<1> QED  BY <1>1, Completion, PTL

(* A forced graph or dispatch that completed made the forced job and       *)
(* everything that depends on it itself.                                   *)
THEOREM ForcedMadeAfresh == Spec => []ForcedFresh
<1>1. Inv /\ Done => ForcedFresh
  <2> SUFFICES ASSUME Inv, Done, NEW d \in Graphs \cup Dispatches, pc[d] = "done", NEW j \in Jobs,
                      ForceSelected(d, j)
               PROVE  rec[j][at[d][j]].by = d
    BY DEF ForcedFresh, ForceSelected
  <2>1. DriverOK(d) /\ d \in Conductors /\ Holds(d, j)  BY Completed
  <2> QED  BY <2>1 DEF DriverOK, Forcing
<1> QED  BY <1>1, Completion, PTL

(* A driver that started under the admitted repair completes with handoffs *)
(* of the repaired implementation, fresh where the repair ordered it.      *)
THEOREM RepairIsHonoured == Spec => []RepairHonoured
<1>1. Inv /\ Done => RepairHonoured
  <2> SUFFICES ASSUME Inv, Done, NEW d \in Graphs \cup Dispatches, pc[d] = "done",
                      since[d] = repair, NEW j \in Jobs
               PROVE  Honours(j, at[d][j]) /\ Measured(j, at[d][j])
    BY DEF RepairHonoured, Honours, Measured
  <2>1. DriverOK(d) /\ d \in Conductors /\ Uses(d, j) /\ at[d][j] \in accepted[j]  BY Completed
  <2> QED  BY <2>1 DEF DriverOK, Honouring, Inv, FilesOK
<1> QED  BY <1>1, Completion, PTL

(* No unit executes an implementation older than the bound one, and a      *)
(* newer one only for a claim that a deployment split, which is never      *)
(* accepted.                                                               *)
THEOREM WorkersAreCurrent == Spec => []WorkersCurrent
<1>1. Inv => WorkersCurrent
  BY DEF Inv, DriverOK, Working, WorkersCurrent, Runs, Measured
<1> QED  BY <1>1, Invariance, PTL

=============================================================================
