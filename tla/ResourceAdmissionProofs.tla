----------------------- MODULE ResourceAdmissionProofs -----------------------
(***************************************************************************)
(* Proofs about ResourceAdmission, for any reviews, services, threads and  *)
(* work: work is charged while it exists, a lease stays with its owner,    *)
(* and the leases together stay within every budget.                       *)
(***************************************************************************)
EXTENDS ResourceAdmission, FiniteSetTheorems, TLAPS

Busy == {"tracked", "started", "removing"}

(* A lease belongs to at most one review, by the ledger's own record.      *)
OneLease ==
    /\ \A o \in Owners : phase[o] \in {"idle", "waiting"} => lease[o] = None
    /\ \A o \in Owners : lease[o] \in LeaseIds \cup {None}

(* The work of a launcher is recorded in its lease, under its own name.    *)
Tracking ==
    /\ \A k \in Launchers : step[k] \in Busy =>
          item[k] \in Items /\ item[k] \in recorded[lease[ParentOf[k]]]
    /\ \A k \in Launchers : step[k] \notin Busy => item[k] = None

(* Work is recorded in one lease, for the review it was launched for.      *)
OneRecord ==
    /\ \A l \in Ids : l \notin ledger => recorded[l] = {}
    /\ \A s \in Services : recorded[s] = {}
    /\ \A l, m \in ledger : \A x \in Items : x \in recorded[l] \cap recorded[m] => l = m
    /\ \A l \in ledger : \A x \in recorded[l] : world[x] # "absent" => ranFor[x] = holder[l]

Inv == TypeOK /\ LeaseIntact /\ NestedInside /\ OneLease /\ Tracking /\ OneRecord /\ WorkCharged

(* Initially the ledger is empty and nothing runs.                         *)
LEMMA InitInv == Init => Inv
<1> SUFFICES ASSUME Init PROVE Inv
  OBVIOUS
<1> USE DEF Init
<1>1. TypeOK  BY DEF TypeOK
<1>2. LeaseIntact /\ NestedInside /\ OneLease  BY DEF LeaseIntact, NestedInside, OneLease
<1>3. Tracking  BY DEF Tracking, Busy
<1>4. OneRecord  BY DEF OneRecord, Ids
<1>5. WorkCharged  BY SMTT(30) DEF WorkCharged
<1> QED  BY <1>1, <1>2, <1>3, <1>4, <1>5 DEF Inv

(* Every step keeps the invariant: work enters a lease before it starts    *)
(* and leaves it after it is confirmed gone; a lease leaves the ledger     *)
(* when it records no work, or when the work it records is gone.           *)
LEMMA NextInv == Inv /\ [Next]_vars => Inv'
<1> SUFFICES ASSUME Inv, [Next]_vars PROVE Inv'
  OBVIOUS
<1> USE IdsAssumption, ParentAssumption
    DEF Inv, TypeOK, LeaseIntact, NestedInside, OneLease, Tracking, OneRecord, WorkCharged, Busy,
        Items, Holders, Ids, ledgerVars, ownerVars, launcherVars
<1>1. CASE UNCHANGED vars
  BY <1>1 DEF vars
<1>2. ASSUME NEW o \in Owners, Request(o) PROVE Inv'
  <2>1. TypeOK'  BY <1>2 DEF Request
  <2>2. LeaseIntact'  BY <1>2 DEF Request
  <2>3. NestedInside'  BY <1>2 DEF Request
  <2>4. OneLease'  BY <1>2 DEF Request
  <2>5. Tracking'  BY <1>2 DEF Request
  <2>6. OneRecord'  BY <1>2 DEF Request
  <2>7. WorkCharged'  BY <1>2 DEF Request
  <2> QED  BY <2>1, <2>2, <2>3, <2>4, <2>5, <2>6, <2>7
<1>3. ASSUME NEW o \in Owners, GiveUp(o) PROVE Inv'
  <2>1. TypeOK'  BY <1>3 DEF GiveUp
  <2>2. LeaseIntact'  BY <1>3 DEF GiveUp
  <2>3. NestedInside'  BY <1>3 DEF GiveUp
  <2>4. OneLease'  BY <1>3 DEF GiveUp
  <2>5. Tracking'  BY <1>3 DEF GiveUp
  <2>6. OneRecord'  BY <1>3 DEF GiveUp
  <2>7. WorkCharged'  BY <1>3 DEF GiveUp
  <2> QED  BY <2>1, <2>2, <2>3, <2>4, <2>5, <2>6, <2>7
<1>4. ASSUME NEW o \in Owners, Close(o) PROVE Inv'
  <2>1. TypeOK'  BY <1>4 DEF Close
  <2>2. LeaseIntact'  BY <1>4 DEF Close
  <2>3. NestedInside'  BY <1>4 DEF Close
  <2>4. OneLease'  BY <1>4 DEF Close
  <2>5. Tracking'  BY <1>4 DEF Close
  <2>6. OneRecord'  BY <1>4 DEF Close
  <2>7. WorkCharged'  BY <1>4 DEF Close
  <2> QED  BY <2>1, <2>2, <2>3, <2>4, <2>5, <2>6, <2>7
<1>5. ASSUME NEW o \in Owners, Settle(o) PROVE Inv'
  <2>1. TypeOK'
    <3>1. phase' = [phase EXCEPT ![o] = "idle"] /\ lease' = [lease EXCEPT ![o] = None]
          /\ UNCHANGED <<inside, launcherVars, world, ranFor, stale>> /\ lease[o] \in ledger
      BY <1>5 DEF Settle
    <3>2. CASE Keep(lease[o])  BY <3>1, <3>2 DEF Keep
    <3>3. CASE Delete(lease[o])  BY <3>1, <3>3 DEF Delete
    <3> QED  BY <1>5, <3>2, <3>3 DEF Settle
  <2>2. LeaseIntact'  BY <1>5 DEF Settle, Delete, Keep, Retained
  <2>3. NestedInside'  BY <1>5 DEF Settle, Delete, Keep, Retained
  <2>4. OneLease'  BY <1>5 DEF Settle, Delete, Keep, Retained
  <2>5. Tracking'  BY <1>5 DEF Settle, Delete, Keep, Retained
  <2>6. OneRecord'
    <3>1. UNCHANGED <<world, ranFor>>
      BY <1>5 DEF Settle
    <3>2. CASE Keep(lease[o])  BY <3>1, <3>2 DEF Keep
    <3>3. CASE Delete(lease[o])  BY <3>1, <3>3 DEF Delete
    <3> QED  BY <1>5, <3>2, <3>3 DEF Settle
  <2>7. WorkCharged'  BY <1>5 DEF Settle, Delete, Keep, Retained
  <2> QED  BY <2>1, <2>2, <2>3, <2>4, <2>5, <2>6, <2>7
<1>6. ASSUME NEW o \in Owners, Crash(o) PROVE Inv'
  <2>1. TypeOK'  BY <1>6 DEF Crash, Die
  <2>2. LeaseIntact'  BY <1>6 DEF Crash, Die
  <2>3. NestedInside'  BY <1>6 DEF Crash, Die
  <2>4. OneLease'  BY <1>6 DEF Crash, Die
  <2>5. Tracking'  BY <1>6 DEF Crash, Die
  <2>6. OneRecord'  BY <1>6 DEF Crash, Die
  <2>7. WorkCharged'  BY <1>6 DEF Crash, Die
  <2> QED  BY <2>1, <2>2, <2>3, <2>4, <2>5, <2>6, <2>7
<1>7. ASSUME NEW o \in Owners, NEW l \in LeaseIds, Admit(o, l) PROVE Inv'
  <2>1. TypeOK'  BY <1>7 DEF Admit, Fresh
  <2>2. LeaseIntact'  BY <1>7 DEF Admit, Fresh
  <2>3. NestedInside'  BY <1>7 DEF Admit, Fresh
  <2>4. OneLease'  BY <1>7 DEF Admit, Fresh
  <2>5. Tracking'  BY <1>7 DEF Admit, Fresh
  <2>6. OneRecord'  BY <1>7 DEF Admit, Fresh
  <2>7. WorkCharged'  BY <1>7 DEF Admit, Fresh
  <2> QED  BY <2>1, <2>2, <2>3, <2>4, <2>5, <2>6, <2>7
<1>8. ASSUME NEW k \in Launchers, Enter(k) PROVE Inv'
  <2>1. TypeOK'  BY <1>8 DEF Enter
  <2>2. LeaseIntact'  BY <1>8 DEF Enter
  <2>3. NestedInside'  BY <1>8 DEF Enter
  <2>4. OneLease'  BY <1>8 DEF Enter
  <2>5. Tracking'  BY <1>8 DEF Enter
  <2>6. OneRecord'  BY <1>8 DEF Enter
  <2>7. WorkCharged'  BY <1>8 DEF Enter
  <2> QED  BY <2>1, <2>2, <2>3, <2>4, <2>5, <2>6, <2>7
<1>9. ASSUME NEW k \in Launchers, Exit(k) PROVE Inv'
  <2>1. TypeOK'  BY <1>9 DEF Exit
  <2>2. LeaseIntact'  BY <1>9 DEF Exit
  <2>3. NestedInside'  BY <1>9 DEF Exit
  <2>4. OneLease'  BY <1>9 DEF Exit
  <2>5. Tracking'  BY <1>9 DEF Exit
  <2>6. OneRecord'  BY <1>9 DEF Exit
  <2>7. WorkCharged'  BY <1>9 DEF Exit
  <2> QED  BY <2>1, <2>2, <2>3, <2>4, <2>5, <2>6, <2>7
<1>10. ASSUME NEW k \in Launchers, Launch(k) PROVE Inv'
  <2>1. TypeOK'  BY <1>10 DEF Launch
  <2>2. LeaseIntact'  BY <1>10 DEF Launch
  <2>3. NestedInside'  BY <1>10 DEF Launch
  <2>4. OneLease'  BY <1>10 DEF Launch
  <2>5. Tracking'  BY <1>10 DEF Launch
  <2>6. OneRecord'  BY <1>10 DEF Launch
  <2>7. WorkCharged'  BY <1>10 DEF Launch
  <2> QED  BY <2>1, <2>2, <2>3, <2>4, <2>5, <2>6, <2>7
<1>11. ASSUME NEW k \in Launchers, Remove(k) PROVE Inv'
  <2>1. TypeOK'  BY <1>11 DEF Remove, Becomes
  <2>2. LeaseIntact'  BY <1>11 DEF Remove, Becomes
  <2>3. NestedInside'  BY <1>11 DEF Remove, Becomes
  <2>4. OneLease'  BY <1>11 DEF Remove, Becomes
  <2>5. Tracking'  BY <1>11 DEF Remove, Becomes
  <2>6. OneRecord'  BY <1>11 DEF Remove, Becomes
  <2>7. WorkCharged'  BY <1>11 DEF Remove, Becomes
  <2> QED  BY <2>1, <2>2, <2>3, <2>4, <2>5, <2>6, <2>7
<1>12. ASSUME NEW k \in Launchers, Confirm(k) PROVE Inv'
  <2>1. TypeOK'  BY <1>12 DEF Confirm, ConfirmedGone
  <2>2. LeaseIntact'  BY <1>12 DEF Confirm, ConfirmedGone
  <2>3. NestedInside'  BY <1>12 DEF Confirm, ConfirmedGone
  <2>4. OneLease'  BY <1>12 DEF Confirm, ConfirmedGone
  <2>5. Tracking'  BY <1>12 DEF Confirm, ConfirmedGone
  <2>6. OneRecord'  BY <1>12 DEF Confirm, ConfirmedGone
  <2>7. WorkCharged'  BY <1>12 DEF Confirm, ConfirmedGone
  <2> QED  BY <2>1, <2>2, <2>3, <2>4, <2>5, <2>6, <2>7
<1>13. ASSUME NEW k \in Launchers, Unconfirmed(k) PROVE Inv'
  <2>1. TypeOK'  BY <1>13 DEF Unconfirmed
  <2>2. LeaseIntact'  BY <1>13 DEF Unconfirmed
  <2>3. NestedInside'  BY <1>13 DEF Unconfirmed
  <2>4. OneLease'  BY <1>13 DEF Unconfirmed
  <2>5. Tracking'  BY <1>13 DEF Unconfirmed
  <2>6. OneRecord'  BY <1>13 DEF Unconfirmed
  <2>7. WorkCharged'  BY <1>13 DEF Unconfirmed
  <2> QED  BY <2>1, <2>2, <2>3, <2>4, <2>5, <2>6, <2>7
<1>14. ASSUME NEW k \in Launchers, NEW x \in Items, Track(k, x) PROVE Inv'
  <2>1. TypeOK'  BY <1>14 DEF Track, NewName
  <2>2. LeaseIntact'  BY <1>14 DEF Track, NewName
  <2>3. NestedInside'  BY <1>14 DEF Track, NewName
  <2>4. OneLease'  BY <1>14 DEF Track, NewName
  <2>5. Tracking'  BY <1>14 DEF Track, NewName
  <2>6. OneRecord'  BY <1>14 DEF Track, NewName
  <2>7. WorkCharged'  BY <1>14 DEF Track, NewName
  <2> QED  BY <2>1, <2>2, <2>3, <2>4, <2>5, <2>6, <2>7
<1>15. ASSUME NEW s \in Services, ReservePersistent(s) PROVE Inv'
  <2>1. TypeOK'  BY <1>15 DEF ReservePersistent
  <2>2. LeaseIntact'  BY <1>15 DEF ReservePersistent
  <2>3. NestedInside'  BY <1>15 DEF ReservePersistent
  <2>4. OneLease'  BY <1>15 DEF ReservePersistent
  <2>5. Tracking'  BY <1>15 DEF ReservePersistent
  <2>6. OneRecord'  BY <1>15 DEF ReservePersistent
  <2>7. WorkCharged'  BY <1>15 DEF ReservePersistent
  <2> QED  BY <2>1, <2>2, <2>3, <2>4, <2>5, <2>6, <2>7
<1>16. ASSUME NEW s \in Services, ReleasePersistent(s) PROVE Inv'
  <2>1. TypeOK'  BY <1>16 DEF ReleasePersistent, Delete
  <2>2. LeaseIntact'  BY <1>16 DEF ReleasePersistent, Delete
  <2>3. NestedInside'  BY <1>16 DEF ReleasePersistent, Delete
  <2>4. OneLease'  BY <1>16 DEF ReleasePersistent, Delete
  <2>5. Tracking'  BY <1>16 DEF ReleasePersistent, Delete
  <2>6. OneRecord'  BY <1>16 DEF ReleasePersistent, Delete
  <2>7. WorkCharged'  BY <1>16 DEF ReleasePersistent, Delete
  <2> QED  BY <2>1, <2>2, <2>3, <2>4, <2>5, <2>6, <2>7
<1>17. ASSUME NEW s \in Services, DropSole(s) PROVE Inv'
  <2>1. TypeOK'  BY <1>17 DEF DropSole, Delete
  <2>2. LeaseIntact'  BY <1>17 DEF DropSole, Delete
  <2>3. NestedInside'  BY <1>17 DEF DropSole, Delete
  <2>4. OneLease'  BY <1>17 DEF DropSole, Delete
  <2>5. Tracking'  BY <1>17 DEF DropSole, Delete
  <2>6. OneRecord'  BY <1>17 DEF DropSole, Delete
  <2>7. WorkCharged'  BY <1>17 DEF DropSole, Delete
  <2> QED  BY <2>1, <2>2, <2>3, <2>4, <2>5, <2>6, <2>7
<1>18. ASSUME NEW l \in Ids, Reconcile(l) PROVE Inv'
  <2>1. TypeOK'  BY <1>18 DEF Reconcile, Delete, Reclaimable, ConfirmedGone
  <2>2. LeaseIntact'  BY <1>18 DEF Reconcile, Delete, Reclaimable, ConfirmedGone
  <2>3. NestedInside'  BY <1>18 DEF Reconcile, Delete, Reclaimable, ConfirmedGone
  <2>4. OneLease'  BY <1>18 DEF Reconcile, Delete, Reclaimable, ConfirmedGone
  <2>5. Tracking'  BY <1>18 DEF Reconcile, Delete, Reclaimable, ConfirmedGone
  <2>6. OneRecord'  BY <1>18 DEF Reconcile, Delete, Reclaimable, ConfirmedGone
  <2>7. WorkCharged'  BY <1>18 DEF Reconcile, Delete, Reclaimable, ConfirmedGone
  <2> QED  BY <2>1, <2>2, <2>3, <2>4, <2>5, <2>6, <2>7
<1>19. ASSUME NEW x \in Items, ContainerExits(x) PROVE Inv'
  <2>1. TypeOK'  BY <1>19 DEF ContainerExits, Becomes
  <2>2. LeaseIntact'  BY <1>19 DEF ContainerExits, Becomes
  <2>3. NestedInside'  BY <1>19 DEF ContainerExits, Becomes
  <2>4. OneLease'  BY <1>19 DEF ContainerExits, Becomes
  <2>5. Tracking'  BY <1>19 DEF ContainerExits, Becomes
  <2>6. OneRecord'  BY <1>19 DEF ContainerExits, Becomes
  <2>7. WorkCharged'  BY <1>19 DEF ContainerExits, Becomes
  <2> QED  BY <2>1, <2>2, <2>3, <2>4, <2>5, <2>6, <2>7
<1>20. ASSUME NEW x \in Items, ContainerRemoved(x) PROVE Inv'
  <2>1. TypeOK'  BY <1>20 DEF ContainerRemoved, Becomes
  <2>2. LeaseIntact'  BY <1>20 DEF ContainerRemoved, Becomes
  <2>3. NestedInside'  BY <1>20 DEF ContainerRemoved, Becomes
  <2>4. OneLease'  BY <1>20 DEF ContainerRemoved, Becomes
  <2>5. Tracking'  BY <1>20 DEF ContainerRemoved, Becomes
  <2>6. OneRecord'  BY <1>20 DEF ContainerRemoved, Becomes
  <2>7. WorkCharged'  BY <1>20 DEF ContainerRemoved, Becomes
  <2> QED  BY <2>1, <2>2, <2>3, <2>4, <2>5, <2>6, <2>7
<1>21. ASSUME Reboot PROVE Inv'
  <2>1. TypeOK'  BY <1>21 DEF Reboot, Die
  <2>2. LeaseIntact'  BY <1>21 DEF Reboot, Die
  <2>3. NestedInside'  BY <1>21 DEF Reboot, Die
  <2>4. OneLease'  BY <1>21 DEF Reboot, Die
  <2>5. Tracking'  BY <1>21 DEF Reboot, Die
  <2>6. OneRecord'  BY <1>21 DEF Reboot, Die
  <2>7. WorkCharged'  BY <1>21 DEF Reboot, Die
  <2> QED  BY <2>1, <2>2, <2>3, <2>4, <2>5, <2>6, <2>7
<1>22. ASSUME NEW o \in Owners, SettleTimeout(o) PROVE Inv'
  <2>1. TypeOK'  BY <1>22 DEF SettleTimeout
  <2>2. LeaseIntact'  BY <1>22 DEF SettleTimeout
  <2>3. NestedInside'  BY <1>22 DEF SettleTimeout
  <2>4. OneLease'  BY <1>22 DEF SettleTimeout
  <2>5. Tracking'  BY <1>22 DEF SettleTimeout
  <2>6. OneRecord'  BY <1>22 DEF SettleTimeout
  <2>7. WorkCharged'  BY <1>22 DEF SettleTimeout
  <2> QED  BY <2>1, <2>2, <2>3, <2>4, <2>5, <2>6, <2>7
<1>23. ASSUME NEW k \in Launchers, CleanupTimeout(k) PROVE Inv'
  <2>1. TypeOK'  BY <1>23 DEF CleanupTimeout
  <2>2. LeaseIntact'  BY <1>23 DEF CleanupTimeout
  <2>3. NestedInside'  BY <1>23 DEF CleanupTimeout
  <2>4. OneLease'  BY <1>23 DEF CleanupTimeout
  <2>5. Tracking'  BY <1>23 DEF CleanupTimeout
  <2>6. OneRecord'  BY <1>23 DEF CleanupTimeout
  <2>7. WorkCharged'  BY <1>23 DEF CleanupTimeout
  <2> QED  BY <2>1, <2>2, <2>3, <2>4, <2>5, <2>6, <2>7
<1> QED
  BY <1>1, <1>2, <1>3, <1>4, <1>5, <1>6, <1>7, <1>8, <1>9, <1>10, <1>11, <1>12,
     <1>13, <1>14, <1>15, <1>16, <1>17, <1>18, <1>19, <1>20, <1>21, <1>22, <1>23 DEF Next

(* The invariant holds in every reachable state.                           *)
LEMMA Invariance == Spec => []Inv
  BY InitInv, NextInv, PTL DEF Spec

(* Type correctness of the ledger.                                         *)
THEOREM TypeCorrect == Spec => []TypeOK
<1>1. Inv => TypeOK
  BY DEF Inv
<1> QED  BY <1>1, Invariance, PTL

(* A running container or build is always charged to a lease of the        *)
(* ledger, whatever owners die, removals fail or leases are reconciled;    *)
(* so is an exited container whose owner asked for its removal.            *)
THEOREM WorkChargedCorrect == Spec => []WorkCharged
<1>1. Inv => WorkCharged
  BY DEF Inv
<1> QED  BY <1>1, Invariance, PTL

(* A review at work finds its lease in the ledger when it settles it.      *)
THEOREM LeaseIntactCorrect == Spec => []LeaseIntact
<1>1. Inv => LeaseIntact
  BY DEF Inv
<1> QED  BY <1>1, Invariance, PTL

(* No nested execution outlives the lease that encloses it.                *)
THEOREM NestedInsideCorrect == Spec => []NestedInside
<1>1. Inv => NestedInside
  BY DEF Inv
<1> QED  BY <1>1, Invariance, PTL

-----------------------------------------------------------------------------
(* Sums over finite sets. *)

(* Among the subsets of a finite set with a property there is one no       *)
(* smaller subset of which has it.                                         *)
LEMMA SmallestSubset ==
    ASSUME NEW S, IsFiniteSet(S), NEW T \in SUBSET (SUBSET S), T # {}
    PROVE  \E s \in T : \A u \in T : u \subseteq s => u = s
<1>1. IsWellFoundedOn(StrictSubsetOrdering(S), SUBSET S)
  BY FS_StrictSubsetOrderingWellFounded, FS_FiniteSubsetsOfFinite
<1>2. PICK s \in T : \A u \in T : ~(<<u, s>> \in StrictSubsetOrdering(S))
  BY <1>1, WFMin
<1> QED  BY <1>2 DEF StrictSubsetOrdering

(* Every non-empty set of naturals has a least element, and Min is it.     *)
LEMMA MinIsLeast ==
    ASSUME NEW S \in SUBSET Nat, S # {}
    PROVE  Min(S) \in S /\ \A x \in S : Min(S) <= x
<1>1. PICK m \in S : \A y \in S : ~(<<y, m>> \in OpToRel(<, Nat))
  BY NatLessThanWellFounded, WFMin, Zenon
<1>2. ASSUME NEW y \in S PROVE m <= y
  <2>1. ~(y < m)
    <3>1. <<y, m>> \in Nat \X Nat
      OBVIOUS
    <3> QED  BY <1>1, <3>1 DEF OpToRel
  <2> QED  BY <2>1
<1> QED  BY <1>2 DEF Min

Pick(s) == CHOOSE x \in s : TRUE

(* The fold of Folds, for addition: g holds the sum of f over each subset. *)
IsTotal(g, f, S) ==
    g = [s \in SUBSET S |-> IF s = {} THEN 0 ELSE f[Pick(s)] + g[s \ {Pick(s)}]]

Total(f, S) == (CHOOSE g : IsTotal(g, f, S))[S]

(* Pick takes an element.                                                  *)
LEMMA PickIn == ASSUME NEW s, s # {} PROVE Pick(s) \in s
  BY DEF Pick

(* Two such functions agree where both are defined.                        *)
LEMMA TotalUnique ==
    ASSUME NEW S, NEW T, NEW f, NEW h, NEW g, NEW k, IsFiniteSet(S), S \subseteq T,
           IsTotal(g, f, S), IsTotal(k, h, T), \A x \in S : f[x] = h[x]
    PROVE  \A s \in SUBSET S : g[s] = k[s]
<1> DEFINE Bad == {s \in SUBSET S : g[s] # k[s]}
<1>1. SUFFICES ASSUME Bad # {} PROVE FALSE
  OBVIOUS
<1>2. PICK s \in Bad : \A u \in Bad : u \subseteq s => u = s
  <2>1. Bad \in SUBSET (SUBSET S)
    OBVIOUS
  <2> HIDE DEF Bad
  <2> QED  BY <1>1, <2>1, SmallestSubset
<1>3. s # {}
  BY <1>2 DEF IsTotal
<1>4. Pick(s) \in s
  BY <1>3, PickIn
<1>5. g[s \ {Pick(s)}] = k[s \ {Pick(s)}]
  BY <1>2, <1>4
<1>6. g[s] = f[Pick(s)] + g[s \ {Pick(s)}] /\ k[s] = h[Pick(s)] + k[s \ {Pick(s)}]
  BY <1>3 DEF IsTotal
<1>7. f[Pick(s)] = h[Pick(s)]
  BY <1>4
<1> QED  BY <1>2, <1>5, <1>6, <1>7

(* There is such a function on every finite set.                           *)
LEMMA TotalExists ==
    ASSUME NEW S, NEW f, IsFiniteSet(S)
    PROVE  \E g : IsTotal(g, f, S)
<1> DEFINE Bad == {s \in SUBSET S : ~\E g : IsTotal(g, f, s)}
<1>1. SUFFICES ASSUME S \in Bad PROVE FALSE
  OBVIOUS
<1>2. PICK T \in Bad : \A u \in Bad : u \subseteq T => u = T
  <2>1. Bad \in SUBSET (SUBSET S) /\ Bad # {}
    BY <1>1
  <2> HIDE DEF Bad
  <2> QED  BY <2>1, SmallestSubset
<1>3. \A u \in SUBSET T : u # T => \E g : IsTotal(g, f, u)
  BY <1>2
<1> DEFINE G(u) == CHOOSE g : IsTotal(g, f, u)
           V(u) == IF u = {} THEN 0 ELSE f[Pick(u)] + G(u \ {Pick(u)})[u \ {Pick(u)}]
           k == [u \in SUBSET T |-> V(u)]
<1>4. ASSUME NEW u \in SUBSET T, u # T PROVE IsTotal(G(u), f, u)
  <2>1. \E g : IsTotal(g, f, u)
    BY <1>3, <1>4
  <2> QED  BY <2>1, Zenon
<1>5. ASSUME NEW u \in SUBSET T, u # T PROVE G(u)[u] = V(u)
  <2>1. CASE u = {}
    <3>1. IsTotal(G(u), f, u)
      BY <1>4, <1>5
    <3> HIDE DEF G
    <3> QED  BY <3>1, <2>1 DEF IsTotal
  <2>2. CASE u # {}
    <3> DEFINE w == u \ {Pick(u)}
    <3>1. Pick(u) \in u /\ w \in SUBSET T /\ w # T /\ w \subseteq u
      BY <2>2, <1>5, PickIn
    <3>2. IsTotal(G(u), f, u) /\ IsTotal(G(w), f, w)
      BY <1>4, <1>5, <3>1
    <3>3. IsFiniteSet(w)
      BY <3>1, FS_Subset
    <3> HIDE DEF G
    <3>4. G(u)[u] = f[Pick(u)] + G(u)[w]
      BY <2>2, <3>2 DEF IsTotal
    <3>5. G(w)[w] = G(u)[w]
      <4> HIDE DEF w
      <4>1. w \in SUBSET w
        OBVIOUS
      <4> QED  BY <3>1, <3>2, <3>3, <4>1, TotalUnique
    <3> QED  BY <2>2, <3>4, <3>5
  <2> QED  BY <2>1, <2>2
<1>6. IsTotal(k, f, T)
  <2>1. ASSUME NEW u \in SUBSET T
        PROVE  k[u] = IF u = {} THEN 0 ELSE f[Pick(u)] + k[u \ {Pick(u)}]
    <3>1. CASE u = {}
      BY <3>1
    <3>2. CASE u # {}
      <4> DEFINE w == u \ {Pick(u)}
      <4>1. Pick(u) \in u /\ w \in SUBSET T /\ w # T
        BY <3>2, PickIn
      <4>2. G(w)[w] = V(w)
        BY <4>1, <1>5
      <4> HIDE DEF G
      <4> QED  BY <3>2, <4>1, <4>2
    <3> QED  BY <3>1, <3>2
  <2> HIDE DEF V
  <2> QED  BY <2>1 DEF IsTotal
<1> QED  BY <1>2, <1>6

(* The sum of naturals over a finite set, one of its subsets at a time.    *)
LEMMA TotalNat ==
    ASSUME NEW D, NEW S \in SUBSET D, IsFiniteSet(S), NEW f \in [D -> Nat], NEW g, IsTotal(g, f, S)
    PROVE  \A s \in SUBSET S : g[s] \in Nat
<1> DEFINE Bad == {s \in SUBSET S : g[s] \notin Nat}
<1>1. SUFFICES ASSUME Bad # {} PROVE FALSE
  OBVIOUS
<1>2. PICK s \in Bad : \A u \in Bad : u \subseteq s => u = s
  <2>1. Bad \in SUBSET (SUBSET S)
    OBVIOUS
  <2> HIDE DEF Bad
  <2> QED  BY <1>1, <2>1, SmallestSubset
<1>3. s # {}
  BY <1>2 DEF IsTotal
<1>4. Pick(s) \in s
  BY <1>3, PickIn
<1>5. g[s \ {Pick(s)}] \in Nat
  BY <1>2, <1>4
<1>6. g[s] = f[Pick(s)] + g[s \ {Pick(s)}]
  BY <1>3 DEF IsTotal
<1>7. f[Pick(s)] \in Nat
  BY <1>4
<1> QED  BY <1>2, <1>5, <1>6, <1>7

(* Any element may be taken out first.                                     *)
LEMMA TotalTakeOut ==
    ASSUME NEW D, NEW S \in SUBSET D, IsFiniteSet(S), NEW f \in [D -> Nat], NEW g, IsTotal(g, f, S)
    PROVE  \A s \in SUBSET S : \A x \in s : g[s] = f[x] + g[s \ {x}]
<1> DEFINE Bad == {s \in SUBSET S : \E x \in s : g[s] # f[x] + g[s \ {x}]}
<1>1. SUFFICES ASSUME Bad # {} PROVE FALSE
  BY Zenon
<1>2. PICK s \in Bad : \A u \in Bad : u \subseteq s => u = s
  <2>1. Bad \in SUBSET (SUBSET S)
    OBVIOUS
  <2> HIDE DEF Bad
  <2> QED  BY <1>1, <2>1, SmallestSubset
<1>3. PICK x \in s : g[s] # f[x] + g[s \ {x}]
  BY <1>2
<1> DEFINE c == Pick(s)
<1>4. c \in s
  BY <1>3, PickIn
<1>5. g[s] = f[c] + g[s \ {c}]
  BY <1>3 DEF IsTotal
<1> HIDE DEF c
<1>6. c # x
  BY <1>3, <1>5
<1>7. ASSUME NEW y \in s, NEW z \in s, y # z
      PROVE  g[s \ {y}] = f[z] + g[(s \ {y}) \ {z}]
  <2>1. s \ {y} \in SUBSET S /\ s \ {y} \subseteq s /\ s \ {y} # s
    OBVIOUS
  <2>2. s \ {y} \notin Bad
    <3> HIDE DEF Bad
    <3> QED  BY <1>2, <2>1
  <2>3. z \in s \ {y}
    BY <1>7
  <2> QED  BY <2>1, <2>2, <2>3
<1> DEFINE w == (s \ {c}) \ {x}
<1>8. (s \ {x}) \ {c} = w
  OBVIOUS
<1>9. g[s \ {c}] = f[x] + g[w] /\ g[s \ {x}] = f[c] + g[w]
  BY <1>3, <1>4, <1>6, <1>7, <1>8
<1>10. f[x] \in Nat /\ f[c] \in Nat /\ g[w] \in Nat
  BY <1>3, <1>4, TotalNat
<1> HIDE DEF w
<1> QED  BY <1>3, <1>5, <1>9, <1>10

(* The sum over a set is the value of any such function at the set.        *)
LEMMA TotalIsTotal ==
    ASSUME NEW S, NEW f, IsFiniteSet(S), NEW g, IsTotal(g, f, S)
    PROVE  Total(f, S) = g[S]
<1> DEFINE h == CHOOSE k : IsTotal(k, f, S)
<1>1. IsTotal(h, f, S)
  <2>1. \E k : IsTotal(k, f, S)
    OBVIOUS
  <2> QED  BY <2>1, Zenon
<1>2. Total(f, S) = h[S]
  BY Zenon DEF Total
<1> HIDE DEF h
<1>3. S \in SUBSET S
  OBVIOUS
<1> QED  BY <1>1, <1>2, <1>3, TotalUnique

(* The sum over the empty set.                                             *)
LEMMA TotalEmpty == ASSUME NEW f PROVE Total(f, {}) = 0
<1>1. PICK g : IsTotal(g, f, {})
  BY TotalExists, FS_EmptySet
<1>2. g[{}] = 0
  BY <1>1 DEF IsTotal
<1> QED  BY <1>1, <1>2, TotalIsTotal, FS_EmptySet

(* A sum of naturals is a natural.                                         *)
LEMMA TotalType ==
    ASSUME NEW D, NEW S \in SUBSET D, IsFiniteSet(S), NEW f \in [D -> Nat]
    PROVE  Total(f, S) \in Nat
<1>1. PICK g : IsTotal(g, f, S)
  BY TotalExists
<1> QED  BY <1>1, TotalIsTotal, TotalNat

(* One more element adds its value.                                        *)
LEMMA TotalAdd ==
    ASSUME NEW D, NEW S \in SUBSET D, IsFiniteSet(S), NEW f \in [D -> Nat], NEW x \in D, x \notin S
    PROVE  Total(f, S \cup {x}) = Total(f, S) + f[x]
<1> DEFINE T == S \cup {x}
<1>1. IsFiniteSet(T) /\ T \in SUBSET D /\ S \in SUBSET T /\ T \ {x} = S /\ x \in T
  BY FS_AddElement
<1> HIDE DEF T
<1>2. PICK g : IsTotal(g, f, T)
  BY <1>1, TotalExists
<1>3. PICK h : IsTotal(h, f, S)
  BY TotalExists
<1>4. g[T] = f[x] + g[S]
  <2>1. T \in SUBSET T
    OBVIOUS
  <2> QED  BY <1>1, <1>2, <2>1, TotalTakeOut
<1>5. h[S] = g[S]
  <2>1. S \in SUBSET S
    OBVIOUS
  <2> QED  BY <1>1, <1>2, <1>3, <2>1, TotalUnique
<1>6. Total(f, T) = g[T] /\ Total(f, S) = h[S]
  BY <1>1, <1>2, <1>3, TotalIsTotal
<1>7. h[S] \in Nat /\ f[x] \in Nat
  BY <1>3, <1>6, TotalType
<1> QED  BY <1>4, <1>5, <1>6, <1>7 DEF T

(* The sum depends on the values at the elements only.                     *)
LEMMA TotalSame ==
    ASSUME NEW S, IsFiniteSet(S), NEW f, NEW h, \A x \in S : f[x] = h[x]
    PROVE  Total(f, S) = Total(h, S)
<1>1. PICK g : IsTotal(g, f, S)
  BY TotalExists
<1>2. PICK k : IsTotal(k, h, S)
  BY TotalExists
<1>3. S \in SUBSET S
  OBVIOUS
<1> QED  BY <1>1, <1>2, <1>3, TotalIsTotal, TotalUnique

-----------------------------------------------------------------------------
(* Capacity. *)

(* What the holder of each lease reserved, for one resource.               *)
Reserved(h, r) == [l \in Ids |-> IF h[l] \in Holders THEN Demand[h[l]][r] ELSE 0]

Charged(r) == Total(Reserved(holder, r), ledger)

(* Every lease of the ledger has a holder, and the ledger is finite.       *)
Held ==
    /\ IsFiniteSet(ledger)
    /\ \A l \in ledger : l \in LeaseIds => holder[l] \in Owners
    /\ \A l \in ledger : l \in Services => holder[l] = l

(* Used is the sum of what the holders of these leases reserved.           *)
LEMMA UsedIsTotal ==
    ASSUME NEW leases \in SUBSET Ids, NEW r, IsFiniteSet(leases),
           \A l \in leases : holder[l] \in Holders
    PROVE  Used(leases, r) = Total(Reserved(holder, r), leases)
<1> DEFINE f == Reserved(holder, r)
           Fold(g) == g = [s \in SUBSET leases |->
               IF s = {} THEN 0
               ELSE Demand[holder[CHOOSE x \in s : TRUE]][r] + g[s \ {CHOOSE x \in s : TRUE}]]
           iter == CHOOSE g : Fold(g)
<1>1. Used(leases, r) = iter[leases]
  BY Zenon DEF Used, MapThenSumSet, MapThenFoldSet
<1>2. ASSUME NEW s \in SUBSET leases, s # {}
      PROVE  f[Pick(s)] = Demand[holder[CHOOSE x \in s : TRUE]][r]
  <2>1. Pick(s) \in s
    BY <1>2, PickIn
  <2> QED  BY <2>1 DEF Pick, Reserved
<1>3. \A g : IsTotal(g, f, leases) <=> Fold(g)
  <2> HIDE DEF f
  <2> QED  BY <1>2 DEF IsTotal, Pick
<1>4. \E g : Fold(g)
  <2> HIDE DEF f, Fold
  <2> QED  BY <1>3, TotalExists
<1>5. Fold(iter)
  <2> HIDE DEF Fold
  <2> QED  BY <1>4, Zenon
<1> HIDE DEF f, Fold, iter
<1>6. IsTotal(iter, f, leases)
  BY <1>3, <1>5
<1> QED  BY <1>1, <1>6, TotalIsTotal DEF f

(* What the holders reserve is a natural for every lease.                  *)
LEMMA ReservedType == ASSUME NEW h, NEW r \in Resources PROVE Reserved(h, r) \in [Ids -> Nat]
  BY PolicyAssumption DEF Reserved, Vectors

(* Nothing is reserved beyond what any lease of the ledger allows.         *)
Affordable == \A l \in ledger, r \in Resources : Charged(r) <= Limit[holder[l]][r]

(* A holder that fits adds its demand to a sum that stays within every     *)
(* limit, its own included.                                                *)
LEMMA FitsAdds ==
    ASSUME Held, NEW h \in Holders, ledger \in SUBSET Ids, Fits(h), NEW r \in Resources
    PROVE  /\ Charged(r) \in Nat
           /\ Charged(r) + Demand[h][r] <= Limit[h][r]
           /\ \A l \in ledger : Charged(r) + Demand[h][r] <= Limit[holder[l]][r]
<1> DEFINE limits == {Limit[h][r]} \cup {Limit[holder[l]][r] : l \in ledger}
<1>1. \A l \in ledger : holder[l] \in Holders
  BY DEF Held, Holders, Ids
<1>2. limits \in SUBSET Nat /\ limits # {}
  <2>1. \A k \in Holders : Limit[k][r] \in Nat
    BY PolicyAssumption DEF Vectors
  <2> QED  BY <1>1, <2>1
<1>3. \A n \in limits : Min(limits) <= n
  <2> HIDE DEF limits
  <2> QED  BY <1>2, MinIsLeast
<1>4. Min(limits) \in Nat
  <2> HIDE DEF limits
  <2> QED  BY <1>2, MinIsLeast
<1>5. Used(ledger, r) = Charged(r)
  BY <1>1, UsedIsTotal DEF Held, Charged
<1>6. Charged(r) \in Nat
  BY TotalType, ReservedType DEF Held, Charged
<1>7. Used(ledger, r) + Demand[h][r] <= Min(limits)
  BY DEF Fits, FitsIn, Effective
<1>8. Demand[h][r] \in Nat
  BY PolicyAssumption DEF Vectors
<1>9. Limit[h][r] \in limits /\ \A l \in ledger : Limit[holder[l]][r] \in limits
  OBVIOUS
<1> HIDE DEF limits
<1>10. \A n \in limits : Charged(r) + Demand[h][r] <= n
  <2> SUFFICES ASSUME NEW n \in limits PROVE Charged(r) + Demand[h][r] <= n
    OBVIOUS
  <2>1. n \in Nat /\ Min(limits) <= n
    BY <1>2, <1>3
  <2> QED  BY <1>4, <1>5, <1>6, <1>7, <1>8, <2>1
<1> QED  BY <1>6, <1>9, <1>10

(* Adding a lease to the ledger adds what its holder reserved.             *)
LEMMA AddLease ==
    ASSUME TypeOK, Held, NEW h \in Holders, NEW l \in Ids, l \notin ledger, Affordable,
           Fits(h), l \in LeaseIds => h \in Owners, l \in Services => h = l,
           ledger' = ledger \cup {l}, holder' = [holder EXCEPT ![l] = h]
    PROVE  Held' /\ Affordable'
<1>1. \A m \in ledger' : holder'[m] = IF m = l THEN h ELSE holder[m]
  BY DEF TypeOK
<1>2. Held'
  BY <1>1, FS_AddElement, IdsAssumption DEF Held, Ids
<1>3. ASSUME NEW r \in Resources PROVE Charged(r)' = Charged(r) + Demand[h][r]
  <2> DEFINE f == Reserved(holder, r)
             g == Reserved(holder', r)
  <2>1. g \in [Ids -> Nat]
    BY ReservedType
  <2>2. Total(g, ledger \cup {l}) = Total(g, ledger) + g[l]
    <3>1. ledger \in SUBSET Ids /\ IsFiniteSet(ledger)
      BY DEF Held, TypeOK
    <3> HIDE DEF g
    <3> QED  BY <2>1, <3>1, TotalAdd
  <2>3. g[l] = Demand[h][r]
    BY DEF Reserved, TypeOK
  <2>4. \A m \in ledger : g[m] = f[m]
    BY DEF Reserved, TypeOK
  <2>5. Total(g, ledger) = Total(f, ledger)
    <3> HIDE DEF f, g
    <3> QED  BY <2>4, TotalSame DEF Held
  <2> HIDE DEF f, g
  <2>6. Charged(r)' = Total(g, ledger') /\ Charged(r) = Total(f, ledger)
    BY DEF Charged, f, g
  <2> QED  BY <2>2, <2>3, <2>5, <2>6
<1>4. Affordable'
  <2> SUFFICES ASSUME NEW m \in ledger', NEW r \in Resources
               PROVE  Charged(r)' <= Limit[holder'[m]][r]
    BY DEF Affordable
  <2> QED  BY <1>1, <1>3, FitsAdds DEF TypeOK
<1> QED  BY <1>2, <1>4

(* Deleting one, or none, takes nothing from what the others are allowed.  *)
LEMMA DropLease ==
    ASSUME TypeOK, Held, Affordable, NEW l \in Ids,
           ledger' = ledger \ {l}, holder' = [holder EXCEPT ![l] = None]
    PROVE  Held' /\ Affordable'
<1>1. \A m \in ledger' : m \in ledger /\ holder'[m] = holder[m]
  BY DEF TypeOK
<1>2. IsFiniteSet(ledger')
  BY FS_RemoveElement DEF Held
<1>3. Held'
  BY <1>1, <1>2 DEF Held
<1>4. ASSUME NEW r \in Resources
      PROVE  Charged(r)' <= Charged(r) /\ Charged(r) \in Nat /\ Charged(r)' \in Nat
  <2> DEFINE f == Reserved(holder, r)
             g == Reserved(holder', r)
  <2>1. f \in [Ids -> Nat] /\ g \in [Ids -> Nat]
    BY ReservedType
  <2>2. \A m \in ledger' : g[m] = f[m]
    BY <1>1 DEF Reserved, TypeOK
  <2> HIDE DEF f, g
  <2>3. Total(g, ledger') = Total(f, ledger')
    BY <1>2, <2>2, TotalSame
  <2>4. ledger \in SUBSET Ids /\ ledger' \in SUBSET Ids
    BY DEF TypeOK
  <2>5. Total(f, ledger) \in Nat /\ Total(f, ledger') \in Nat
    BY <1>2, <2>1, <2>4, TotalType DEF Held
  <2>6. Total(f, ledger') <= Total(f, ledger)
    <3>1. CASE l \in ledger
      <4>1. ledger = ledger' \cup {l} /\ l \notin ledger'
        BY <3>1
      <4>2. Total(f, ledger' \cup {l}) = Total(f, ledger') + f[l]
        BY <1>2, <2>1, <2>4, <4>1, TotalAdd
      <4>3. f[l] \in Nat
        BY <2>1
      <4> QED  BY <2>5, <4>1, <4>2, <4>3
    <3>2. CASE l \notin ledger
      <4>1. ledger' = ledger
        BY <3>2
      <4> QED  BY <2>5, <4>1
    <3> QED  BY <3>1, <3>2
  <2>7. Charged(r)' = Total(g, ledger') /\ Charged(r) = Total(f, ledger)
    BY DEF Charged, f, g
  <2> QED  BY <2>3, <2>5, <2>6, <2>7
<1>5. Affordable'
  <2> SUFFICES ASSUME NEW m \in ledger', NEW r \in Resources
               PROVE  Charged(r)' <= Limit[holder'[m]][r]
    BY DEF Affordable
  <2>1. Charged(r) <= Limit[holder[m]][r]
    BY <1>1 DEF Affordable
  <2>2. Limit[holder[m]][r] \in Nat
    BY <1>1, PolicyAssumption DEF Held, Vectors, Holders, TypeOK, Ids
  <2> QED  BY <1>1, <1>4, <2>1, <2>2
<1> QED  BY <1>3, <1>5

(* The builds of the ledger are finitely many, and no more than any client *)
(* with a build among them allows.                                         *)
Capacity == Held /\ Affordable /\ IsFiniteSet(LedgerBuilds) /\ BuildsBounded

(* Builds that only leave the ledger stay within the bound.                *)
LEMMA FewerBuilds ==
    ASSUME Inv, Capacity, Held',
           \A l \in ledger' : recorded'[l] \cap Builds # {} =>
               l \in ledger /\ recorded'[l] \subseteq recorded[l] /\ holder'[l] = holder[l]
    PROVE  IsFiniteSet(LedgerBuilds)' /\ BuildsBounded'
<1>1. LedgerBuilds' \in SUBSET LedgerBuilds
  BY DEF LedgerBuilds
<1>2. IsFiniteSet(LedgerBuilds')
  BY <1>1, FS_Subset DEF Capacity
<1>3. /\ Cardinality(LedgerBuilds') <= Cardinality(LedgerBuilds)
      /\ Cardinality(LedgerBuilds') \in Nat /\ Cardinality(LedgerBuilds) \in Nat
  BY <1>1, <1>2, FS_Subset, FS_CardinalityType DEF Capacity
<1>4. ASSUME NEW l \in ledger', recorded'[l] \cap Builds # {}
      PROVE  Cardinality(LedgerBuilds') <= MaxBuilds[holder'[l]]
  <2>1. l \in ledger /\ recorded[l] \cap Builds # {} /\ holder'[l] = holder[l]
    BY <1>4
  <2>2. Cardinality(LedgerBuilds) <= MaxBuilds[holder[l]]
    BY <2>1 DEF Capacity, BuildsBounded
  <2>3. holder[l] \in Owners
    BY <2>1 DEF Inv, TypeOK, OneRecord, Held, Ids
  <2>4. MaxBuilds[holder[l]] \in Nat
    BY <2>3, PolicyAssumption
  <2> QED  BY <1>3, <2>1, <2>2, <2>4
<1> QED  BY <1>2, <1>4 DEF BuildsBounded

(* Steps that leave the ledger alone.                                      *)
LEMMA SameLedger ==
    ASSUME Inv, Capacity, UNCHANGED <<ledger, holder, recorded>>
    PROVE  Capacity'
  BY DEF Capacity, Held, Affordable, Charged, LedgerBuilds, BuildsBounded

(* Settlement, release and reconciliation delete a lease.                  *)
LEMMA DeleteKeeps ==
    ASSUME Inv, Capacity, NEW l \in Ids, Delete(l)
    PROVE  Capacity'
<1>1. Held' /\ Affordable'
  BY DropLease DEF Inv, Capacity, Delete
<1>2. \A m \in ledger' :
         m \in ledger /\ recorded'[m] \subseteq recorded[m] /\ holder'[m] = holder[m]
  BY DEF Inv, TypeOK, Delete
<1>3. IsFiniteSet(LedgerBuilds)' /\ BuildsBounded'
  BY <1>1, <1>2, FewerBuilds DEF Capacity
<1> QED  BY <1>1, <1>3 DEF Capacity

(* A reservation that fits adds one, without work in it.                   *)
LEMMA AddKeeps ==
    ASSUME Inv, Capacity, NEW h \in Holders, NEW l \in Ids, l \notin ledger,
           Fits(h), l \in LeaseIds => h \in Owners, l \in Services => h = l,
           ledger' = ledger \cup {l}, holder' = [holder EXCEPT ![l] = h], UNCHANGED recorded
    PROVE  Capacity'
<1>1. Held' /\ Affordable'
  BY AddLease DEF Inv, Capacity
<1>2. \A m \in ledger' : recorded'[m] \cap Builds # {} => m \in ledger /\ holder'[m] = holder[m]
  BY DEF Inv, TypeOK, OneRecord
<1>3. IsFiniteSet(LedgerBuilds)' /\ BuildsBounded'
  BY <1>1, <1>2, FewerBuilds DEF Capacity
<1> QED  BY <1>1, <1>3 DEF Capacity

(* A build slot is counted against every client with a recorded build.     *)
LEMMA TrackKeeps ==
    ASSUME Inv, Capacity, NEW k \in Launchers, NEW x \in Items, Track(k, x)
    PROVE  Capacity'
<1> DEFINE o == ParentOf[k]
<1>1. o \in Owners /\ lease[o] \in ledger /\ holder[lease[o]] = o /\ lease[o] \in Ids
  BY ParentAssumption DEF Inv, TypeOK, NestedInside, LeaseIntact, Track
<1>2. UNCHANGED <<ledger, holder>> /\ recorded' = [recorded EXCEPT ![lease[o]] = @ \cup {x}]
  BY DEF Track
<1>3. \A l \in ledger : recorded'[l] = IF l = lease[o] THEN recorded[l] \cup {x} ELSE recorded[l]
  BY <1>1, <1>2 DEF Inv, TypeOK
<1>4. Held' /\ Affordable'
  BY <1>2 DEF Capacity, Held, Affordable, Charged
<1> HIDE DEF o
<1>5. CASE x \notin Builds
  <2>1. LedgerBuilds' = LedgerBuilds
    BY <1>2, <1>3, <1>5 DEF LedgerBuilds
  <2>2. BuildsBounded'
    BY <1>2, <1>3, <1>5, <2>1 DEF Capacity, BuildsBounded
  <2> QED  BY <1>4, <2>1, <2>2 DEF Capacity
<1>6. CASE x \in Builds
  <2> DEFINE makers == {m \in ledger : recorded[m] \cap Builds # {}}
             allowed == {MaxBuilds[o]} \cup {MaxBuilds[holder[l]] : l \in makers}
  <2>1. Cardinality(LedgerBuilds) < Min(allowed)
    BY <1>6 DEF Track, BuildSlot, o
  <2>2. \A l \in makers : holder[l] \in Owners
    BY DEF Inv, TypeOK, OneRecord, Capacity, Held, Ids
  <2>3. allowed \in SUBSET Nat /\ allowed # {}
    <3>1. \A p \in Owners : MaxBuilds[p] \in Nat
      BY PolicyAssumption
    <3> QED  BY <1>1, <2>2, <3>1
  <2>4. LedgerBuilds' = LedgerBuilds \cup {x}
    BY <1>1, <1>2, <1>3, <1>6 DEF LedgerBuilds
  <2>5. IsFiniteSet(LedgerBuilds') /\ Cardinality(LedgerBuilds') <= Cardinality(LedgerBuilds) + 1
        /\ Cardinality(LedgerBuilds) \in Nat
    <3>1. IsFiniteSet(LedgerBuilds)
      BY DEF Capacity
    <3>2. Cardinality(LedgerBuilds) \in Nat
      BY <3>1, FS_CardinalityType
    <3>3. /\ IsFiniteSet(LedgerBuilds \cup {x})
          /\ Cardinality(LedgerBuilds \cup {x})
                \in {Cardinality(LedgerBuilds), Cardinality(LedgerBuilds) + 1}
      BY <3>1, FS_AddElement
    <3> QED  BY <2>4, <3>2, <3>3
  <2>6. Cardinality(LedgerBuilds') \in Nat
    BY <2>5, FS_CardinalityType
  <2>7. ASSUME NEW n \in allowed PROVE Cardinality(LedgerBuilds') <= n
    <3> HIDE DEF allowed
    <3>1. n \in Nat /\ Min(allowed) \in Nat /\ Min(allowed) <= n
      BY <2>3, MinIsLeast
    <3> QED  BY <2>1, <2>5, <2>6, <3>1
  <2>8. ASSUME NEW l \in ledger', recorded'[l] \cap Builds # {}
        PROVE  MaxBuilds[holder'[l]] \in allowed
    <3>1. l \in makers \/ l = lease[o]
      BY <1>2, <1>3, <2>8
    <3> QED  BY <1>1, <1>2, <3>1
  <2>9. BuildsBounded'
    <3> HIDE DEF allowed
    <3> QED  BY <2>7, <2>8 DEF BuildsBounded
  <2> QED  BY <1>4, <2>5, <2>9 DEF Capacity
<1> QED  BY <1>5, <1>6

(* Confirmed work leaves its lease.                                        *)
LEMMA ConfirmKeeps ==
    ASSUME Inv, Capacity, NEW k \in Launchers, Confirm(k)
    PROVE  Capacity'
<1>1. UNCHANGED <<ledger, holder>> /\ \A l \in ledger : recorded'[l] \subseteq recorded[l]
  BY DEF Confirm, Inv, TypeOK
<1>2. Held' /\ Affordable'
  BY <1>1 DEF Capacity, Held, Affordable, Charged
<1>3. IsFiniteSet(LedgerBuilds)' /\ BuildsBounded'
  BY <1>1, <1>2, FewerBuilds DEF Capacity
<1> QED  BY <1>2, <1>3 DEF Capacity

(* The empty ledger.                                                       *)
LEMMA InitCapacity == Init => Capacity
<1> SUFFICES ASSUME Init PROVE Capacity
  OBVIOUS
<1>1. LedgerBuilds = {} /\ ledger = {}
  BY DEF Init, LedgerBuilds
<1> QED  BY <1>1, FS_EmptySet DEF Capacity, Held, Affordable, BuildsBounded

(* Every step keeps the capacity.                                          *)
LEMMA NextCapacity == Inv /\ Capacity /\ [Next]_vars => Capacity'
<1> SUFFICES ASSUME Inv, Capacity, [Next]_vars PROVE Capacity'
  OBVIOUS
<1>1. CASE UNCHANGED <<ledger, holder, recorded>>
  BY <1>1, SameLedger
<1>2. ASSUME NEW l \in Ids, Delete(l) PROVE Capacity'
  BY <1>2, DeleteKeeps
<1>3. ASSUME NEW o \in Owners, NEW l \in LeaseIds, Admit(o, l) PROVE Capacity'
  BY <1>3, AddKeeps, IdsAssumption DEF Admit, Fresh, Holders, Ids
<1>4. ASSUME NEW s \in Services, ReservePersistent(s) PROVE Capacity'
  BY <1>4, AddKeeps, IdsAssumption DEF ReservePersistent, Holders, Ids
<1>5. ASSUME NEW o \in Owners, Settle(o) PROVE Capacity'
  <2>1. lease[o] \in Ids
    BY <1>5 DEF Settle, Inv, LeaseIntact, TypeOK
  <2> QED  BY <1>1, <1>2, <1>5, <2>1 DEF Settle, Keep
<1>6. ASSUME NEW k \in Launchers, NEW x \in Items, Track(k, x) PROVE Capacity'
  BY <1>6, TrackKeeps
<1>7. ASSUME NEW k \in Launchers, Confirm(k) PROVE Capacity'
  BY <1>7, ConfirmKeeps
<1>8. ASSUME NEW s \in Services, ReleasePersistent(s) \/ DropSole(s) PROVE Capacity'
  BY <1>2, <1>8 DEF ReleasePersistent, DropSole, Ids
<1>9. ASSUME NEW l \in Ids, Reconcile(l) PROVE Capacity'
  BY <1>2, <1>9 DEF Reconcile
<1>10. ASSUME NEW o \in Owners,
              Request(o) \/ GiveUp(o) \/ Close(o) \/ SettleTimeout(o) \/ Crash(o)
       PROVE  Capacity'
  BY <1>1, <1>10 DEF Request, GiveUp, Close, SettleTimeout, Crash, Die, ledgerVars
<1>11. ASSUME NEW k \in Launchers,
              Enter(k) \/ Exit(k) \/ Launch(k) \/ Remove(k) \/ Unconfirmed(k) \/ CleanupTimeout(k)
       PROVE  Capacity'
  BY <1>1, <1>11 DEF Enter, Exit, Launch, Remove, Unconfirmed, CleanupTimeout, ledgerVars
<1>12. ASSUME NEW x \in Items, ContainerExits(x) \/ ContainerRemoved(x) PROVE Capacity'
  BY <1>1, <1>12 DEF ContainerExits, ContainerRemoved, ledgerVars
<1>13. CASE Reboot
  BY <1>1, <1>13 DEF Reboot, Die
<1>14. CASE UNCHANGED vars
  BY <1>1, <1>14 DEF vars
<1> QED
  BY <1>3, <1>4, <1>5, <1>6, <1>7, <1>8, <1>9, <1>10, <1>11, <1>12, <1>13, <1>14 DEF Next

(* The capacity is respected in every reachable state.                     *)
LEMMA CapacityInvariance == Spec => []Capacity
  BY InitCapacity, NextCapacity, Invariance, PTL DEF Spec

(* Whatever reviews and services come, go, die or are reconciled, what the *)
(* leases of the ledger reserve together is within the budget of each of   *)
(* them.                                                                   *)
THEOREM BudgetRespected == Spec => []WithinBudget
<1>1. Inv /\ Capacity => WithinBudget
  <2> SUFFICES ASSUME Inv, Capacity, NEW l \in ledger, NEW r \in Resources
               PROVE  Used(ledger, r) <= Limit[holder[l]][r]
    BY DEF WithinBudget
  <2>1. Used(ledger, r) = Charged(r)
    BY UsedIsTotal DEF Inv, TypeOK, Capacity, Held, Charged, Holders, Ids
  <2> QED  BY <2>1 DEF Capacity, Affordable
<1> QED  BY <1>1, Invariance, CapacityInvariance, PTL

(* The builds recorded on the host never exceed the concurrency of any     *)
(* client that has one recorded, in whatever order clients with different  *)
(* configurations come.                                                    *)
THEOREM BuildConcurrency == Spec => []BuildsBounded
<1>1. Capacity => BuildsBounded
  BY DEF Capacity
<1> QED  BY <1>1, CapacityInvariance, PTL
=============================================================================
