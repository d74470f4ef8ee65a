---------------------------- MODULE ReviewProofs ----------------------------
(***************************************************************************)
(* Proofs about JobBudget, ReviewCells and LaneAllocation, for any cells,  *)
(* packages, owners, configurations, ceilings, shares and bounds.          *)
(*                                                                         *)
(* The document.  Every operation opens the document, changes it and saves *)
(* it (Transacts), and what it changes only grows (Grows): so each is      *)
(* looked at once, and the invariants, the bounds and the action property  *)
(* follow from what a transaction is.  The active time is right because it *)
(* is the size of the union of the owners' intervals (Times).              *)
(*                                                                         *)
(* The spend.  Each call counts for at most the maximum it reserved        *)
(* (CostOf); the sum over the calls stays below the token ceiling because  *)
(* a reservation is admitted for what is left and a settlement only        *)
(* lowers it.  Sums are those of the community modules' folds; the laws    *)
(* needed of them are proved here from the well-foundedness of strict      *)
(* inclusion on the subsets of a finite set.                               *)
(*                                                                         *)
(* The workers.  Their steps are steps of the document or leave it alone   *)
(* (WorkersImplementBudget).  Where a cell is says what its owner has open *)
(* (At), which gives that nothing is paid twice and that what was spent is *)
(* covered: by settled calls, or by a reservation that is still open (Due).*)
(*                                                                         *)
(* The lanes.  A lane that waits is never passed by more than the share of *)
(* the other (WithinShare), so what stops the allocation is the budget or  *)
(* both queues; and the two lanes deal the claims out exactly because the  *)
(* sum over a lane is the quotient for each of its packages and the part   *)
(* of the remainder that falls to it (DealtSum).                           *)
(***************************************************************************)
EXTENDS ReviewCells, LaneAllocation, FiniteSetTheorems, TLAPS

(* The ceilings the sticky exhaustion can name.                            *)
Dims == {NotExhausted, "turns", "tokens", "queries", "packages", "timeout"}

(* How an owner's execution ended, or that it did not.                     *)
Closures == {"no", "paused", "dispatched", "undispatched"}

(* The shape of the budget document.                                       *)
Ledgers ==
    [calls : [Owners -> Seq(CallType)], turns : Nat, tokens : Nat, queries : Nat,
     unknown : Nat, packages : Nat, exhausted : Dims, closed : [Owners -> Closures],
     started : [Owners -> Int], stopped : [Owners -> Int], activeSeconds : Nat,
     activeSince : Int, startedAt : Nat, observed : Nat]

(* Everything but the sticky exhaustion.                                   *)
SameButExhausted(l, m) ==
    /\ m.calls = l.calls /\ m.turns = l.turns /\ m.tokens = l.tokens /\ m.queries = l.queries
    /\ m.unknown = l.unknown /\ m.packages = l.packages /\ m.closed = l.closed
    /\ m.started = l.started /\ m.stopped = l.stopped /\ m.activeSeconds = l.activeSeconds
    /\ m.activeSince = l.activeSince /\ m.startedAt = l.startedAt /\ m.observed = l.observed

(* _update_exhaustion names no other ceiling.                              *)
LEMMA ExhaustedDim == ASSUME NEW l, NEW t, l.exhausted \in Dims PROVE Exhausted(l, t) \in Dims
  BY DEF Exhausted, Dims, NotExhausted

(* _transact recomputes the sticky exhaustion before it saves and writes   *)
(* the rest as it is.                                                      *)
LEMMA SavedFields ==
    ASSUME NEW l \in Ledgers
    PROVE  /\ Saved(l) \in Ledgers /\ SameButExhausted(l, Saved(l))
           /\ Saved(l).exhausted = Exhausted(l, now)
<1>1. Exhausted(l, now) \in Dims
  BY ExhaustedDim DEF Ledgers
<1> QED  BY <1>1 DEF Saved, Ledgers, SameButExhausted

(* Opening sets the observed instant, then recomputes the exhaustion.      *)
LEMMA OpenedFields ==
    ASSUME ledger \in Ledgers, now \in Nat
    PROVE  /\ Opened \in Ledgers
           /\ SameButExhausted([ledger EXCEPT !.observed = now], Opened)
           /\ Opened.exhausted = Exhausted([ledger EXCEPT !.observed = now], now)
<1> DEFINE l == [ledger EXCEPT !.observed = now]
<1>1. l \in Ledgers
  BY DEF Ledgers
<1>2. Exhausted(l, now) \in Dims
  BY <1>1, ExhaustedDim DEF Ledgers
<1>3. Opened = [l EXCEPT !.exhausted = Exhausted(l, now)]
  BY DEF Opened
<1> HIDE DEF l
<1> QED  BY <1>1, <1>2, <1>3 DEF Ledgers, SameButExhausted, l

(* An owner that is executing, and the instants at which some owner was.   *)
Active(l, o) == l.started[o] # Never /\ l.stopped[o] = Never

(* The instants, up to the observed one, in some owner's interval.         *)
BusyOf(l) ==
    {t \in 0..l.observed - 1 : \E o \in Owners :
        /\ l.started[o] # Never /\ l.started[o] <= t
        /\ l.stopped[o] = Never \/ t < l.stopped[o]}

(* The active time is the union of the owners' intervals.                  *)
Times(l) ==
    /\ \A o \in Owners : /\ l.started[o] \in {Never} \cup 0..l.observed
                         /\ l.stopped[o] \in {Never} \cup 0..l.observed
                         /\ l.started[o] = Never => l.stopped[o] = Never
    /\ l.activeSince \in {Never} \cup 0..l.observed
    /\ l.activeSeconds <= IF l.activeSince = Never THEN l.observed ELSE l.activeSince
    /\ l.activeSince # Never <=> \E o \in Owners : Active(l, o)
    /\ ActiveSeconds(l, l.observed) = Cardinality(BusyOf(l))

(* The fields the active time is computed from are as they were.           *)
SameTimes(l, m) ==
    /\ m.started = l.started /\ m.stopped = l.stopped
    /\ m.activeSeconds = l.activeSeconds /\ m.activeSince = l.activeSince

(* The clock moves on: the time since then is active if an owner is.       *)
LEMMA ObserveTimes ==
    ASSUME NEW l \in Ledgers, NEW m \in Ledgers, Times(l), SameTimes(l, m),
           l.observed <= m.observed
    PROVE  Times(m)
<1> DEFINE a == l.observed
           b == m.observed
<1>1. a \in Nat /\ b \in Nat /\ l.activeSeconds \in Nat /\ l.activeSince \in Int
      /\ l.started \in [Owners -> Int] /\ l.stopped \in [Owners -> Int]
  BY DEF Ledgers
<1>2. \A o \in Owners : /\ m.started[o] \in {Never} \cup 0..b
                        /\ m.stopped[o] \in {Never} \cup 0..b
                        /\ m.started[o] = Never => m.stopped[o] = Never
  BY <1>1 DEF Times, SameTimes, Never
<1>3. m.activeSince \in {Never} \cup 0..b
  BY <1>1 DEF Times, SameTimes, Never
<1>4. m.activeSeconds <= IF m.activeSince = Never THEN b ELSE m.activeSince
  BY <1>1 DEF Times, SameTimes
<1>5. m.activeSince # Never <=> \E o \in Owners : Active(m, o)
  BY DEF Times, SameTimes, Active
<1>6. IsFiniteSet(BusyOf(l))
  <2>1. BusyOf(l) \in SUBSET (0..a - 1) /\ a - 1 \in Int
    BY <1>1 DEF BusyOf
  <2>2. IsFiniteSet(0..a - 1)
    <3>1. 0 \in Int /\ a - 1 \in Int
      BY <1>1
    <3> QED  BY <3>1, FS_Interval
  <2> QED  BY <2>1, <2>2, FS_Subset
<1>7. CASE l.activeSince = Never
  <2>1. \A o \in Owners : l.started[o] # Never => l.stopped[o] \in 0..a
    BY <1>7 DEF Times, Active
  <2>2. BusyOf(m) = BusyOf(l)
    <3>1. ASSUME NEW t \in BusyOf(m) PROVE t \in BusyOf(l)
      <4>1. PICK o \in Owners : /\ l.started[o] # Never /\ l.started[o] <= t
                                /\ l.stopped[o] = Never \/ t < l.stopped[o]
        BY <3>1 DEF BusyOf, SameTimes
      <4>2. l.stopped[o] \in 0..a /\ l.stopped[o] # Never
        BY <1>1, <2>1, <4>1 DEF Never
      <4>3. t \in 0..a - 1
        BY <1>1, <3>1, <4>1, <4>2 DEF BusyOf
      <4> QED  BY <4>1, <4>3 DEF BusyOf
    <3>2. ASSUME NEW t \in BusyOf(l) PROVE t \in BusyOf(m)
      BY <1>1, <3>2 DEF BusyOf, SameTimes
    <3> QED  BY <3>1, <3>2
  <2>3. ActiveSeconds(m, b) = ActiveSeconds(l, a)
    BY <1>7 DEF ActiveSeconds, SameTimes
  <2> QED  BY <1>2, <1>3, <1>4, <1>5, <2>2, <2>3 DEF Times
<1>8. CASE l.activeSince # Never
  <2>1. PICK o \in Owners : Active(l, o)
    BY <1>8 DEF Times
  <2>2. l.started[o] \in 0..a
    BY <2>1 DEF Times, Active
  <2>3. BusyOf(m) = BusyOf(l) \cup (a..b - 1)
    <3>1. ASSUME NEW t \in a..b - 1 PROVE t \in BusyOf(m)
      BY <1>1, <2>1, <2>2, <3>1 DEF BusyOf, SameTimes, Active
    <3>2. ASSUME NEW t \in BusyOf(l) PROVE t \in BusyOf(m)
      BY <1>1, <3>2 DEF BusyOf, SameTimes
    <3>3. ASSUME NEW t \in BusyOf(m), t \notin a..b - 1 PROVE t \in BusyOf(l)
      BY <1>1, <3>3 DEF BusyOf, SameTimes
    <3> QED  BY <3>1, <3>2, <3>3
  <2>4. BusyOf(l) \cap (a..b - 1) = {}
    BY <1>1 DEF BusyOf
  <2>5. IsFiniteSet(a..b - 1) /\ Cardinality(a..b - 1) = b - a
    <3>1. a \in Int /\ b - 1 \in Int
      BY <1>1
    <3>2. IsFiniteSet(a..b - 1) /\ Cardinality(a..b - 1) = IF a > b - 1 THEN 0 ELSE (b - 1) - a + 1
      BY <3>1, FS_Interval
    <3> QED  BY <1>1, <3>2
  <2>6. Cardinality(BusyOf(m)) = Cardinality(BusyOf(l)) + (b - a)
    <3>1. Cardinality(BusyOf(l)) \in Nat
      BY <1>6, FS_CardinalityType
    <3>2. Cardinality(BusyOf(m)) = Cardinality(BusyOf(l)) + Cardinality(a..b - 1) - Cardinality({})
      BY <1>6, <2>3, <2>4, <2>5, FS_Union, ZenonT(60)
    <3> QED  BY <1>1, <2>5, <3>1, <3>2, FS_EmptySet
  <2>7. ActiveSeconds(m, b) = ActiveSeconds(l, a) + (b - a)
    BY <1>1, <1>8 DEF ActiveSeconds, SameTimes
  <2> QED  BY <1>2, <1>3, <1>4, <1>5, <2>6, <2>7 DEF Times
<1> QED  BY <1>7, <1>8

(* An owner starts at the observed instant.                                *)
LEMMA StartTimes ==
    ASSUME NEW l \in Ledgers, NEW m \in Ledgers, Times(l), NEW o \in Owners, l.started[o] = Never,
           m.observed = l.observed, m.started = [l.started EXCEPT ![o] = l.observed],
           m.stopped = l.stopped, m.activeSeconds = l.activeSeconds,
           m.activeSince = IF l.activeSince = Never THEN l.observed ELSE l.activeSince
    PROVE  Times(m)
<1> DEFINE a == l.observed
<1>1. a \in Nat /\ l.activeSeconds \in Nat /\ l.activeSince \in Int
      /\ l.started \in [Owners -> Int] /\ l.stopped \in [Owners -> Int]
  BY DEF Ledgers
<1>2. \A p \in Owners : m.started[p] = IF p = o THEN a ELSE l.started[p]
  BY <1>1
<1>3. \A p \in Owners : /\ m.started[p] \in {Never} \cup 0..a
                        /\ m.stopped[p] \in {Never} \cup 0..a
                        /\ m.started[p] = Never => m.stopped[p] = Never
  BY <1>1, <1>2 DEF Times
<1>4. m.activeSince \in {Never} \cup 0..a /\ m.activeSince # Never
  BY <1>1 DEF Times, Never
<1>5. m.activeSeconds <= m.activeSince
  BY <1>1 DEF Times
<1>6. Active(m, o)
  BY <1>1, <1>2 DEF Times, Active, Never
<1>7. BusyOf(m) = BusyOf(l)
  BY <1>1, <1>2 DEF BusyOf, Times
<1>8. ActiveSeconds(m, a) = ActiveSeconds(l, a)
  BY <1>1, <1>4 DEF ActiveSeconds
<1> QED  BY <1>3, <1>4, <1>5, <1>6, <1>7, <1>8 DEF Times

(* An owner stops at the observed instant, and the union interval with the *)
(* last of them.                                                           *)
LEMMA StopTimes ==
    ASSUME NEW l \in Ledgers, NEW m \in Ledgers, Times(l), NEW o \in Owners, Active(l, o),
           m.observed = l.observed, m.stopped = [l.stopped EXCEPT ![o] = l.observed],
           m.started = l.started,
           IF \E p \in Owners : Active(m, p)
           THEN m.activeSeconds = l.activeSeconds /\ m.activeSince = l.activeSince
           ELSE m.activeSeconds = l.activeSeconds + l.observed - l.activeSince /\ m.activeSince = Never
    PROVE  Times(m)
<1> DEFINE a == l.observed
<1>1. a \in Nat /\ l.activeSeconds \in Nat /\ l.activeSince \in Int
      /\ l.started \in [Owners -> Int] /\ l.stopped \in [Owners -> Int]
  BY DEF Ledgers
<1>2. \A p \in Owners : m.stopped[p] = IF p = o THEN a ELSE l.stopped[p]
  BY <1>1
<1>3. \A p \in Owners : /\ m.started[p] \in {Never} \cup 0..a
                        /\ m.stopped[p] \in {Never} \cup 0..a
                        /\ m.started[p] = Never => m.stopped[p] = Never
  BY <1>1, <1>2 DEF Times, Active
<1>4. l.activeSince # Never /\ l.activeSince \in 0..a /\ l.activeSeconds <= l.activeSince
  BY DEF Times
<1>5. BusyOf(m) = BusyOf(l)
  <2>1. \A t \in 0..a - 1 : t < a
    BY <1>1
  <2> QED  BY <1>2, <2>1 DEF BusyOf, Active
<1>6. CASE \E p \in Owners : Active(m, p)
  BY <1>3, <1>4, <1>5, <1>6 DEF Times, ActiveSeconds
<1>7. CASE ~\E p \in Owners : Active(m, p)
  <2>1. m.activeSeconds = l.activeSeconds + a - l.activeSince /\ m.activeSince = Never
    BY <1>7
  <2>2. m.activeSeconds <= a
    BY <1>1, <1>4, <2>1
  <2>3. ActiveSeconds(m, a) = ActiveSeconds(l, a)
    BY <1>1, <1>4, <2>1 DEF ActiveSeconds
  <2> QED  BY <1>3, <1>5, <1>7, <2>1, <2>2, <2>3 DEF Times
<1> QED  BY <1>6, <1>7

-----------------------------------------------------------------------------
(* What an owner's calls, its interval and its closure say of each other.  *)
OwnerSound(l, o) ==
    /\ l.started[o] # Never => (l.stopped[o] # Never <=> l.closed[o] # "no")
    /\ \A k \in DOMAIN l.calls[o] :
        /\ l.calls[o][k].state = "live" =>
             /\ l.closed[o] = "no"
             /\ ActiveTiming => l.started[o] # Never
             /\ ~l.calls[o][k].byOwner
             /\ l.calls[o][k].usage = Missing
        /\ l.calls[o][k].byOwner => l.closed[o] = Closure(l.calls[o][k].dispatched)
        /\ l.calls[o][k].state = "settled" /\ ~l.calls[o][k].dispatched
             => l.calls[o][k].usage = Missing

(* Every owner's part of the document is sound.                            *)
Owned(l) == \A o \in Owners : OwnerSound(l, o)

(* The counters stay within their bounds.                                  *)
Counts(l) ==
    /\ \A o \in Owners : Len(l.calls[o]) <= MaxCalls
    /\ l.turns <= MaxDirect /\ l.queries <= MaxDirect /\ l.unknown <= l.turns
    /\ l.packages <= MaxPackages

(* A document that the operations can have written.                        *)
Sound(l) == l \in Ledgers /\ Times(l) /\ Owned(l) /\ Counts(l)

(* The inductive invariant of the document and its clock.                  *)
BudgetInv ==
    /\ now \in 0..MaxClock
    /\ Sound(ledger)
    /\ ledger.observed <= now

(* Saving changes the sticky exhaustion only, so it keeps the rest.        *)
LEMMA SameSound ==
    ASSUME NEW l, NEW m \in Ledgers, Sound(l), SameButExhausted(l, m)
    PROVE  Sound(m)
<1>1. Times(m)
  BY DEF Sound, Times, SameButExhausted, Active, ActiveSeconds, BusyOf
<1>2. Owned(m)
  BY DEF Sound, Owned, OwnerSound, SameButExhausted
<1>3. Counts(m)
  BY DEF Sound, Counts, SameButExhausted
<1> QED  BY <1>1, <1>2, <1>3 DEF Sound

(* Opening moves the observed instant to the clock and nothing else.       *)
LEMMA OpenedSound ==
    ASSUME BudgetInv
    PROVE  /\ Sound(Opened) /\ Opened \in Ledgers /\ Opened.observed = now /\ now \in Nat
           /\ Opened.calls = ledger.calls /\ Opened.closed = ledger.closed
           /\ Opened.started = ledger.started /\ Opened.stopped = ledger.stopped
           /\ Opened.turns = ledger.turns /\ Opened.queries = ledger.queries
           /\ Opened.tokens = ledger.tokens /\ Opened.unknown = ledger.unknown
           /\ Opened.packages = ledger.packages
           /\ Opened.activeSeconds = ledger.activeSeconds
           /\ Opened.activeSince = ledger.activeSince
<1> DEFINE l == [ledger EXCEPT !.observed = now]
<1>1. ledger \in Ledgers /\ now \in Nat /\ ledger.observed <= now
  BY BudgetAssumption DEF BudgetInv, Sound
<1>2. /\ l \in Ledgers /\ l.observed = now
      /\ l.calls = ledger.calls /\ l.closed = ledger.closed
      /\ l.started = ledger.started /\ l.stopped = ledger.stopped
      /\ l.turns = ledger.turns /\ l.queries = ledger.queries /\ l.tokens = ledger.tokens
      /\ l.unknown = ledger.unknown /\ l.packages = ledger.packages
      /\ l.activeSeconds = ledger.activeSeconds /\ l.activeSince = ledger.activeSince
  BY <1>1 DEF Ledgers
<1>3. Opened \in Ledgers /\ SameButExhausted(l, Opened)
  BY <1>1, OpenedFields
<1> HIDE DEF l
<1>4. Times(l)
  <2>1. Times(ledger) /\ SameTimes(ledger, l) /\ ledger.observed <= l.observed
    BY <1>1, <1>2 DEF BudgetInv, Sound, SameTimes
  <2> QED  BY <1>1, <1>2, <2>1, ObserveTimes
<1>5. Owned(l) /\ Counts(l)
  BY <1>2 DEF BudgetInv, Sound, Owned, OwnerSound, Counts
<1>6. Sound(l)
  BY <1>2, <1>4, <1>5 DEF Sound
<1>7. Sound(Opened)
  BY <1>3, <1>6, SameSound
<1> QED  BY <1>1, <1>2, <1>3, <1>7 DEF SameButExhausted

(* Everything but the counters, and nothing but the calls and times.       *)
SameButCounts(l, m) ==
    /\ m.calls = l.calls /\ m.closed = l.closed /\ m.observed = l.observed
    /\ m.started = l.started /\ m.stopped = l.stopped
    /\ m.activeSeconds = l.activeSeconds /\ m.activeSince = l.activeSince
    /\ m.exhausted = l.exhausted /\ m.startedAt = l.startedAt

(* The counters and the instants of the document are as they were.         *)
SameCounters(l, m) ==
    /\ m.turns = l.turns /\ m.tokens = l.tokens /\ m.queries = l.queries
    /\ m.unknown = l.unknown /\ m.packages = l.packages /\ m.observed = l.observed
    /\ m.exhausted = l.exhausted /\ m.startedAt = l.startedAt

(* A call is settled once, for the maximum it asked for.                   *)
Later(c, e) ==
    /\ e.cap = c.cap /\ e.replay = c.replay
    /\ c.state = "settled" => e = c

(* The document m grew out of l within one transaction: nothing recorded   *)
(* is taken back.                                                          *)
Grows(l, m) ==
    /\ m.observed = l.observed /\ m.startedAt = l.startedAt /\ m.exhausted = l.exhausted
    /\ \A o \in Owners :
        /\ Len(l.calls[o]) <= Len(m.calls[o])
        /\ \A k \in DOMAIN l.calls[o] : Later(l.calls[o][k], m.calls[o][k])
        /\ l.closed[o] # "no" => m.closed[o] = l.closed[o] /\ m.stopped[o] = l.stopped[o]
    /\ l.turns <= m.turns /\ l.tokens <= m.tokens /\ l.queries <= m.queries
    /\ l.packages <= m.packages
    /\ l.exhausted # NotExhausted => m.packages = l.packages
    /\ ActiveSeconds(m, m.observed) = ActiveSeconds(l, l.observed)

(* A new call was admitted on the document as it was opened.               *)
Admitted(l, m) ==
    \/ \A o \in Owners : Len(m.calls[o]) = Len(l.calls[o])
    \/ \E o \in Owners, cap \in Caps, replay \in Replays :
        /\ Admits(l, cap, replay) /\ Len(l.calls[o]) < MaxCalls
        /\ m.calls = [l.calls EXCEPT ![o] = Append(l.calls[o], NewCall(cap, replay))]

(* Every operation on the document opens it, changes it and saves it.      *)
Transacts(m) ==
    /\ Sound(m) /\ m.observed = now
    /\ Grows(Opened, m) /\ Admitted(Opened, m)
    /\ ledger' = Saved(m) /\ UNCHANGED now

(* The calls, closures and starts that a transaction writes.               *)
Writes(m, calls, closed, started) ==
    Transacts(m) /\ m.calls = calls /\ m.closed = closed /\ m.started = started

(* A transaction that leaves calls, closures and starts as it found them.  *)
Rewrites(m) == Writes(m, Opened.calls, Opened.closed, Opened.started)

(* A document grows out of itself.                                         *)
LEMMA Unchanging == ASSUME NEW l \in Ledgers PROVE Grows(l, l) /\ Admitted(l, l)
<1>1. /\ l.turns \in Nat /\ l.tokens \in Nat /\ l.queries \in Nat /\ l.packages \in Nat
      /\ \A o \in Owners : l.calls[o] \in Seq(CallType)
  BY DEF Ledgers
<1>2. \A o \in Owners : Len(l.calls[o]) <= Len(l.calls[o])
  BY <1>1
<1> QED  BY <1>1, <1>2 DEF Grows, Admitted, Later

(* Raising the counters alone takes nothing back.                          *)
LEMMA CountersGrow ==
    ASSUME NEW l \in Ledgers, NEW m \in Ledgers, SameButCounts(l, m),
           l.turns <= m.turns, l.tokens <= m.tokens, l.queries <= m.queries,
           l.packages <= m.packages, l.exhausted # NotExhausted => m.packages = l.packages
    PROVE  Grows(l, m) /\ Admitted(l, m)
<1>1. \A o \in Owners : l.calls[o] \in Seq(CallType)
  BY DEF Ledgers
<1>2. \A o \in Owners : Len(l.calls[o]) <= Len(m.calls[o])
  BY <1>1 DEF SameButCounts
<1>3. ActiveSeconds(m, m.observed) = ActiveSeconds(l, l.observed)
  BY DEF SameButCounts, ActiveSeconds
<1> QED  BY <1>2, <1>3 DEF Grows, Admitted, Later, SameButCounts

(* A change of one owner takes nothing back if none of its calls does.     *)
LEMMA OwnerGrows ==
    ASSUME NEW l \in Ledgers, NEW m \in Ledgers, SameCounters(l, m), NEW o \in Owners,
           \A p \in Owners \ {o} :
               m.calls[p] = l.calls[p] /\ m.closed[p] = l.closed[p] /\ m.stopped[p] = l.stopped[p],
           Len(l.calls[o]) <= Len(m.calls[o]),
           \A k \in DOMAIN l.calls[o] : Later(l.calls[o][k], m.calls[o][k]),
           l.closed[o] # "no" => m.closed[o] = l.closed[o] /\ m.stopped[o] = l.stopped[o],
           ActiveSeconds(m, m.observed) = ActiveSeconds(l, l.observed)
    PROVE  Grows(l, m)
<1>1. /\ l.turns \in Nat /\ l.tokens \in Nat /\ l.queries \in Nat /\ l.packages \in Nat
      /\ \A p \in Owners : l.calls[p] \in Seq(CallType)
  BY DEF Ledgers
<1>2. l.turns <= m.turns /\ l.tokens <= m.tokens /\ l.queries <= m.queries
      /\ l.packages <= m.packages
  BY <1>1 DEF SameCounters
<1>3. \A p \in Owners : Len(l.calls[p]) <= Len(m.calls[p])
  <2>1. \A p \in Owners : p # o => Len(l.calls[p]) <= Len(m.calls[p])
    BY <1>1
  <2> QED  BY <2>1
<1>4. \A p \in Owners : \A k \in DOMAIN l.calls[p] : Later(l.calls[p][k], m.calls[p][k])
  <2>1. \A p \in Owners : p # o => \A k \in DOMAIN l.calls[p] : Later(l.calls[p][k], m.calls[p][k])
    BY DEF Later
  <2> QED  BY <2>1
<1>5. \A p \in Owners : l.closed[p] # "no" => m.closed[p] = l.closed[p] /\ m.stopped[p] = l.stopped[p]
  OBVIOUS
<1> QED  BY <1>2, <1>3, <1>4, <1>5 DEF Grows, SameCounters

(* An operation keeps the invariant if what it saves is sound and dated    *)
(* by the clock.                                                           *)
LEMMA SavedSound ==
    ASSUME BudgetInv, NEW m, Transacts(m)
    PROVE  BudgetInv'
<1>1. m \in Ledgers /\ now \in Nat
  BY BudgetAssumption DEF Sound, BudgetInv, Transacts
<1>2. Saved(m) \in Ledgers /\ SameButExhausted(m, Saved(m))
  BY <1>1, SavedFields
<1>3. Sound(Saved(m)) /\ Saved(m).observed = now
  BY <1>1, <1>2, SameSound DEF SameButExhausted, Transacts
<1>4. Sound(ledger') /\ ledger'.observed = now /\ now' = now
  BY <1>3 DEF Transacts
<1>5. Sound(ledger)'
  BY <1>4 DEF Sound, Times, Owned, OwnerSound, Counts, Ledgers, Active, ActiveSeconds, BusyOf
<1> QED  BY <1>1, <1>4, <1>5 DEF BudgetInv

(* Sound is kept by what changes counters only.                            *)
LEMMA CountsSound ==
    ASSUME NEW l, NEW m \in Ledgers, Sound(l), SameButCounts(l, m), Counts(m)
    PROVE  Sound(m)
<1>1. Times(m)
  BY DEF Sound, Times, SameButCounts, Active, ActiveSeconds, BusyOf
<1>2. Owned(m)
  BY DEF Sound, Owned, OwnerSound, SameButCounts
<1> QED  BY <1>1, <1>2 DEF Sound

(* Each field of the document may be set to what its type admits.          *)
LEMMA SetPackages ==
    ASSUME NEW l \in Ledgers, NEW v \in Nat PROVE [l EXCEPT !.packages = v] \in Ledgers
  BY DEF Ledgers

(* The same for the queries.                                               *)
LEMMA SetQueries ==
    ASSUME NEW l \in Ledgers, NEW v \in Nat PROVE [l EXCEPT !.queries = v] \in Ledgers
  BY DEF Ledgers

(* The same for the turns charged without a reservation.                   *)
LEMMA SetTurns ==
    ASSUME NEW l \in Ledgers, NEW u \in Nat, NEW v \in Nat, NEW w \in Nat
    PROVE  [l EXCEPT !.turns = u, !.tokens = v, !.unknown = w] \in Ledgers
  BY DEF Ledgers

(* The clock moves on; the document stays as it was last observed.         *)
LEMMA TickKeeps == ASSUME BudgetInv, Tick PROVE BudgetInv'
<1>1. now' = now + 1 /\ ledger' = ledger /\ now < MaxClock /\ now \in Nat /\ MaxClock \in Nat
  BY BudgetAssumption DEF Tick, BudgetInv
<1>2. ledger.observed \in Nat
  BY DEF BudgetInv, Sound, Ledgers
<1>3. now' \in 0..MaxClock /\ ledger'.observed <= now'
  BY <1>1, <1>2 DEF BudgetInv
<1>4. Sound(ledger)'
  BY <1>1 DEF BudgetInv, Sound, Times, Owned, OwnerSound, Counts, Ledgers, Active,
              ActiveSeconds, BusyOf
<1> QED  BY <1>1, <1>3, <1>4 DEF BudgetInv

(* A snapshot opens the document and saves it.                             *)
LEMMA SnapshotKeeps == ASSUME BudgetInv, Snapshot PROVE \E m : Rewrites(m)
<1>1. Opened \in Ledgers /\ Sound(Opened) /\ Opened.observed = now
  BY OpenedSound
<1>2. Rewrites(Opened)
  BY <1>1, Unchanging DEF Snapshot, Transacts, Writes, Rewrites
<1> QED  BY <1>2

(* A package is counted only while no ceiling is recorded or reached.      *)
LEMMA PackageKeeps == ASSUME BudgetInv, ReservePackage PROVE \E m : Rewrites(m)
<1> DEFINE l == [ledger EXCEPT !.observed = now]
           m == [Opened EXCEPT !.packages = @ + 1]
<1>1. Opened \in Ledgers /\ Sound(Opened) /\ Opened.observed = now /\ now \in Nat /\ ledger \in Ledgers
      /\ Opened.packages = ledger.packages
  BY OpenedSound DEF BudgetInv, Sound
<1>2. l.packages = ledger.packages /\ ledger.packages \in Nat
  BY <1>1 DEF Ledgers
<1>3. Exhausted(l, now) = NotExhausted
  BY <1>1, OpenedFields DEF ReservePackage, PackageAdmitted
<1> HIDE DEF l
<1>4. ~(l.packages >= MaxPackages)
  BY <1>3 DEF Exhausted, NotExhausted
<1>5. m \in Ledgers /\ SameButCounts(Opened, m) /\ m.packages = Opened.packages + 1
      /\ m.turns = Opened.turns /\ m.queries = Opened.queries /\ m.unknown = Opened.unknown
      /\ m.tokens = Opened.tokens
  <2>1. m \in Ledgers
    <3>1. Opened.packages + 1 \in Nat
      BY <1>1, <1>2
    <3> QED  BY <1>1, <3>1, SetPackages
  <2>2. "packages" \in DOMAIN Opened
    BY <1>1 DEF Ledgers
  <2> QED  BY <2>1, <2>2 DEF SameButCounts
<1>6. ledger' = Saved(m) /\ UNCHANGED now
  BY DEF ReservePackage
<1> HIDE DEF m
<1>7. m.packages <= MaxPackages
  BY <1>1, <1>2, <1>4, <1>5, BudgetAssumption
<1>8. Counts(m)
  BY <1>1, <1>5, <1>7 DEF Counts, Sound, SameButCounts
<1>9. Sound(m) /\ m.observed = now
  BY <1>1, <1>5, <1>8, CountsSound DEF SameButCounts
<1>10. Grows(Opened, m) /\ Admitted(Opened, m)
  <2>1. Opened.turns \in Nat /\ Opened.tokens \in Nat /\ Opened.queries \in Nat
        /\ Opened.packages \in Nat
    BY <1>1 DEF Ledgers
  <2>2. Opened.exhausted = NotExhausted
    BY DEF ReservePackage, PackageAdmitted
  <2>3. Opened.turns <= m.turns /\ Opened.tokens <= m.tokens /\ Opened.queries <= m.queries
        /\ Opened.packages <= m.packages
    BY <1>5, <2>1
  <2> QED  BY <1>1, <1>5, <2>2, <2>3, CountersGrow
<1>11. Rewrites(m)
  BY <1>5, <1>6, <1>9, <1>10 DEF Transacts, Writes, Rewrites, SameButCounts
<1> QED  BY <1>11

(* charge, for queries, is a transaction on their number.                  *)
LEMMA QueriesKeep ==
    ASSUME BudgetInv, NEW n \in Nat, ChargeQueries(n) PROVE \E m : Rewrites(m)
<1> DEFINE m == [Opened EXCEPT !.queries = @ + n]
<1>1. Opened \in Ledgers /\ Sound(Opened) /\ Opened.observed = now /\ Opened.queries = ledger.queries
  BY OpenedSound
<1>2. m \in Ledgers /\ SameButCounts(Opened, m) /\ m.packages = Opened.packages
      /\ m.turns = Opened.turns /\ m.queries = Opened.queries + n /\ m.unknown = Opened.unknown
      /\ m.tokens = Opened.tokens
  <2>1. m \in Ledgers
    <3>1. Opened.queries + n \in Nat
      BY <1>1 DEF Ledgers
    <3> QED  BY <1>1, <3>1, SetQueries
  <2>2. "queries" \in DOMAIN Opened
    BY <1>1 DEF Ledgers
  <2> QED  BY <2>1, <2>2 DEF SameButCounts
<1>3. ledger' = Saved(m) /\ UNCHANGED now /\ ledger.queries + n <= MaxDirect
  BY DEF ChargeQueries
<1> HIDE DEF m
<1>4. Counts(m)
  BY <1>1, <1>2, <1>3 DEF Counts, Sound, SameButCounts
<1>5. Sound(m) /\ m.observed = now
  BY <1>1, <1>2, <1>4, CountsSound DEF SameButCounts
<1>6. Grows(Opened, m) /\ Admitted(Opened, m)
  <2>1. Opened.turns \in Nat /\ Opened.tokens \in Nat /\ Opened.queries \in Nat
        /\ Opened.packages \in Nat
    BY <1>1 DEF Ledgers
  <2>2. Opened.turns <= m.turns /\ Opened.tokens <= m.tokens /\ Opened.queries <= m.queries
        /\ Opened.packages <= m.packages
    BY <1>2, <2>1
  <2> QED  BY <1>1, <1>2, <2>2, CountersGrow
<1>7. Rewrites(m)
  BY <1>2, <1>3, <1>5, <1>6 DEF Transacts, Writes, Rewrites, SameButCounts
<1> QED  BY <1>7

(* charge, for a model turn, is a transaction on the turns, the tokens and *)
(* the missing reports.                                                    *)
LEMMA TurnKeeps ==
    ASSUME BudgetInv, NEW u \in Reports \cup {Missing}, ChargeTurn(u) PROVE \E m : Transacts(m)
<1> DEFINE m == [Opened EXCEPT !.turns = @ + 1,
                               !.tokens = IF u = Missing THEN @ ELSE @ + u,
                               !.unknown = IF u = Missing THEN @ + 1 ELSE @]
<1>1. Opened \in Ledgers /\ Sound(Opened) /\ Opened.observed = now /\ Opened.turns = ledger.turns
  BY OpenedSound
<1>2. Opened.tokens \in Nat /\ Opened.unknown \in Nat /\ Opened.turns \in Nat /\ MaxDirect \in Nat
  BY <1>1, BudgetAssumption DEF Ledgers
<1>3. (IF u = Missing THEN Opened.tokens ELSE Opened.tokens + u) \in Nat
  BY <1>2, BudgetAssumption
<1>4. m \in Ledgers
  <2>1. Opened.turns + 1 \in Nat
        /\ (IF u = Missing THEN Opened.unknown + 1 ELSE Opened.unknown) \in Nat
    BY <1>2
  <2> QED  BY <1>1, <1>3, <2>1, SetTurns, Zenon
<1>5. SameButCounts(Opened, m) /\ m.packages = Opened.packages
      /\ m.turns = Opened.turns + 1 /\ m.queries = Opened.queries
      /\ m.tokens = (IF u = Missing THEN Opened.tokens ELSE Opened.tokens + u)
      /\ m.unknown = IF u = Missing THEN Opened.unknown + 1 ELSE Opened.unknown
  BY <1>1 DEF Ledgers, SameButCounts
<1>6. ledger' = Saved(m) /\ UNCHANGED now /\ ledger.turns < MaxDirect
  BY DEF ChargeTurn
<1> HIDE DEF m
<1>7. m.turns <= MaxDirect /\ m.unknown <= m.turns
  BY <1>1, <1>2, <1>5, <1>6 DEF Sound, Counts
<1>8. Counts(m)
  BY <1>1, <1>5, <1>7 DEF Counts, Sound, SameButCounts
<1>9. Sound(m) /\ m.observed = now
  BY <1>1, <1>4, <1>5, <1>8, CountsSound DEF SameButCounts
<1>10. Grows(Opened, m) /\ Admitted(Opened, m)
  <2>1. Opened.queries \in Nat /\ Opened.packages \in Nat
    BY <1>1 DEF Ledgers
  <2>2. Opened.tokens <= m.tokens
    BY <1>2, <1>5, BudgetAssumption
  <2>3. Opened.turns <= m.turns /\ Opened.queries <= m.queries /\ Opened.packages <= m.packages
    BY <1>2, <1>5, <2>1
  <2> QED  BY <1>1, <1>4, <1>5, <2>2, <2>3, CountersGrow
<1>11. Transacts(m)
  BY <1>6, <1>9, <1>10 DEF Transacts
<1> QED  BY <1>11

-----------------------------------------------------------------------------

(* The same for the calls, with what stays as it was.                      *)
LEMMA SetCalls ==
    ASSUME NEW l \in Ledgers, NEW v \in [Owners -> Seq(CallType)]
    PROVE  LET m == [l EXCEPT !.calls = v]
           IN  /\ m \in Ledgers /\ m.calls = v /\ m.closed = l.closed
               /\ SameTimes(l, m) /\ SameCounters(l, m)
<1>1. [l EXCEPT !.calls = v] \in Ledgers
  BY DEF Ledgers
<1>2. "calls" \in DOMAIN l
  BY DEF Ledgers
<1> QED  BY <1>1, <1>2 DEF SameTimes, SameCounters

(* The same for the closures.                                              *)
LEMMA SetClosed ==
    ASSUME NEW l \in Ledgers, NEW v \in [Owners -> Closures]
    PROVE  LET m == [l EXCEPT !.closed = v]
           IN  /\ m \in Ledgers /\ m.closed = v /\ m.calls = l.calls
               /\ SameTimes(l, m) /\ SameCounters(l, m)
<1>1. [l EXCEPT !.closed = v] \in Ledgers
  BY DEF Ledgers
<1>2. "closed" \in DOMAIN l
  BY DEF Ledgers
<1> QED  BY <1>1, <1>2 DEF SameTimes, SameCounters

(* The same for the ends of the owners' intervals.                         *)
LEMMA SetStopped ==
    ASSUME NEW l \in Ledgers, NEW v \in [Owners -> Int]
    PROVE  LET m == [l EXCEPT !.stopped = v]
           IN  /\ m \in Ledgers /\ m.stopped = v /\ m.started = l.started
               /\ m.calls = l.calls /\ m.closed = l.closed /\ SameCounters(l, m)
               /\ m.activeSeconds = l.activeSeconds /\ m.activeSince = l.activeSince
<1>1. [l EXCEPT !.stopped = v] \in Ledgers
  BY DEF Ledgers
<1>2. "stopped" \in DOMAIN l
  BY DEF Ledgers
<1> QED  BY <1>1, <1>2 DEF SameCounters

(* The same for the starts and the instant the activity began.             *)
LEMMA SetStarted ==
    ASSUME NEW l \in Ledgers, NEW v \in [Owners -> Int], NEW w \in Int
    PROVE  LET m == [l EXCEPT !.started = v, !.activeSince = w]
           IN  /\ m \in Ledgers /\ m.started = v /\ m.stopped = l.stopped
               /\ m.calls = l.calls /\ m.closed = l.closed /\ SameCounters(l, m)
               /\ m.activeSeconds = l.activeSeconds /\ m.activeSince = w
<1>1. [l EXCEPT !.started = v, !.activeSince = w] \in Ledgers
  BY DEF Ledgers
<1>2. "started" \in DOMAIN l /\ "activeSince" \in DOMAIN l
  BY DEF Ledgers
<1> QED  BY <1>1, <1>2 DEF SameCounters

(* The same for the accumulated activity.                                  *)
LEMMA SetActive ==
    ASSUME NEW l \in Ledgers, NEW v \in Nat, NEW w \in Int
    PROVE  LET m == [l EXCEPT !.activeSeconds = v, !.activeSince = w]
           IN  /\ m \in Ledgers /\ m.started = l.started /\ m.stopped = l.stopped
               /\ m.calls = l.calls /\ m.closed = l.closed /\ SameCounters(l, m)
               /\ m.activeSeconds = v /\ m.activeSince = w
<1>1. [l EXCEPT !.activeSeconds = v, !.activeSince = w] \in Ledgers
  BY DEF Ledgers
<1>2. "activeSeconds" \in DOMAIN l /\ "activeSince" \in DOMAIN l
  BY DEF Ledgers
<1> QED  BY <1>1, <1>2 DEF SameCounters

(* An operation on one owner is sound if that owner still is.              *)
LEMMA OwnerSoundSuffices ==
    ASSUME NEW l, NEW m \in Ledgers, Sound(l), Times(m), SameCounters(l, m), NEW o \in Owners,
           \A p \in Owners \ {o} :
               /\ m.calls[p] = l.calls[p] /\ m.closed[p] = l.closed[p]
               /\ m.started[p] = l.started[p] /\ m.stopped[p] = l.stopped[p],
           OwnerSound(m, o), Len(m.calls[o]) <= MaxCalls
    PROVE  Sound(m)
<1>1. Owned(m)
  BY DEF Sound, Owned, OwnerSound
<1>2. Counts(m)
  BY DEF Sound, Counts, SameCounters
<1> QED  BY <1>1, <1>2 DEF Sound

(* The active time stays right while none of its fields changes.           *)
LEMMA SameTimesTimes ==
    ASSUME NEW l, NEW m, Times(l), SameTimes(l, m), m.observed = l.observed PROVE Times(m)
  BY DEF Times, SameTimes, Active, ActiveSeconds, BusyOf

(* reserve_call is a transaction that appends one call to its owner's.     *)
LEMMA ReserveKeeps ==
    ASSUME BudgetInv, NEW o \in Owners, NEW cap \in Caps, NEW replay \in Replays,
           ReserveCall(o, cap, replay)
    PROVE  \E m : Writes(m, [Opened.calls EXCEPT ![o] = Append(Opened.calls[o], NewCall(cap, replay))],
                        Opened.closed, Opened.started)
<1> DEFINE c == NewCall(cap, replay)
           v == [Opened.calls EXCEPT ![o] = Append(Opened.calls[o], c)]
           m == [Opened EXCEPT !.calls = v]
<1>1. /\ Opened \in Ledgers /\ Sound(Opened) /\ Opened.observed = now
      /\ Opened.calls = ledger.calls /\ Opened.closed = ledger.closed
      /\ Opened.started = ledger.started
  BY OpenedSound
<1>2. ledger' = Saved(m) /\ UNCHANGED now
  BY DEF ReserveCall
<1>3. Len(Opened.calls[o]) < MaxCalls /\ Opened.closed[o] = "no"
      /\ (ActiveTiming => Opened.started[o] # Never)
  BY <1>1 DEF ReserveCall, MayDispatch
<1>4. c \in CallType /\ c.state = "live" /\ ~c.byOwner /\ c.usage = Missing
  BY DEF NewCall, CallType
<1> HIDE DEF c
<1>5. Opened.calls \in [Owners -> Seq(CallType)] /\ Opened.calls[o] \in Seq(CallType)
  BY <1>1 DEF Ledgers
<1>6. Append(Opened.calls[o], c) \in Seq(CallType)
  BY <1>4, <1>5
<1>7. v \in [Owners -> Seq(CallType)] /\ v[o] = Append(Opened.calls[o], c)
      /\ \A p \in Owners \ {o} : v[p] = Opened.calls[p]
  BY <1>5, <1>6
<1> HIDE DEF v
<1>8. /\ m \in Ledgers /\ m.calls = v /\ m.closed = Opened.closed
      /\ SameTimes(Opened, m) /\ SameCounters(Opened, m)
  BY <1>1, <1>7, SetCalls
<1> HIDE DEF m
<1>9. OwnerSound(m, o)
  <2>1. OwnerSound(Opened, o)
    BY <1>1 DEF Sound, Owned
  <2>2. m.started[o] # Never => (m.stopped[o] # Never <=> m.closed[o] # "no")
    BY <1>8, <2>1 DEF OwnerSound, SameTimes
  <2>3. ASSUME NEW k \in DOMAIN m.calls[o]
        PROVE  \/ m.calls[o][k] = c
               \/ k \in DOMAIN Opened.calls[o] /\ m.calls[o][k] = Opened.calls[o][k]
    BY <1>4, <1>5, <1>7, <1>8
  <2>4. m.closed[o] = "no" /\ (ActiveTiming => m.started[o] # Never) /\ m.closed = Opened.closed
    BY <1>3, <1>8 DEF SameTimes
  <2>5. ~(c.state = "settled")
    BY <1>4
  <2> QED  BY <1>4, <2>1, <2>2, <2>3, <2>4, <2>5 DEF OwnerSound
<1>10. Len(m.calls[o]) <= MaxCalls
  BY <1>3, <1>4, <1>5, <1>7, <1>8, BudgetAssumption
<1>11. Times(m)
  BY <1>1, <1>8, SameTimesTimes DEF Sound, SameCounters
<1>12. Sound(m)
  BY <1>1, <1>7, <1>8, <1>9, <1>10, <1>11, OwnerSoundSuffices DEF SameTimes
<1>13. m.observed = now
  BY <1>1, <1>8 DEF SameCounters
<1>14. Grows(Opened, m)
  <2>1. ActiveSeconds(m, m.observed) = ActiveSeconds(Opened, Opened.observed)
    BY <1>8 DEF ActiveSeconds, SameTimes, SameCounters
  <2>2. Len(Opened.calls[o]) <= Len(m.calls[o])
        /\ \A k \in DOMAIN Opened.calls[o] : m.calls[o][k] = Opened.calls[o][k]
    BY <1>4, <1>5, <1>7, <1>8
  <2>3. \A k \in DOMAIN Opened.calls[o] : Later(Opened.calls[o][k], m.calls[o][k])
    BY <2>2 DEF Later
  <2> QED  BY <1>1, <1>7, <1>8, <2>1, <2>2, <2>3, OwnerGrows DEF SameTimes
<1>15. Admitted(Opened, m)
  BY <1>3, <1>8 DEF Admitted, ReserveCall, v, c
<1>16. Writes(m, v, Opened.closed, Opened.started)
  BY <1>2, <1>8, <1>12, <1>13, <1>14, <1>15 DEF Transacts, Writes, SameTimes
<1> QED  BY <1>16 DEF v, c

(* settle_call is a transaction that settles one open call.                *)
LEMMA SettleKeeps ==
    ASSUME BudgetInv, NEW id \in Ids(ledger), NEW u \in Reports \cup {Missing},
           NEW d \in BOOLEAN, SettleCall(id, u, d)
    PROVE  LET o == id[1]
               k == id[2]
               c == [Opened.calls[o][k] EXCEPT !.state = "settled", !.usage = u, !.dispatched = d]
               q == [Opened.calls[o] EXCEPT ![k] = c]
           IN  \E m : Writes(m, [Opened.calls EXCEPT ![o] = q], Opened.closed, Opened.started)
<1> DEFINE o == id[1]
           k == id[2]
           c == [Opened.calls[o][k] EXCEPT !.state = "settled", !.usage = u, !.dispatched = d]
           q == [Opened.calls[o] EXCEPT ![k] = c]
           v == [Opened.calls EXCEPT ![o] = q]
           m == [Opened EXCEPT !.calls = v]
<1>1. /\ Opened \in Ledgers /\ Sound(Opened) /\ Opened.observed = now
      /\ Opened.calls = ledger.calls
  BY OpenedSound
<1>2. ledger' = Saved(m) /\ UNCHANGED now
  BY DEF SettleCall
<1>3. o \in Owners /\ k \in 1..MaxCalls /\ k <= Len(Opened.calls[o])
      /\ Opened.calls[o][k].state = "live" /\ (~d => u = Missing)
  BY <1>1 DEF SettleCall, Live, Ids, Call
<1> HIDE DEF o, k
<1>5. Opened.calls \in [Owners -> Seq(CallType)] /\ Opened.calls[o] \in Seq(CallType)
  BY <1>1, <1>3 DEF Ledgers
<1>6. k \in DOMAIN Opened.calls[o] /\ Opened.calls[o][k] \in CallType
  BY <1>3, <1>5, BudgetAssumption
<1>4. c \in CallType /\ c.state = "settled" /\ c.byOwner = Opened.calls[o][k].byOwner
      /\ c.usage = u /\ c.dispatched = d
      /\ c.cap = Opened.calls[o][k].cap /\ c.replay = Opened.calls[o][k].replay
  BY <1>6 DEF CallType
<1> HIDE DEF c
<1>7. q \in Seq(CallType) /\ DOMAIN q = DOMAIN Opened.calls[o] /\ Len(q) = Len(Opened.calls[o])
      /\ q[k] = c /\ \A j \in DOMAIN q : j # k => q[j] = Opened.calls[o][j]
  BY <1>4, <1>5, <1>6
<1> HIDE DEF q
<1>8. v \in [Owners -> Seq(CallType)] /\ v[o] = q
      /\ \A p \in Owners \ {o} : v[p] = Opened.calls[p]
  BY <1>3, <1>5, <1>7
<1> HIDE DEF v
<1>9. /\ m \in Ledgers /\ m.calls = v /\ m.closed = Opened.closed
      /\ SameTimes(Opened, m) /\ SameCounters(Opened, m)
  BY <1>1, <1>8, SetCalls
<1> HIDE DEF m
<1>10. OwnerSound(m, o)
  <2>1. OwnerSound(Opened, o)
    BY <1>1, <1>3 DEF Sound, Owned
  <2>2. m.started[o] # Never => (m.stopped[o] # Never <=> m.closed[o] # "no")
    BY <1>9, <2>1 DEF OwnerSound, SameTimes
  <2>3. m.calls[o] = q /\ m.closed = Opened.closed /\ m.started = Opened.started
    BY <1>8, <1>9 DEF SameTimes
  <2>4. ~c.byOwner /\ c.state = "settled" /\ (~c.dispatched => c.usage = Missing)
    BY <1>3, <1>4, <1>6, <2>1 DEF OwnerSound
  <2> QED  BY <1>7, <2>1, <2>2, <2>3, <2>4 DEF OwnerSound
<1>11. Len(m.calls[o]) <= MaxCalls
  BY <1>1, <1>3, <1>7, <1>8, <1>9 DEF Sound, Counts
<1>12. Times(m)
  BY <1>1, <1>9, SameTimesTimes DEF Sound, SameCounters
<1>13. Sound(m)
  BY <1>1, <1>3, <1>8, <1>9, <1>10, <1>11, <1>12, OwnerSoundSuffices DEF SameTimes
<1>14. m.observed = now
  BY <1>1, <1>9 DEF SameCounters
<1>15. Later(Opened.calls[o][k], c)
  BY <1>3, <1>4 DEF Later
<1>16. Len(m.calls[o]) = Len(Opened.calls[o])
       /\ \A j \in DOMAIN Opened.calls[o] : Later(Opened.calls[o][j], m.calls[o][j])
  BY <1>7, <1>8, <1>9, <1>15 DEF Later
<1>17. Grows(Opened, m)
  <2>1. ActiveSeconds(m, m.observed) = ActiveSeconds(Opened, Opened.observed)
    BY <1>9 DEF ActiveSeconds, SameTimes, SameCounters
  <2>2. Len(Opened.calls[o]) <= Len(m.calls[o])
    BY <1>5, <1>16
  <2> QED  BY <1>1, <1>3, <1>8, <1>9, <1>16, <2>1, <2>2, OwnerGrows DEF SameTimes
<1>18. Admitted(Opened, m)
  BY <1>3, <1>8, <1>9, <1>16 DEF Admitted
<1>19. Writes(m, v, Opened.closed, Opened.started)
  BY <1>2, <1>9, <1>13, <1>14, <1>17, <1>18 DEF Transacts, Writes, SameTimes
<1> QED  BY <1>19 DEF v, q, c, o, k

(* resume_execution is a transaction that starts one owner's interval.     *)
LEMMA ResumeKeeps ==
    ASSUME BudgetInv, NEW o \in Owners, ResumeExecution(o) 
    PROVE  \E m, v : /\ Writes(m, Opened.calls, Opened.closed, v)
                     /\ \A p \in Owners \ {o} : v[p] = Opened.started[p]
<1> DEFINE v == [Opened.started EXCEPT ![o] = now]
           w == IF Opened.activeSince = Never THEN now ELSE Opened.activeSince
           m == [Opened EXCEPT !.started = v, !.activeSince = w]
<1>1. /\ Opened \in Ledgers /\ Sound(Opened) /\ Opened.observed = now /\ now \in Nat
      /\ Opened.closed = ledger.closed /\ Opened.started = ledger.started
  BY OpenedSound
<1>2. CASE ledger.started[o] # Never
  <2>1. ledger' = Saved(Opened) /\ UNCHANGED now
    BY <1>2 DEF ResumeExecution
  <2>2. Writes(Opened, Opened.calls, Opened.closed, Opened.started)
    BY <1>1, <2>1, Unchanging DEF Transacts, Writes
  <2> QED  BY <2>2
<1>3. CASE ledger.started[o] = Never
  <2>1. ledger' = Saved(m) /\ UNCHANGED now /\ Opened.closed[o] = "no"
    BY <1>1, <1>3 DEF ResumeExecution
  <2>2. Opened.started \in [Owners -> Int] /\ Opened.activeSince \in Int
    BY <1>1 DEF Ledgers
  <2>3. v \in [Owners -> Int] /\ w \in Int /\ v[o] = now
        /\ \A p \in Owners \ {o} : v[p] = Opened.started[p]
    BY <1>1, <2>2
  <2>4. v = [Opened.started EXCEPT ![o] = Opened.observed]
        /\ w = IF Opened.activeSince = Never THEN Opened.observed ELSE Opened.activeSince
    BY <1>1
  <2> HIDE DEF v, w
  <2>5. /\ m \in Ledgers /\ m.started = v /\ m.stopped = Opened.stopped
        /\ m.calls = Opened.calls /\ m.closed = Opened.closed /\ SameCounters(Opened, m)
        /\ m.activeSeconds = Opened.activeSeconds /\ m.activeSince = w
    BY <1>1, <2>3, SetStarted, ZenonT(60)
  <2> HIDE DEF m
  <2>6. Times(m)
    BY <1>1, <1>3, <2>4, <2>5, StartTimes DEF Sound, SameCounters
  <2>7. OwnerSound(Opened, o) /\ Times(Opened)
    BY <1>1 DEF Sound, Owned
  <2>8. OwnerSound(m, o)
    <3>1. m.stopped[o] = Never
      BY <1>1, <1>3, <2>5, <2>7 DEF Times
    <3>2. m.started[o] # Never
      BY <1>1, <2>3, <2>5 DEF Never
    <3> QED  BY <2>1, <2>5, <2>7, <3>1, <3>2 DEF OwnerSound
  <2>9. Len(m.calls[o]) <= MaxCalls
    BY <1>1, <2>5 DEF Sound, Counts
  <2>10. Sound(m) /\ m.observed = now
    BY <1>1, <2>3, <2>5, <2>6, <2>8, <2>9, OwnerSoundSuffices DEF SameCounters
  <2>11. ActiveSeconds(m, m.observed) = ActiveSeconds(Opened, Opened.observed)
    <3>1. Opened.activeSeconds \in Nat
      BY <1>1 DEF Ledgers
    <3> QED  BY <1>1, <2>2, <2>4, <2>5, <2>10, <3>1 DEF ActiveSeconds, Never
  <2>12. Grows(Opened, m) /\ Admitted(Opened, m)
    <3>1. Opened.calls[o] \in Seq(CallType)
      BY <1>1 DEF Ledgers
    <3>2. Len(Opened.calls[o]) <= Len(m.calls[o])
      BY <2>5, <3>1
    <3>3. \A k \in DOMAIN Opened.calls[o] : Later(Opened.calls[o][k], m.calls[o][k])
      BY <2>5 DEF Later
    <3>4. Grows(Opened, m)
      BY <1>1, <2>5, <2>11, <3>2, <3>3, OwnerGrows
    <3> QED  BY <2>5, <3>4 DEF Admitted
  <2>13. Writes(m, Opened.calls, Opened.closed, v)
    BY <2>1, <2>5, <2>10, <2>12 DEF Transacts, Writes
  <2> QED  BY <2>3, <2>13
<1> QED  BY <1>2, <1>3

(* Closing stops an executing owner and touches nobody else.               *)
LEMMA ClosedOwner ==
    ASSUME NEW l \in Ledgers, Times(l), NEW o \in Owners, l.observed = now, now \in Nat
    PROVE  LET m == Close(l, o)
           IN  /\ m \in Ledgers /\ Times(m) /\ SameCounters(l, m)
               /\ m.calls = l.calls /\ m.closed = l.closed /\ m.started = l.started
               /\ \A p \in Owners \ {o} : m.stopped[p] = l.stopped[p]
               /\ l.started[o] # Never => m.stopped[o] # Never
               /\ ActiveSeconds(m, m.observed) = ActiveSeconds(l, l.observed)
<1>1. CASE ~Active(l, o)
  <2>1. Close(l, o) = l
    BY <1>1 DEF Close, Active
  <2>2. SameCounters(l, l)
    BY DEF SameCounters
  <2> QED  BY <1>1, <2>1, <2>2 DEF Active
<1>2. CASE Active(l, o)
  <2> DEFINE v == [l.stopped EXCEPT ![o] = now]
             n == [l EXCEPT !.stopped = v]
  <2>1. l.stopped \in [Owners -> Int]
    BY DEF Ledgers
  <2>2. v \in [Owners -> Int] /\ v[o] = now /\ \A p \in Owners \ {o} : v[p] = l.stopped[p]
    BY <2>1
  <2>3. v = [l.stopped EXCEPT ![o] = l.observed]
    OBVIOUS
  <2>4. Close(l, o) = IF \E p \in Owners : Active(n, p) THEN n
                      ELSE [n EXCEPT !.activeSeconds = @ + now - n.activeSince,
                                     !.activeSince = Never]
    BY <1>2 DEF Close, Active
  <2> HIDE DEF v
  <2>5. /\ n \in Ledgers /\ n.stopped = v /\ n.started = l.started
        /\ n.calls = l.calls /\ n.closed = l.closed /\ SameCounters(l, n)
        /\ n.activeSeconds = l.activeSeconds /\ n.activeSince = l.activeSince
    BY <2>2, SetStopped
  <2> HIDE DEF n
  <2>6. v[o] # Never
    BY <2>2 DEF Never
  <2>7. CASE \E p \in Owners : Active(n, p)
    <3>1. Close(l, o) = n
      BY <2>4, <2>7
    <3>2. Times(n)
      BY <1>2, <2>3, <2>5, <2>7, StopTimes DEF SameCounters
    <3>3. ActiveSeconds(n, n.observed) = ActiveSeconds(l, l.observed)
      BY <2>5 DEF ActiveSeconds, SameCounters
    <3> QED  BY <2>2, <2>5, <2>6, <3>1, <3>2, <3>3
  <2>8. CASE ~\E p \in Owners : Active(n, p)
    <3> DEFINE a == n.activeSeconds + now - n.activeSince
               m == [n EXCEPT !.activeSeconds = a, !.activeSince = Never]
    <3>1. Close(l, o) = m
      BY <2>4, <2>8
    <3>2. l.activeSeconds \in Nat /\ l.activeSince \in Int
      BY DEF Ledgers
    <3>3. l.activeSince \in 0..l.observed
      BY <1>2, <3>2 DEF Times
    <3>4. a \in Nat /\ Never \in Int
      BY <2>5, <3>2, <3>3 DEF Never
    <3>5. a = l.activeSeconds + l.observed - l.activeSince
      BY <2>5
    <3> HIDE DEF a
    <3>6. /\ m \in Ledgers /\ m.started = n.started /\ m.stopped = n.stopped
          /\ m.calls = n.calls /\ m.closed = n.closed /\ SameCounters(n, m)
          /\ m.activeSeconds = a /\ m.activeSince = Never
      BY <2>5, <3>4, SetActive, ZenonT(60)
    <3> HIDE DEF m
    <3>7. SameCounters(l, m)
      BY <2>5, <3>6 DEF SameCounters
    <3>8. ~\E p \in Owners : Active(m, p)
      BY <2>8, <3>6 DEF Active
    <3>9. /\ m.observed = l.observed /\ m.stopped = [l.stopped EXCEPT ![o] = l.observed]
          /\ m.started = l.started
      BY <2>3, <2>5, <3>6, <3>7 DEF SameCounters
    <3>10. IF \E p \in Owners : Active(m, p)
           THEN m.activeSeconds = l.activeSeconds /\ m.activeSince = l.activeSince
           ELSE m.activeSeconds = l.activeSeconds + l.observed - l.activeSince
                /\ m.activeSince = Never
      BY <3>5, <3>6, <3>8
    <3>11. Times(m)
      BY <1>2, <3>6, <3>9, <3>10, StopTimes
    <3>12. ActiveSeconds(m, m.observed) = ActiveSeconds(l, l.observed)
      <4>1. l.activeSince # Never /\ l.observed \in Nat
        BY <3>3 DEF Never
      <4> QED  BY <3>2, <3>5, <3>6, <3>9, <4>1 DEF ActiveSeconds
    <3> QED  BY <2>2, <2>5, <2>6, <3>1, <3>6, <3>7, <3>11, <3>12
  <2> QED  BY <2>7, <2>8
<1> QED  BY <1>1, <1>2

(* pause_execution is a transaction that closes one owner.                 *)
LEMMA PauseKeeps ==
    ASSUME BudgetInv, NEW o \in Owners, PauseExecution(o) 
    PROVE  \E m, v : /\ Writes(m, Opened.calls, v, Opened.started) /\ v[o] = "paused"
                     /\ \A p \in Owners \ {o} : v[p] = Opened.closed[p]
<1> DEFINE v == [Opened.closed EXCEPT ![o] = "paused"]
           n == [Opened EXCEPT !.closed = v]
           m == Close(n, o)
<1>1. /\ Opened \in Ledgers /\ Sound(Opened) /\ Opened.observed = now /\ now \in Nat
      /\ Opened.closed = ledger.closed /\ Opened.started = ledger.started
      /\ Opened.calls = ledger.calls
  BY OpenedSound
<1>2. CASE ledger.closed[o] = "paused"
  <2>1. ledger' = Saved(Opened) /\ UNCHANGED now
    BY <1>2 DEF PauseExecution
  <2>2. Writes(Opened, Opened.calls, Opened.closed, Opened.started)
    BY <1>1, <2>1, Unchanging DEF Transacts, Writes
  <2> QED  BY <1>1, <1>2, <2>2
<1>3. CASE ledger.closed[o] = "no"
  <2>1. ledger' = Saved(m) /\ UNCHANGED now /\ Opened.started[o] # Never
        /\ LiveOf(ledger, o) = {} /\ Opened.closed[o] = "no"
    BY <1>1, <1>3 DEF PauseExecution, MayPause
  <2>2. Opened.closed \in [Owners -> Closures]
    BY <1>1 DEF Ledgers
  <2>3. v \in [Owners -> Closures] /\ v[o] = "paused"
        /\ \A p \in Owners \ {o} : v[p] = Opened.closed[p]
    BY <2>2 DEF Closures
  <2> HIDE DEF v
  <2>4. /\ n \in Ledgers /\ n.closed = v /\ n.calls = Opened.calls
        /\ SameTimes(Opened, n) /\ SameCounters(Opened, n)
    BY <1>1, <2>3, SetClosed
  <2> HIDE DEF n
  <2>5. Times(n) /\ n.observed = now
    BY <1>1, <2>4, SameTimesTimes DEF Sound, SameCounters
  <2>6. /\ m \in Ledgers /\ Times(m) /\ SameCounters(n, m)
        /\ m.calls = n.calls /\ m.closed = n.closed /\ m.started = n.started
        /\ \A p \in Owners \ {o} : m.stopped[p] = n.stopped[p]
        /\ n.started[o] # Never => m.stopped[o] # Never
        /\ ActiveSeconds(m, m.observed) = ActiveSeconds(n, n.observed)
    BY <1>1, <2>4, <2>5, ClosedOwner
  <2> HIDE DEF m
  <2>7. OwnerSound(Opened, o)
    BY <1>1 DEF Sound, Owned
  <2>8. \A k \in DOMAIN Opened.calls[o] : Opened.calls[o][k].state = "settled"
    <3> SUFFICES ASSUME NEW k \in DOMAIN Opened.calls[o], Opened.calls[o][k].state # "settled"
                 PROVE  FALSE
      OBVIOUS
    <3>1. Opened.calls[o] \in Seq(CallType)
      BY <1>1 DEF Ledgers
    <3>2. Opened.calls[o][k] \in CallType /\ k \in 1..Len(Opened.calls[o])
      BY <3>1
    <3>3. Opened.calls[o][k].state = "live"
      BY <3>2 DEF CallType
    <3>4. Len(Opened.calls[o]) <= MaxCalls
      BY <1>1 DEF Sound, Counts
    <3>5. k \in 1..MaxCalls /\ k <= Len(Opened.calls[o])
      BY <3>1, <3>2, <3>4, BudgetAssumption
    <3>6. <<o, k>> \in LiveOf(ledger, o)
      BY <1>1, <3>3, <3>5 DEF LiveOf, Live, Ids, Call
    <3> QED  BY <2>1, <3>6
  <2>9. OwnerSound(m, o)
    <3>1. m.started[o] # Never /\ m.stopped[o] # Never /\ m.closed[o] = "paused"
      BY <2>1, <2>3, <2>4, <2>6 DEF SameTimes
    <3>2. m.calls[o] = Opened.calls[o]
      BY <2>4, <2>6
    <3>3. \A k \in DOMAIN Opened.calls[o] : ~Opened.calls[o][k].byOwner
      BY <2>1, <2>7 DEF OwnerSound, Closure
    <3> QED  BY <2>7, <2>8, <3>1, <3>2, <3>3 DEF OwnerSound
  <2>10. Len(m.calls[o]) <= MaxCalls
    BY <1>1, <2>4, <2>6 DEF Sound, Counts
  <2>11. SameCounters(Opened, m) /\ m.observed = now
    BY <2>4, <2>5, <2>6 DEF SameCounters
  <2>12. Sound(m)
    BY <1>1, <2>3, <2>4, <2>6, <2>9, <2>10, <2>11, OwnerSoundSuffices DEF SameTimes
  <2>13. ActiveSeconds(m, m.observed) = ActiveSeconds(Opened, Opened.observed)
    BY <2>4, <2>6 DEF ActiveSeconds, SameTimes, SameCounters
  <2>14. Grows(Opened, m) /\ Admitted(Opened, m)
    <3>1. Opened.calls[o] \in Seq(CallType)
      BY <1>1 DEF Ledgers
    <3>2. Len(Opened.calls[o]) <= Len(m.calls[o])
      BY <2>4, <2>6, <3>1
    <3>3. \A k \in DOMAIN Opened.calls[o] : Later(Opened.calls[o][k], m.calls[o][k])
      BY <2>4, <2>6 DEF Later
    <3>4. \A p \in Owners \ {o} :
            m.calls[p] = Opened.calls[p] /\ m.closed[p] = Opened.closed[p]
            /\ m.stopped[p] = Opened.stopped[p]
      BY <2>3, <2>4, <2>6 DEF SameTimes
    <3>5. Grows(Opened, m)
      BY <1>1, <2>1, <2>6, <2>11, <2>13, <3>2, <3>3, <3>4, OwnerGrows
    <3> QED  BY <2>4, <2>6, <3>5 DEF Admitted
  <2>15. Writes(m, Opened.calls, v, Opened.started)
    BY <2>1, <2>4, <2>6, <2>11, <2>12, <2>14 DEF Transacts, Writes, SameTimes
  <2> QED  BY <2>3, <2>15
<1> QED  BY <1>2, <1>3 DEF PauseExecution

(* What reconciliation makes of a call its owner left.                     *)
Left(c, d) ==
    IF c.state = "live" THEN [c EXCEPT !.state = "settled", !.byOwner = TRUE, !.dispatched = d]
    ELSE c

(* Such a call is settled, for the maximum it asked for.                   *)
LEMMA LeftCall ==
    ASSUME NEW c \in CallType, NEW d \in BOOLEAN
    PROVE  /\ Left(c, d) \in CallType /\ Left(c, d).state = "settled"
           /\ Left(c, d).cap = c.cap /\ Left(c, d).replay = c.replay /\ Left(c, d).usage = c.usage
           /\ c.state = "live" => Left(c, d).byOwner /\ Left(c, d).dispatched = d
           /\ c.state # "live" => Left(c, d) = c
<1>1. CASE c.state = "live"
  BY <1>1 DEF Left, CallType
<1>2. CASE c.state # "live"
  BY <1>2 DEF Left, CallType
<1> QED  BY <1>1, <1>2

(* reconcile_owner is a transaction; on an open owner it closes it and     *)
(* settles every call it left.                                             *)
LEMMA ReconcileKeeps ==
    ASSUME BudgetInv, NEW o \in Owners, NEW d \in BOOLEAN, ReconcileOwner(o, d)
    PROVE  /\ \E m : Transacts(m)
           /\ ledger.closed[o] = "no" =>
                \E m, v, x : /\ Writes(m, v, x, Opened.started) /\ x[o] # "no"
                            /\ v[o] = [k \in DOMAIN Opened.calls[o] |-> Left(Opened.calls[o][k], d)]
                            /\ \A p \in Owners \ {o} : v[p] = Opened.calls[p] /\ x[p] = Opened.closed[p]
<1> DEFINE x == [Opened.closed EXCEPT ![o] = Closure(d)]
           q == [k \in DOMAIN Opened.calls[o] |-> Left(Opened.calls[o][k], d)]
           v == [Opened.calls EXCEPT ![o] = q]
           l == [Opened EXCEPT !.closed = x]
           n == [l EXCEPT !.calls = v]
           m == Close(n, o)
<1>1. /\ Opened \in Ledgers /\ Sound(Opened) /\ Opened.observed = now /\ now \in Nat
      /\ Opened.closed = ledger.closed
  BY OpenedSound
<1>2. CASE ledger.closed[o] # "no"
  <2>1. ledger' = Saved(Opened) /\ UNCHANGED now
    BY <1>2 DEF ReconcileOwner
  <2>2. Transacts(Opened)
    BY <1>1, <2>1, Unchanging DEF Transacts
  <2> QED  BY <1>2, <2>2
<1>3. CASE ledger.closed[o] = "no"
  <2>1. ledger' = Saved(m) /\ UNCHANGED now /\ Opened.closed[o] = "no"
    <3>1. n = [Opened EXCEPT !.closed[o] = Closure(d),
                             !.calls[o] = [k \in DOMAIN @ |->
                                    IF @[k].state = "live"
                                    THEN [@[k] EXCEPT !.state = "settled", !.byOwner = TRUE,
                                                      !.dispatched = d]
                                    ELSE @[k]]]
      BY DEF Left
    <3> QED  BY <1>1, <1>3, <3>1 DEF ReconcileOwner
  <2>2. Opened.closed \in [Owners -> Closures] /\ Opened.calls \in [Owners -> Seq(CallType)]
        /\ Opened.calls[o] \in Seq(CallType)
    BY <1>1 DEF Ledgers
  <2>3. x \in [Owners -> Closures] /\ x[o] = Closure(d)
        /\ \A p \in Owners \ {o} : x[p] = Opened.closed[p]
    BY <2>2 DEF Closures, Closure
  <2> HIDE DEF x
  <2>4. \A k \in DOMAIN Opened.calls[o] : Left(Opened.calls[o][k], d) \in CallType
    BY <2>2, LeftCall
  <2>5. q \in Seq(CallType) /\ DOMAIN q = DOMAIN Opened.calls[o]
        /\ Len(q) = Len(Opened.calls[o])
        /\ \A k \in DOMAIN q : q[k] = Left(Opened.calls[o][k], d)
    BY <2>2, <2>4
  <2> HIDE DEF q
  <2>6. v \in [Owners -> Seq(CallType)] /\ v[o] = q
        /\ \A p \in Owners \ {o} : v[p] = Opened.calls[p]
    BY <2>2, <2>5
  <2> HIDE DEF v
  <2>7. /\ l \in Ledgers /\ l.closed = x /\ l.calls = Opened.calls
        /\ SameTimes(Opened, l) /\ SameCounters(Opened, l)
    BY <1>1, <2>3, SetClosed
  <2> HIDE DEF l
  <2>8. /\ n \in Ledgers /\ n.calls = v /\ n.closed = l.closed
        /\ SameTimes(l, n) /\ SameCounters(l, n)
    BY <2>6, <2>7, SetCalls
  <2> HIDE DEF n
  <2>9. SameTimes(Opened, n) /\ SameCounters(Opened, n)
    BY <2>7, <2>8 DEF SameTimes, SameCounters
  <2>10. Times(n) /\ n.observed = now
    BY <1>1, <2>9, SameTimesTimes DEF Sound, SameCounters
  <2>11. /\ m \in Ledgers /\ Times(m) /\ SameCounters(n, m)
         /\ m.calls = n.calls /\ m.closed = n.closed /\ m.started = n.started
         /\ \A p \in Owners \ {o} : m.stopped[p] = n.stopped[p]
         /\ n.started[o] # Never => m.stopped[o] # Never
         /\ ActiveSeconds(m, m.observed) = ActiveSeconds(n, n.observed)
    BY <1>1, <2>8, <2>10, ClosedOwner
  <2> HIDE DEF m
  <2>12. OwnerSound(Opened, o)
    BY <1>1 DEF Sound, Owned
  <2>13. OwnerSound(m, o)
    <3>1. m.started[o] # Never => m.stopped[o] # Never
      BY <2>11
    <3>2. m.calls[o] = q /\ m.closed[o] = Closure(d) /\ m.closed[o] # "no"
      BY <2>3, <2>6, <2>7, <2>8, <2>11 DEF Closure
    <3>3. ASSUME NEW k \in DOMAIN q
          PROVE  /\ q[k].state = "settled"
                 /\ q[k].byOwner => Closure(q[k].dispatched) = Closure(d)
                 /\ ~q[k].dispatched => q[k].usage = Missing
      <4> DEFINE c == Opened.calls[o][k]
      <4>1. c \in CallType /\ q[k] = Left(c, d) /\ k \in DOMAIN Opened.calls[o]
        BY <2>2, <2>5
      <4>2. c.byOwner => Opened.closed[o] = Closure(c.dispatched)
        BY <2>12, <4>1 DEF OwnerSound
      <4>3. ~c.byOwner
        BY <2>1, <4>2 DEF Closure
      <4>4. CASE c.state = "live"
        <5>1. c.usage = Missing
          BY <2>12, <4>1, <4>4 DEF OwnerSound
        <5> QED  BY <4>1, <4>4, <5>1, LeftCall
      <4>5. CASE c.state # "live"
        <5>1. c.state = "settled"
          BY <4>1, <4>5 DEF CallType
        <5>2. ~c.dispatched => c.usage = Missing
          BY <2>12, <4>1, <5>1 DEF OwnerSound
        <5> QED  BY <4>1, <4>3, <4>5, <5>1, <5>2, LeftCall
      <4> QED  BY <4>4, <4>5
    <3> QED  BY <3>1, <3>2, <3>3 DEF OwnerSound
  <2>14. Len(m.calls[o]) <= MaxCalls
    BY <1>1, <2>5, <2>6, <2>8, <2>11 DEF Sound, Counts
  <2>15. SameCounters(Opened, m) /\ m.observed = now
    BY <2>9, <2>10, <2>11 DEF SameCounters
  <2>16. Sound(m)
    BY <1>1, <2>3, <2>6, <2>7, <2>8, <2>9, <2>11, <2>13, <2>14, <2>15, OwnerSoundSuffices
       DEF SameTimes
  <2>17. ActiveSeconds(m, m.observed) = ActiveSeconds(Opened, Opened.observed)
    BY <2>9, <2>11 DEF ActiveSeconds, SameTimes, SameCounters
  <2>18. Grows(Opened, m) /\ Admitted(Opened, m)
    <3>1. m.calls[o] = q /\ Len(Opened.calls[o]) <= Len(m.calls[o])
          /\ Len(Opened.calls[o]) = Len(m.calls[o])
      BY <2>2, <2>5, <2>6, <2>8, <2>11
    <3>2. ASSUME NEW k \in DOMAIN Opened.calls[o]
          PROVE  Later(Opened.calls[o][k], m.calls[o][k])
      <4>1. m.calls[o][k] = Left(Opened.calls[o][k], d) /\ Opened.calls[o][k] \in CallType
        BY <2>2, <2>5, <3>1
      <4> QED  BY <4>1, LeftCall DEF Later
    <3>3. \A p \in Owners \ {o} :
            m.calls[p] = Opened.calls[p] /\ m.closed[p] = Opened.closed[p]
            /\ m.stopped[p] = Opened.stopped[p]
      BY <2>3, <2>6, <2>7, <2>8, <2>9, <2>11 DEF SameTimes
    <3>4. Grows(Opened, m)
      BY <1>1, <2>1, <2>11, <2>15, <2>17, <3>1, <3>2, <3>3, OwnerGrows
    <3>5. \A p \in Owners : Len(m.calls[p]) = Len(Opened.calls[p])
      BY <3>1, <3>3
    <3> QED  BY <3>4, <3>5 DEF Admitted
  <2>19. Transacts(m)
    BY <2>1, <2>15, <2>16, <2>18 DEF Transacts
  <2>20. Writes(m, v, x, Opened.started)
    BY <2>7, <2>8, <2>9, <2>11, <2>19 DEF Writes, SameTimes
  <2>21. x[o] # "no" /\ v[o] = [k \in DOMAIN Opened.calls[o] |-> Left(Opened.calls[o][k], d)]
    BY <2>3, <2>6 DEF Closure, q
  <2> QED  BY <2>3, <2>6, <2>19, <2>20, <2>21
<1> QED  BY <1>2, <1>3

-----------------------------------------------------------------------------

(* A fresh document is sound.                                              *)
LEMMA FreshSound == Sound(Fresh) /\ Fresh.observed = 0
<1>1. <<>> \in Seq(CallType) /\ Len(<<>>) = 0 /\ DOMAIN <<>> = {}
  OBVIOUS
<1>2. [o \in Owners |-> <<>>] \in [Owners -> Seq(CallType)]
  BY <1>1
<1>3. Fresh \in Ledgers
  BY <1>2 DEF Fresh, Ledgers, Dims, Closures, NotExhausted, Never
<1>4. /\ Fresh.calls = [o \in Owners |-> <<>>] /\ Fresh.closed = [o \in Owners |-> "no"]
      /\ Fresh.started = [o \in Owners |-> Never] /\ Fresh.stopped = [o \in Owners |-> Never]
      /\ Fresh.turns = 0 /\ Fresh.queries = 0 /\ Fresh.unknown = 0 /\ Fresh.packages = 0
      /\ Fresh.activeSeconds = 0 /\ Fresh.activeSince = Never /\ Fresh.observed = 0
  BY DEF Fresh
<1>5. Counts(Fresh)
  BY <1>1, <1>4, BudgetAssumption DEF Counts
<1>6. Owned(Fresh)
  BY <1>1, <1>4 DEF Owned, OwnerSound
<1>7. Times(Fresh)
  <2>1. BusyOf(Fresh) = {}
    BY <1>4 DEF BusyOf
  <2>2. ActiveSeconds(Fresh, Fresh.observed) = Cardinality(BusyOf(Fresh))
    BY <1>4, <2>1, FS_EmptySet DEF ActiveSeconds
  <2>3. \A o \in Owners : ~Active(Fresh, o)
    BY <1>4 DEF Active
  <2> QED  BY <1>4, <2>2, <2>3 DEF Times, Never
<1> QED  BY <1>3, <1>4, <1>5, <1>6, <1>7 DEF Sound

(* The invariant holds of the fresh document.                              *)
LEMMA BudgetInitInv == BudgetInit => BudgetInv
<1> SUFFICES ASSUME BudgetInit PROVE BudgetInv
  OBVIOUS
<1>1. now = 0 /\ ledger = Saved(Fresh)
  BY DEF BudgetInit, Saved
<1>2. Fresh \in Ledgers
  BY FreshSound DEF Sound
<1>3. Saved(Fresh) \in Ledgers /\ SameButExhausted(Fresh, Saved(Fresh))
  BY <1>2, SavedFields
<1>4. Sound(ledger) /\ ledger.observed = 0
  BY <1>1, <1>3, FreshSound, SameSound DEF SameButExhausted
<1> QED  BY <1>1, <1>4, BudgetAssumption DEF BudgetInv

(* Every step but the clock's is a transaction.                            *)
LEMMA StepTransacts ==
    ASSUME BudgetInv, BudgetNext PROVE Tick \/ \E m : Transacts(m)
<1>3. CASE Snapshot
  BY <1>3, SnapshotKeeps DEF Rewrites, Writes
<1>4. CASE ReservePackage
  BY <1>4, PackageKeeps DEF Rewrites, Writes
<1>5. ASSUME NEW n \in 1..MaxDirect, ChargeQueries(n) PROVE \E m : Transacts(m)
  BY <1>5, QueriesKeep, BudgetAssumption DEF Rewrites, Writes
<1>6. ASSUME NEW u \in Reports \cup {Missing}, ChargeTurn(u) PROVE \E m : Transacts(m)
  BY <1>6, TurnKeeps
<1>7. ASSUME NEW o \in Owners, ResumeExecution(o) PROVE \E m : Transacts(m)
  BY <1>7, ResumeKeeps DEF Writes
<1>8. ASSUME NEW o \in Owners, PauseExecution(o) PROVE \E m : Transacts(m)
  BY <1>8, PauseKeeps DEF Writes
<1>9. ASSUME NEW o \in Owners, NEW d \in BOOLEAN, ReconcileOwner(o, d)
      PROVE  \E m : Transacts(m)
  BY <1>9, ReconcileKeeps
<1>10. ASSUME NEW o \in Owners, NEW cap \in Caps, NEW replay \in Replays,
              ReserveCall(o, cap, replay)
       PROVE  \E m : Transacts(m)
  BY <1>10, ReserveKeeps DEF Writes
<1>11. ASSUME NEW id \in Ids(ledger), NEW u \in Reports \cup {Missing}, NEW d \in BOOLEAN,
              SettleCall(id, u, d) \/ SettleAgain(id, u, d)
       PROVE  \E m : Transacts(m)
  <2>1. CASE SettleCall(id, u, d)
    BY <1>11, <2>1, SettleKeeps, Zenon DEF Writes
  <2>2. CASE SettleAgain(id, u, d)
    BY <2>2, SnapshotKeeps DEF SettleAgain, Rewrites, Writes
  <2> QED  BY <1>11, <2>1, <2>2
<1> QED  BY <1>3, <1>4, <1>5, <1>6, <1>7, <1>8, <1>9, <1>10, <1>11 DEF BudgetNext

(* Every operation keeps the invariant.                                    *)
LEMMA BudgetNextInv == BudgetInv /\ [BudgetNext]_budgetVars => BudgetInv'
<1> SUFFICES ASSUME BudgetInv, [BudgetNext]_budgetVars PROVE BudgetInv'
  OBVIOUS
<1>1. CASE UNCHANGED budgetVars
  BY <1>1 DEF budgetVars, BudgetInv, Sound, Times, Owned, OwnerSound, Counts, Ledgers, Active,
              ActiveSeconds, BusyOf
<1>2. CASE Tick
  BY <1>2, TickKeeps
<1>3. ASSUME NEW m, Transacts(m) PROVE BudgetInv'
  BY <1>3, SavedSound
<1> QED  BY <1>1, <1>2, <1>3, StepTransacts

(* The invariant holds throughout.                                         *)
LEMMA BudgetInvariance == BudgetSpec => []BudgetInv
  BY BudgetInitInv, BudgetNextInv, PTL DEF BudgetSpec

(* The budget document keeps its shape, for every ceiling, set of owners   *)
(* and maximum: no counter leaves its type, whatever sequence of reserve,  *)
(* settle, resume, pause, reconcile and charge (review/budget.py) the      *)
(* processes run.                                                          *)
THEOREM BudgetTypeCorrect == BudgetSpec => []BudgetTypeOK
<1>1. ASSUME BudgetInv PROVE BudgetTypeOK
  <2>1. ledger \in Ledgers /\ Times(ledger) /\ Counts(ledger)
        /\ now \in Nat /\ ledger.observed \in Nat /\ ledger.observed <= now
    <3>1. Sound(ledger) /\ now \in 0..MaxClock /\ ledger.observed <= now
      BY <1>1 DEF BudgetInv
    <3>2. ledger \in Ledgers /\ Times(ledger) /\ Counts(ledger)
      BY <3>1 DEF Sound
    <3>3. ledger.observed \in Nat
      BY <3>2 DEF Ledgers
    <3>4. now \in Nat
      BY <3>1, BudgetAssumption
    <3> QED  BY <3>1, <3>2, <3>3, <3>4
  <2>2. ASSUME NEW o \in Owners
        PROVE  /\ Len(ledger.calls[o]) <= MaxCalls
               /\ \A k \in DOMAIN ledger.calls[o] : ledger.calls[o][k] \in CallType
               /\ ledger.closed[o] \in {"no", "paused", "dispatched", "undispatched"}
               /\ ledger.started[o] \in {Never} \cup 0..now
               /\ ledger.stopped[o] \in {Never} \cup 0..now
    <3>1. ledger.calls[o] \in Seq(CallType) /\ ledger.closed[o] \in Closures
      BY <2>1 DEF Ledgers
    <3>2. \A k \in DOMAIN ledger.calls[o] : ledger.calls[o][k] \in CallType
      BY <3>1
    <3>3. ledger.started[o] \in {Never} \cup 0..now /\ ledger.stopped[o] \in {Never} \cup 0..now
      BY <2>1 DEF Times
    <3> QED  BY <2>1, <3>1, <3>2, <3>3 DEF Counts, Closures
  <2>3. ledger.turns \in Nat /\ ledger.queries \in Nat /\ ledger.unknown \in Nat
        /\ ledger.tokens \in Nat /\ ledger.packages \in Nat /\ ledger.exhausted \in Dims
        /\ ledger.activeSeconds \in Nat /\ ledger.activeSince \in Int
    BY <2>1 DEF Ledgers
  <2>4. {ledger.turns, ledger.queries, ledger.unknown} \subseteq 0..MaxDirect
        /\ ledger.packages \in 0..MaxPackages
    <3>1. MaxDirect \in Nat /\ MaxPackages \in Nat
      BY BudgetAssumption
    <3>2. ledger.turns <= MaxDirect /\ ledger.queries <= MaxDirect
          /\ ledger.unknown <= ledger.turns /\ ledger.packages <= MaxPackages
      BY <2>1 DEF Counts
    <3>3. ledger.turns \in 0..MaxDirect /\ ledger.queries \in 0..MaxDirect
          /\ ledger.unknown \in 0..MaxDirect
      BY <2>3, <3>1, <3>2
    <3> QED  BY <2>3, <3>1, <3>2, <3>3
  <2>5. ledger.activeSince \in {Never} \cup 0..now
    BY <2>1 DEF Times
  <2>6. ledger.activeSeconds \in 0..now /\ ledger.observed \in 0..now
    BY <2>1, <2>3 DEF Times
  <2> QED  BY <1>1, <2>2, <2>3, <2>4, <2>5, <2>6 DEF BudgetTypeOK, BudgetInv, Dims
<1> QED  BY <1>1, BudgetInvariance, PTL

(* What _validate demands of a document read back always holds of the one  *)
(* written: an owner's interval is closed when and only when the owner is, *)
(* an open call belongs to an open owner, and the accumulated activity is  *)
(* the length of the union of the intervals. So no operation of JobBudget  *)
(* writes a document the next one refuses.                                 *)
THEOREM LedgerStaysValid == BudgetSpec => []LedgerValid
<1>1. ASSUME BudgetInv PROVE LedgerValid
  <2>1. Times(ledger) /\ Owned(ledger)
    BY <1>1 DEF BudgetInv, Sound
  <2>2. ActiveSeconds(ledger, ledger.observed) = Cardinality(Busy)
    BY <2>1 DEF Times, Busy, BusyOf
  <2>3. (ledger.activeSince # Never)
          <=> \E o \in Owners : ledger.started[o] # Never /\ ledger.stopped[o] = Never
    BY <2>1 DEF Times, Active
  <2>4. ASSUME NEW id \in Ids(ledger)
        PROVE  id[1] \in Owners /\ id[2] \in DOMAIN ledger.calls[id[1]]
               /\ Call(ledger, id) = ledger.calls[id[1]][id[2]]
    <3>1. id[1] \in Owners /\ id[2] \in 1..MaxCalls /\ id[2] <= Len(ledger.calls[id[1]])
      BY DEF Ids
    <3>2. ledger.calls[id[1]] \in Seq(CallType)
      BY <1>1, <3>1 DEF BudgetInv, Sound, Ledgers
    <3> QED  BY <3>1, <3>2, BudgetAssumption DEF Call
  <2>5. ASSUME NEW id \in Live(ledger)
        PROVE  ledger.closed[id[1]] = "no" /\ (ActiveTiming => ledger.started[id[1]] # Never)
    BY <2>1, <2>4 DEF Live, Owned, OwnerSound
  <2>6. ASSUME NEW id \in Settled(ledger)
        PROVE  /\ Call(ledger, id).byOwner
                    => ledger.closed[id[1]] = Closure(Call(ledger, id).dispatched)
               /\ ~Call(ledger, id).dispatched => Call(ledger, id).usage = Missing
    BY <2>1, <2>4 DEF Settled, Owned, OwnerSound
  <2>7. ASSUME NEW o \in Owners
        PROVE  /\ ledger.closed[o] # "no" => LiveOf(ledger, o) = {}
               /\ ledger.started[o] # Never
                    => (ledger.stopped[o] # Never <=> ledger.closed[o] # "no")
    BY <2>1, <2>5 DEF LiveOf, Owned, OwnerSound
  <2> QED  BY <2>2, <2>3, <2>5, <2>6, <2>7 DEF LedgerValid
<1> QED  BY <1>1, BudgetInvariance, PTL

-----------------------------------------------------------------------------
(* Sums over finite sets.                                                  *)

(* Among the subsets of a finite set with a property there is one no       *)
(* smaller subset of which has it.                                         *)
LEMMA SmallestSubset ==
    ASSUME NEW S, IsFiniteSet(S), NEW T \in SUBSET (SUBSET S), T # {}
    PROVE  \E s \in T : \A u \in T : u \subseteq s => u = s
<1>1. IsWellFoundedOn(StrictSubsetOrdering(S), SUBSET S)
  BY FS_StrictSubsetOrderingWellFounded, FS_FiniteSubsetsOfFinite
<1>2. PICK s \in T : \A u \in T : ~(<<u, s>> \in StrictSubsetOrdering(S))
  BY <1>1, WFMin
<1> QED  BY <1>2 DEF StrictSubsetOrdering

(* Some element of a set, the one the fold takes out first.                *)
Pick(s) == CHOOSE x \in s : TRUE

(* The fold of Folds, for addition: g holds the sum of f over each subset. *)
IsTotal(g, f, S) ==
    g = [s \in SUBSET S |-> IF s = {} THEN 0 ELSE f[Pick(s)] + g[s \ {Pick(s)}]]

(* The sum of f over the finite set S.                                     *)
Total(f, S) == (CHOOSE g : IsTotal(g, f, S))[S]

(* Pick takes an element.                                                  *)
LEMMA PickIn == ASSUME NEW s, s # {} PROVE Pick(s) \in s
  BY DEF Pick

(* Two such functions agree where both are defined.                        *)
LEMMA TotalUnique ==
    ASSUME NEW S, NEW T, NEW f, NEW h, NEW g, NEW k, IsFiniteSet(S), S \subseteq T,
           IsTotal(g, f, S), IsTotal(k, h, T), \A x \in S : f[x] = h[x]
    PROVE  \A s \in SUBSET S : g[s] = k[s]
<1> DEFINE Bad == {s \in SUBSET S : g[s] # k[s]}
<1>1. SUFFICES ASSUME Bad # {} PROVE FALSE
  OBVIOUS
<1>2. PICK s \in Bad : \A u \in Bad : u \subseteq s => u = s
  <2>1. Bad \in SUBSET (SUBSET S)
    OBVIOUS
  <2> HIDE DEF Bad
  <2> QED  BY <1>1, <2>1, SmallestSubset
<1>3. s # {}
  BY <1>2 DEF IsTotal
<1>4. Pick(s) \in s
  BY <1>3, PickIn
<1>5. g[s \ {Pick(s)}] = k[s \ {Pick(s)}]
  BY <1>2, <1>4
<1>6. g[s] = f[Pick(s)] + g[s \ {Pick(s)}] /\ k[s] = h[Pick(s)] + k[s \ {Pick(s)}]
  BY <1>3 DEF IsTotal
<1>7. f[Pick(s)] = h[Pick(s)]
  BY <1>4
<1> QED  BY <1>2, <1>5, <1>6, <1>7

(* There is such a function on every finite set.                           *)
LEMMA TotalExists ==
    ASSUME NEW S, NEW f, IsFiniteSet(S)
    PROVE  \E g : IsTotal(g, f, S)
<1> DEFINE Bad == {s \in SUBSET S : ~\E g : IsTotal(g, f, s)}
<1>1. SUFFICES ASSUME S \in Bad PROVE FALSE
  OBVIOUS
<1>2. PICK T \in Bad : \A u \in Bad : u \subseteq T => u = T
  <2>1. Bad \in SUBSET (SUBSET S) /\ Bad # {}
    BY <1>1
  <2> HIDE DEF Bad
  <2> QED  BY <2>1, SmallestSubset
<1>3. \A u \in SUBSET T : u # T => \E g : IsTotal(g, f, u)
  BY <1>2
<1> DEFINE G(u) == CHOOSE g : IsTotal(g, f, u)
           V(u) == IF u = {} THEN 0 ELSE f[Pick(u)] + G(u \ {Pick(u)})[u \ {Pick(u)}]
           k == [u \in SUBSET T |-> V(u)]
<1>4. ASSUME NEW u \in SUBSET T, u # T PROVE IsTotal(G(u), f, u)
  <2>1. \E g : IsTotal(g, f, u)
    BY <1>3, <1>4
  <2> QED  BY <2>1, Zenon
<1>5. ASSUME NEW u \in SUBSET T, u # T PROVE G(u)[u] = V(u)
  <2>1. CASE u = {}
    <3>1. IsTotal(G(u), f, u)
      BY <1>4, <1>5
    <3> HIDE DEF G
    <3> QED  BY <3>1, <2>1 DEF IsTotal
  <2>2. CASE u # {}
    <3> DEFINE w == u \ {Pick(u)}
    <3>1. Pick(u) \in u /\ w \in SUBSET T /\ w # T /\ w \subseteq u
      BY <2>2, <1>5, PickIn
    <3>2. IsTotal(G(u), f, u) /\ IsTotal(G(w), f, w)
      BY <1>4, <1>5, <3>1
    <3>3. IsFiniteSet(w)
      BY <3>1, FS_Subset
    <3> HIDE DEF G
    <3>4. G(u)[u] = f[Pick(u)] + G(u)[w]
      BY <2>2, <3>2 DEF IsTotal
    <3>5. G(w)[w] = G(u)[w]
      <4> HIDE DEF w
      <4>1. w \in SUBSET w
        OBVIOUS
      <4> QED  BY <3>1, <3>2, <3>3, <4>1, TotalUnique
    <3> QED  BY <2>2, <3>4, <3>5
  <2> QED  BY <2>1, <2>2
<1>6. IsTotal(k, f, T)
  <2>1. ASSUME NEW u \in SUBSET T
        PROVE  k[u] = IF u = {} THEN 0 ELSE f[Pick(u)] + k[u \ {Pick(u)}]
    <3>1. CASE u = {}
      BY <3>1
    <3>2. CASE u # {}
      <4> DEFINE w == u \ {Pick(u)}
      <4>1. Pick(u) \in u /\ w \in SUBSET T /\ w # T
        BY <3>2, PickIn
      <4>2. G(w)[w] = V(w)
        BY <4>1, <1>5
      <4> HIDE DEF G
      <4> QED  BY <3>2, <4>1, <4>2
    <3> QED  BY <3>1, <3>2
  <2> HIDE DEF V
  <2> QED  BY <2>1 DEF IsTotal
<1> QED  BY <1>2, <1>6

(* The sum of naturals over a finite set, one of its subsets at a time.    *)
LEMMA TotalNat ==
    ASSUME NEW D, NEW S \in SUBSET D, IsFiniteSet(S), NEW f \in [D -> Nat], NEW g, IsTotal(g, f, S)
    PROVE  \A s \in SUBSET S : g[s] \in Nat
<1> DEFINE Bad == {s \in SUBSET S : g[s] \notin Nat}
<1>1. SUFFICES ASSUME Bad # {} PROVE FALSE
  OBVIOUS
<1>2. PICK s \in Bad : \A u \in Bad : u \subseteq s => u = s
  <2>1. Bad \in SUBSET (SUBSET S)
    OBVIOUS
  <2> HIDE DEF Bad
  <2> QED  BY <1>1, <2>1, SmallestSubset
<1>3. s # {}
  BY <1>2 DEF IsTotal
<1>4. Pick(s) \in s
  BY <1>3, PickIn
<1>5. g[s \ {Pick(s)}] \in Nat
  BY <1>2, <1>4
<1>6. g[s] = f[Pick(s)] + g[s \ {Pick(s)}]
  BY <1>3 DEF IsTotal
<1>7. f[Pick(s)] \in Nat
  BY <1>4
<1> QED  BY <1>2, <1>5, <1>6, <1>7

(* Any element may be taken out first.                                     *)
LEMMA TotalTakeOut ==
    ASSUME NEW D, NEW S \in SUBSET D, IsFiniteSet(S), NEW f \in [D -> Nat], NEW g, IsTotal(g, f, S)
    PROVE  \A s \in SUBSET S : \A x \in s : g[s] = f[x] + g[s \ {x}]
<1> DEFINE Bad == {s \in SUBSET S : \E x \in s : g[s] # f[x] + g[s \ {x}]}
<1>1. SUFFICES ASSUME Bad # {} PROVE FALSE
  BY Zenon
<1>2. PICK s \in Bad : \A u \in Bad : u \subseteq s => u = s
  <2>1. Bad \in SUBSET (SUBSET S)
    OBVIOUS
  <2> HIDE DEF Bad
  <2> QED  BY <1>1, <2>1, SmallestSubset
<1>3. PICK x \in s : g[s] # f[x] + g[s \ {x}]
  BY <1>2
<1> DEFINE c == Pick(s)
<1>4. c \in s
  BY <1>3, PickIn
<1>5. g[s] = f[c] + g[s \ {c}]
  BY <1>3 DEF IsTotal
<1> HIDE DEF c
<1>6. c # x
  BY <1>3, <1>5
<1>7. ASSUME NEW y \in s, NEW z \in s, y # z
      PROVE  g[s \ {y}] = f[z] + g[(s \ {y}) \ {z}]
  <2>1. s \ {y} \in SUBSET S /\ s \ {y} \subseteq s /\ s \ {y} # s
    OBVIOUS
  <2>2. s \ {y} \notin Bad
    <3> HIDE DEF Bad
    <3> QED  BY <1>2, <2>1
  <2>3. z \in s \ {y}
    BY <1>7
  <2> QED  BY <2>1, <2>2, <2>3
<1> DEFINE w == (s \ {c}) \ {x}
<1>8. (s \ {x}) \ {c} = w
  OBVIOUS
<1>9. g[s \ {c}] = f[x] + g[w] /\ g[s \ {x}] = f[c] + g[w]
  BY <1>3, <1>4, <1>6, <1>7, <1>8
<1>10. f[x] \in Nat /\ f[c] \in Nat /\ g[w] \in Nat
  BY <1>3, <1>4, TotalNat
<1> HIDE DEF w
<1> QED  BY <1>3, <1>5, <1>9, <1>10

(* The sum over a set is the value of any such function at the set.        *)
LEMMA TotalIsTotal ==
    ASSUME NEW S, NEW f, IsFiniteSet(S), NEW g, IsTotal(g, f, S)
    PROVE  Total(f, S) = g[S]
<1> DEFINE h == CHOOSE k : IsTotal(k, f, S)
<1>1. IsTotal(h, f, S)
  <2>1. \E k : IsTotal(k, f, S)
    OBVIOUS
  <2> QED  BY <2>1, Zenon
<1>2. Total(f, S) = h[S]
  BY Zenon DEF Total
<1> HIDE DEF h
<1>3. S \in SUBSET S
  OBVIOUS
<1> QED  BY <1>1, <1>2, <1>3, TotalUnique

(* The sum over the empty set.                                             *)
LEMMA TotalEmpty == ASSUME NEW f PROVE Total(f, {}) = 0
<1>1. PICK g : IsTotal(g, f, {})
  BY TotalExists, FS_EmptySet
<1>2. g[{}] = 0
  BY <1>1 DEF IsTotal
<1> QED  BY <1>1, <1>2, TotalIsTotal, FS_EmptySet

(* A sum of naturals is a natural.                                         *)
LEMMA TotalType ==
    ASSUME NEW D, NEW S \in SUBSET D, IsFiniteSet(S), NEW f \in [D -> Nat]
    PROVE  Total(f, S) \in Nat
<1>1. PICK g : IsTotal(g, f, S)
  BY TotalExists
<1> QED  BY <1>1, TotalIsTotal, TotalNat

(* One more element adds its value.                                        *)
LEMMA TotalAdd ==
    ASSUME NEW D, NEW S \in SUBSET D, IsFiniteSet(S), NEW f \in [D -> Nat], NEW x \in D, x \notin S
    PROVE  Total(f, S \cup {x}) = Total(f, S) + f[x]
<1> DEFINE T == S \cup {x}
<1>1. IsFiniteSet(T) /\ T \in SUBSET D /\ S \in SUBSET T /\ T \ {x} = S /\ x \in T
  BY FS_AddElement
<1> HIDE DEF T
<1>2. PICK g : IsTotal(g, f, T)
  BY <1>1, TotalExists
<1>3. PICK h : IsTotal(h, f, S)
  BY TotalExists
<1>4. g[T] = f[x] + g[S]
  <2>1. T \in SUBSET T
    OBVIOUS
  <2> QED  BY <1>1, <1>2, <2>1, TotalTakeOut
<1>5. h[S] = g[S]
  <2>1. S \in SUBSET S
    OBVIOUS
  <2> QED  BY <1>1, <1>2, <1>3, <2>1, TotalUnique
<1>6. Total(f, T) = g[T] /\ Total(f, S) = h[S]
  BY <1>1, <1>2, <1>3, TotalIsTotal
<1>7. h[S] \in Nat /\ f[x] \in Nat
  BY <1>3, <1>6, TotalType
<1> QED  BY <1>4, <1>5, <1>6, <1>7 DEF T

(* The sum depends on the values at the elements only.                     *)
LEMMA TotalSame ==
    ASSUME NEW S, IsFiniteSet(S), NEW f, NEW h, \A x \in S : f[x] = h[x]
    PROVE  Total(f, S) = Total(h, S)
<1>1. PICK g : IsTotal(g, f, S)
  BY TotalExists
<1>2. PICK k : IsTotal(k, h, S)
  BY TotalExists
<1>3. S \in SUBSET S
  OBVIOUS
<1> QED  BY <1>1, <1>2, <1>3, TotalIsTotal, TotalUnique

(* Elements that count nothing may be left out.                            *)
LEMMA TotalFilter ==
    ASSUME NEW D, NEW S \in SUBSET D, IsFiniteSet(S), NEW f \in [D -> Nat],
           NEW T \in SUBSET S, \A x \in S \ T : f[x] = 0
    PROVE  Total(f, T) = Total(f, S)
<1> DEFINE Bad == {s \in SUBSET S : T \subseteq s /\ Total(f, s) # Total(f, T)}
<1>1. SUFFICES ASSUME Bad # {} PROVE FALSE
  OBVIOUS
<1>2. PICK s \in Bad : \A u \in Bad : u \subseteq s => u = s
  <2>1. Bad \in SUBSET (SUBSET S)
    OBVIOUS
  <2> HIDE DEF Bad
  <2> QED  BY <1>1, <2>1, SmallestSubset
<1>3. s \in SUBSET S /\ T \subseteq s /\ Total(f, s) # Total(f, T)
  BY <1>2
<1>4. PICK x \in s : x \notin T
  BY <1>3
<1> DEFINE u == s \ {x}
<1>5. u \in SUBSET S /\ T \subseteq u /\ u \subseteq s /\ u # s /\ x \notin u /\ x \in D /\ u \cup {x} = s
      /\ f[x] = 0 /\ u \in SUBSET D
  BY <1>3, <1>4
<1>6. Total(f, u) = Total(f, T)
  BY <1>2, <1>5
<1> HIDE DEF u, Bad
<1>7. IsFiniteSet(u)
  BY <1>5, FS_Subset
<1>8. Total(f, s) = Total(f, u) + f[x] /\ Total(f, u) \in Nat
  BY <1>5, <1>7, TotalAdd, TotalType
<1> QED  BY <1>3, <1>5, <1>6, <1>8

(* Sums are added value by value.                                          *)
LEMMA TotalPlus ==
    ASSUME NEW D, NEW S \in SUBSET D, IsFiniteSet(S), NEW f \in [D -> Nat], NEW g \in [D -> Nat],
           NEW h \in [D -> Nat], \A x \in S : h[x] = f[x] + g[x]
    PROVE  Total(h, S) = Total(f, S) + Total(g, S)
<1> DEFINE Bad == {s \in SUBSET S : Total(h, s) # Total(f, s) + Total(g, s)}
<1>1. SUFFICES ASSUME Bad # {} PROVE FALSE
  OBVIOUS
<1>2. PICK s \in Bad : \A u \in Bad : u \subseteq s => u = s
  <2>1. Bad \in SUBSET (SUBSET S)
    OBVIOUS
  <2> HIDE DEF Bad
  <2> QED  BY <1>1, <2>1, SmallestSubset
<1>3. s \in SUBSET S /\ Total(h, s) # Total(f, s) + Total(g, s)
  BY <1>2
<1>4. s # {}
  <2>1. Total(h, {}) = 0 /\ Total(f, {}) = 0 /\ Total(g, {}) = 0
    BY TotalEmpty
  <2>2. ASSUME s = {} PROVE Total(h, s) = 0 /\ Total(f, s) = 0 /\ Total(g, s) = 0
    BY <2>1, <2>2, Zenon
  <2>3. 0 = 0 + 0
    OBVIOUS
  <2> QED  BY <1>3, <2>2, <2>3, Zenon
<1>5. PICK x \in s : TRUE
  BY <1>4
<1> DEFINE u == s \ {x}
<1>6. u \in SUBSET S /\ u \subseteq s /\ u # s /\ x \notin u /\ x \in D /\ x \in S /\ u \cup {x} = s
      /\ u \in SUBSET D
  BY <1>3, <1>5
<1>7. Total(h, u) = Total(f, u) + Total(g, u)
  BY <1>2, <1>6
<1> HIDE DEF u, Bad
<1>8. IsFiniteSet(u)
  BY <1>6, FS_Subset
<1>9. /\ Total(f, s) = Total(f, u) + f[x] /\ Total(f, u) \in Nat
      /\ Total(g, s) = Total(g, u) + g[x] /\ Total(g, u) \in Nat
      /\ Total(h, s) = Total(h, u) + h[x] /\ Total(h, u) \in Nat
  BY <1>6, <1>8, TotalAdd, TotalType
<1>10. h[x] = f[x] + g[x] /\ f[x] \in Nat /\ g[x] \in Nat
  BY <1>6
<1> QED  BY <1>3, <1>7, <1>9, <1>10

(* Sums are compared value by value.                                       *)
LEMMA TotalLeq ==
    ASSUME NEW D, NEW S \in SUBSET D, IsFiniteSet(S), NEW f \in [D -> Nat], NEW g \in [D -> Nat],
           \A x \in S : f[x] <= g[x]
    PROVE  Total(f, S) <= Total(g, S)
<1> DEFINE d == [x \in D |-> IF f[x] <= g[x] THEN g[x] - f[x] ELSE 0]
<1>1. d \in [D -> Nat]
  OBVIOUS
<1>2. \A x \in S : g[x] = f[x] + d[x]
  OBVIOUS
<1> HIDE DEF d
<1>3. Total(g, S) = Total(f, S) + Total(d, S)
  BY <1>1, <1>2, TotalPlus
<1>4. Total(f, S) \in Nat /\ Total(d, S) \in Nat
  BY <1>1, TotalType
<1> QED  BY <1>3, <1>4

(* A larger set counts at least as much.                                   *)
LEMMA TotalWider ==
    ASSUME NEW D, NEW S \in SUBSET D, IsFiniteSet(S), NEW f \in [D -> Nat], NEW T \in SUBSET S
    PROVE  Total(f, T) <= Total(f, S)
<1> DEFINE g == [x \in D |-> IF x \in T THEN f[x] ELSE 0]
<1>1. g \in [D -> Nat] /\ (\A x \in S \ T : g[x] = 0) /\ (\A x \in T : g[x] = f[x])
      /\ (\A x \in S : g[x] <= f[x])
  OBVIOUS
<1> HIDE DEF g
<1>2. IsFiniteSet(T) /\ T \in SUBSET D
  BY FS_Subset
<1>3. Total(f, T) = Total(g, T)
  BY <1>1, <1>2, TotalSame
<1>4. Total(g, T) = Total(g, S)
  BY <1>1, TotalFilter
<1>5. Total(g, S) <= Total(f, S)
  BY <1>1, TotalLeq
<1> QED  BY <1>3, <1>4, <1>5

-----------------------------------------------------------------------------
(* The sums the budget takes.                                              *)

(* What was reported.                                                      *)
LEMMA UsageTotal ==
    ASSUME NEW l, NEW S, NEW f, IsFiniteSet(S), \A x \in S : f[x] = Call(l, x).usage
    PROVE  MapThenSumSet(LAMBDA id : Call(l, id).usage, S) = Total(f, S)
<1> DEFINE Fold(g) == g = [s \in SUBSET S |->
               IF s = {} THEN 0
               ELSE Call(l, CHOOSE x \in s : TRUE).usage + g[s \ {CHOOSE x \in s : TRUE}]]
           iter == CHOOSE g : Fold(g)
<1>1. MapThenSumSet(LAMBDA id : Call(l, id).usage, S) = iter[S]
  BY Zenon DEF MapThenSumSet, MapThenFoldSet
<1>2. ASSUME NEW s \in SUBSET S, s # {}
      PROVE  f[Pick(s)] = Call(l, CHOOSE x \in s : TRUE).usage
  <2>1. Pick(s) \in s
    BY <1>2, PickIn
  <2> QED  BY <2>1 DEF Pick
<1>3. \A g : IsTotal(g, f, S) <=> Fold(g)
  BY <1>2 DEF IsTotal, Pick
<1>4. \E g : Fold(g)
  <2> HIDE DEF Fold
  <2> QED  BY <1>3, TotalExists
<1>5. Fold(iter)
  <2> HIDE DEF Fold
  <2> QED  BY <1>4, Zenon
<1> HIDE DEF Fold, iter
<1>6. IsTotal(iter, f, S)
  BY <1>3, <1>5
<1> QED  BY <1>1, <1>6, TotalIsTotal

(* What was asked for.                                                     *)
LEMMA CapTotal ==
    ASSUME NEW l, NEW S, NEW f, IsFiniteSet(S), \A x \in S : f[x] = Call(l, x).cap
    PROVE  MapThenSumSet(LAMBDA id : Call(l, id).cap, S) = Total(f, S)
<1> DEFINE Fold(g) == g = [s \in SUBSET S |->
               IF s = {} THEN 0
               ELSE Call(l, CHOOSE x \in s : TRUE).cap + g[s \ {CHOOSE x \in s : TRUE}]]
           iter == CHOOSE g : Fold(g)
<1>1. MapThenSumSet(LAMBDA id : Call(l, id).cap, S) = iter[S]
  BY Zenon DEF MapThenSumSet, MapThenFoldSet
<1>2. ASSUME NEW s \in SUBSET S, s # {}
      PROVE  f[Pick(s)] = Call(l, CHOOSE x \in s : TRUE).cap
  <2>1. Pick(s) \in s
    BY <1>2, PickIn
  <2> QED  BY <2>1 DEF Pick
<1>3. \A g : IsTotal(g, f, S) <=> Fold(g)
  BY <1>2 DEF IsTotal, Pick
<1>4. \E g : Fold(g)
  <2> HIDE DEF Fold
  <2> QED  BY <1>3, TotalExists
<1>5. Fold(iter)
  <2> HIDE DEF Fold
  <2> QED  BY <1>4, Zenon
<1> HIDE DEF Fold, iter
<1>6. IsTotal(iter, f, S)
  BY <1>3, <1>5
<1> QED  BY <1>1, <1>6, TotalIsTotal

(* What was reported beyond that.                                          *)
LEMMA OverTotal ==
    ASSUME NEW l, NEW S, NEW f, IsFiniteSet(S), \A x \in S : f[x] = Call(l, x).usage - Call(l, x).cap
    PROVE  MapThenSumSet(LAMBDA id : Call(l, id).usage - Call(l, id).cap, S) = Total(f, S)
<1> DEFINE Fold(g) == g = [s \in SUBSET S |->
               IF s = {} THEN 0
               ELSE (Call(l, CHOOSE x \in s : TRUE).usage - Call(l, CHOOSE x \in s : TRUE).cap)
                    + g[s \ {CHOOSE x \in s : TRUE}]]
           iter == CHOOSE g : Fold(g)
<1>1. MapThenSumSet(LAMBDA id : Call(l, id).usage - Call(l, id).cap, S) = iter[S]
  BY Zenon DEF MapThenSumSet, MapThenFoldSet
<1>2. ASSUME NEW s \in SUBSET S, s # {}
      PROVE  f[Pick(s)] = Call(l, CHOOSE x \in s : TRUE).usage - Call(l, CHOOSE x \in s : TRUE).cap
  <2>1. Pick(s) \in s
    BY <1>2, PickIn
  <2> QED  BY <2>1 DEF Pick
<1>3. \A g : IsTotal(g, f, S) <=> Fold(g)
  BY <1>2 DEF IsTotal, Pick
<1>4. \E g : Fold(g)
  <2> HIDE DEF Fold
  <2> QED  BY <1>3, TotalExists
<1>5. Fold(iter)
  <2> HIDE DEF Fold
  <2> QED  BY <1>4, Zenon
<1> HIDE DEF Fold, iter
<1>6. IsTotal(iter, f, S)
  BY <1>3, <1>5
<1> QED  BY <1>1, <1>6, TotalIsTotal, Zenon

-----------------------------------------------------------------------------
(* What each call counts for.                                              *)

(* Every place a call may have in the document.                            *)
Base == Owners \X (1..MaxCalls)

(* Reported, held, owed for a missing report, reported beyond the maximum, *)
(* and counted at most up to it.                                           *)
KnownOf(l) ==
    [id \in Base |-> IF id \in Dispatched(l) /\ Call(l, id).usage # Missing /\ ~Call(l, id).replay
                     THEN Call(l, id).usage ELSE 0]

(* What the open calls hold.                                               *)
HoldOf(l) ==
    [id \in Base |-> IF id \in Live(l) /\ ~Call(l, id).replay THEN Call(l, id).cap ELSE 0]

(* What a dispatched call without a report is charged for.                 *)
OweOf(l) ==
    [id \in Base |-> IF id \in Dispatched(l) /\ Call(l, id).usage = Missing /\ ~Call(l, id).replay
                     THEN Call(l, id).cap ELSE 0]

(* What a report claims beyond the maximum of its call.                    *)
OverOf(l) ==
    [id \in Base |-> IF id \in Dispatched(l) /\ ~Call(l, id).replay
                        /\ Call(l, id).usage > Call(l, id).cap
                     THEN Call(l, id).usage - Call(l, id).cap ELSE 0]

(* What a call counts for up to its maximum: this is the measure no step   *)
(* raises, except a reservation by what it asks for.                       *)
CostOf(l) ==
    [id \in Base |->
        IF id \in Dispatched(l) \cup Live(l) /\ ~Call(l, id).replay
        THEN IF id \in Dispatched(l) /\ Call(l, id).usage # Missing
                /\ Call(l, id).usage <= Call(l, id).cap
             THEN Call(l, id).usage ELSE Call(l, id).cap
        ELSE 0]

(* A recorded call has the type of one.                                    *)
LEMMA RecordedCall ==
    ASSUME NEW l \in Ledgers, NEW id \in Ids(l)
    PROVE  /\ id \in Base /\ id[1] \in Owners /\ id[2] \in DOMAIN l.calls[id[1]]
           /\ id = <<id[1], id[2]>> /\ Call(l, id) = l.calls[id[1]][id[2]]
           /\ Call(l, id) \in CallType
           /\ Call(l, id).state \in {"live", "settled"} /\ Call(l, id).cap \in Nat
           /\ Call(l, id).usage \in Nat \cup {Missing}
           /\ Call(l, id).replay \in BOOLEAN /\ Call(l, id).dispatched \in BOOLEAN
<1>1. id \in Base /\ id[1] \in Owners /\ id[2] \in 1..MaxCalls /\ id[2] <= Len(l.calls[id[1]])
      /\ id = <<id[1], id[2]>>
  BY DEF Ids, Base
<1>2. l.calls[id[1]] \in Seq(CallType)
  BY <1>1 DEF Ledgers
<1>3. id[2] \in DOMAIN l.calls[id[1]] /\ Call(l, id) \in CallType
  BY <1>1, <1>2, BudgetAssumption DEF Call
<1>4. /\ Call(l, id).state \in {"live", "settled"} /\ Call(l, id).cap \in Caps
      /\ Call(l, id).usage \in Reports \cup {Missing}
      /\ Call(l, id).replay \in Replays /\ Call(l, id).dispatched \in BOOLEAN
  BY <1>3 DEF CallType
<1> QED  BY <1>1, <1>3, <1>4, BudgetAssumption DEF Call

(* Each of these is a number for every place.                              *)
LEMMA Weights ==
    ASSUME NEW l \in Ledgers
    PROVE  /\ KnownOf(l) \in [Base -> Nat] /\ HoldOf(l) \in [Base -> Nat]
           /\ OweOf(l) \in [Base -> Nat] /\ OverOf(l) \in [Base -> Nat]
           /\ CostOf(l) \in [Base -> Nat]
<1>1. Live(l) \subseteq Ids(l) /\ Dispatched(l) \subseteq Ids(l)
  BY DEF Live, Dispatched, Settled
<1>2. \A id \in Live(l) \cup Dispatched(l) :
          Call(l, id).cap \in Nat /\ Call(l, id).usage \in Nat \cup {Missing}
  BY <1>1, RecordedCall
<1>3. KnownOf(l) \in [Base -> Nat]
  BY <1>2 DEF KnownOf
<1>4. HoldOf(l) \in [Base -> Nat] /\ OweOf(l) \in [Base -> Nat]
  BY <1>2 DEF HoldOf, OweOf
<1>5. OverOf(l) \in [Base -> Nat]
  BY <1>2 DEF OverOf, Missing
<1>6. CostOf(l) \in [Base -> Nat]
  BY <1>2 DEF CostOf
<1> QED  BY <1>3, <1>4, <1>5, <1>6

(* The totals of the document are totals over its calls.                   *)
LEMMA DocumentTotals ==
    ASSUME NEW l \in Ledgers, IsFiniteSet(Ids(l))
    PROVE  /\ KnownTokens(l) = l.tokens + Total(KnownOf(l), Ids(l))
           /\ ReservedTokens(l) = Total(HoldOf(l), Ids(l))
           /\ LiabilityTokens(l) = (IF l.unknown > 0 THEN MaxTokens ELSE 0)
                                   + Total(OweOf(l), Ids(l))
           /\ Overrun(l) = Total(OverOf(l), Ids(l))
<1> DEFINE I == Ids(l)
           K == {id \in Dispatched(l) : Call(l, id).usage # Missing /\ ~Call(l, id).replay}
           H == {id \in Live(l) : ~Call(l, id).replay}
           W == {id \in Dispatched(l) : Call(l, id).usage = Missing /\ ~Call(l, id).replay}
           V == {id \in Dispatched(l) : ~Call(l, id).replay /\ Call(l, id).usage > Call(l, id).cap}
<1>1. /\ I \in SUBSET Base /\ K \in SUBSET I /\ H \in SUBSET I /\ W \in SUBSET I
      /\ V \in SUBSET I
  BY DEF Base, Ids, Dispatched, Settled, Live
<1>2. IsFiniteSet(K) /\ IsFiniteSet(H) /\ IsFiniteSet(W) /\ IsFiniteSet(V)
  BY <1>1, FS_Subset
<1>3. /\ \A x \in K : KnownOf(l)[x] = Call(l, x).usage
      /\ \A x \in I \ K : KnownOf(l)[x] = 0
  BY <1>1 DEF KnownOf
<1>4. /\ \A x \in H : HoldOf(l)[x] = Call(l, x).cap
      /\ \A x \in I \ H : HoldOf(l)[x] = 0
  BY <1>1 DEF HoldOf
<1>5. /\ \A x \in W : OweOf(l)[x] = Call(l, x).cap
      /\ \A x \in I \ W : OweOf(l)[x] = 0
  BY <1>1 DEF OweOf
<1>6. /\ \A x \in V : OverOf(l)[x] = Call(l, x).usage - Call(l, x).cap
      /\ \A x \in I \ V : OverOf(l)[x] = 0
  BY <1>1 DEF OverOf
<1>7. KnownTokens(l) = l.tokens + Total(KnownOf(l), K)
  <2>1. MapThenSumSet(LAMBDA id : Call(l, id).usage, K) = Total(KnownOf(l), K)
    <3> HIDE DEF K
    <3> QED  BY <1>2, <1>3, UsageTotal
  <2> QED  BY <2>1, Zenon DEF KnownTokens
<1>8. ReservedTokens(l) = Total(HoldOf(l), H)
  <2>1. MapThenSumSet(LAMBDA id : Call(l, id).cap, H) = Total(HoldOf(l), H)
    <3> HIDE DEF H
    <3> QED  BY <1>2, <1>4, CapTotal
  <2> QED  BY <2>1, Zenon DEF ReservedTokens
<1>9. LiabilityTokens(l) = (IF l.unknown > 0 THEN MaxTokens ELSE 0) + Total(OweOf(l), W)
  <2>1. MapThenSumSet(LAMBDA id : Call(l, id).cap, W) = Total(OweOf(l), W)
    <3> HIDE DEF W
    <3> QED  BY <1>2, <1>5, CapTotal
  <2> QED  BY <2>1, Zenon DEF LiabilityTokens
<1>10. Overrun(l) = Total(OverOf(l), V)
  <2>1. MapThenSumSet(LAMBDA id : Call(l, id).usage - Call(l, id).cap, V) = Total(OverOf(l), V)
    <3> HIDE DEF V
    <3> QED  BY <1>2, <1>6, OverTotal, Zenon
  <2> QED  BY <2>1, Zenon DEF Overrun
<1> HIDE DEF K, H, W, V
<1>11. /\ Total(KnownOf(l), K) = Total(KnownOf(l), I) /\ Total(HoldOf(l), H) = Total(HoldOf(l), I)
       /\ Total(OweOf(l), W) = Total(OweOf(l), I) /\ Total(OverOf(l), V) = Total(OverOf(l), I)
  <2>1. Total(KnownOf(l), K) = Total(KnownOf(l), I)
    <3>1. KnownOf(l) \in [Base -> Nat]
      BY Weights
    <3> QED  BY <1>1, <1>3, <3>1, TotalFilter
  <2>2. Total(HoldOf(l), H) = Total(HoldOf(l), I)
    <3>1. HoldOf(l) \in [Base -> Nat]
      BY Weights
    <3> QED  BY <1>1, <1>4, <3>1, TotalFilter
  <2>3. Total(OweOf(l), W) = Total(OweOf(l), I)
    <3>1. OweOf(l) \in [Base -> Nat]
      BY Weights
    <3> QED  BY <1>1, <1>5, <3>1, TotalFilter
  <2>4. Total(OverOf(l), V) = Total(OverOf(l), I)
    <3>1. OverOf(l) \in [Base -> Nat]
      BY Weights
    <3> QED  BY <1>1, <1>6, <3>1, TotalFilter
  <2> QED  BY <2>1, <2>2, <2>3, <2>4
<1> QED  BY <1>7, <1>8, <1>9, <1>10, <1>11

(* Everything held is the cost up to the maxima and the overrun.           *)
LEMMA HeldIsCost ==
    ASSUME NEW l \in Ledgers, IsFiniteSet(Ids(l))
    PROVE  /\ HeldTokens(l) = l.tokens + (IF l.unknown > 0 THEN MaxTokens ELSE 0)
                              + Total(CostOf(l), Ids(l)) + Overrun(l)
           /\ Total(CostOf(l), Ids(l)) \in Nat /\ Overrun(l) \in Nat
<1> DEFINE I == Ids(l)
           A == [id \in Base |-> KnownOf(l)[id] + HoldOf(l)[id]]
           B == [id \in Base |-> A[id] + OweOf(l)[id]]
<1>1. I \in SUBSET Base
  BY DEF Ids, Base
<1>2. A \in [Base -> Nat] /\ \A id \in I : A[id] = KnownOf(l)[id] + HoldOf(l)[id]
  BY <1>1, Weights
<1> HIDE DEF A
<1>3. B \in [Base -> Nat] /\ \A id \in I : B[id] = A[id] + OweOf(l)[id]
  BY <1>1, <1>2, Weights
<1> HIDE DEF B
<1>4. ASSUME NEW id \in I PROVE B[id] = CostOf(l)[id] + OverOf(l)[id]
  <2>1. /\ id \in Base /\ Call(l, id).cap \in Nat /\ Call(l, id).usage \in Nat \cup {Missing}
        /\ Call(l, id).state \in {"live", "settled"}
    BY RecordedCall
  <2>2. id \in Live(l) => id \notin Dispatched(l)
    BY DEF Live, Dispatched, Settled
  <2>3. B[id] = KnownOf(l)[id] + HoldOf(l)[id] + OweOf(l)[id]
    BY <1>2, <1>3
  <2>4. CASE Call(l, id).replay \/ id \notin Dispatched(l) \cup Live(l)
    BY <2>1, <2>3, <2>4 DEF KnownOf, HoldOf, OweOf, CostOf, OverOf
  <2>5. CASE ~Call(l, id).replay /\ id \in Live(l)
    BY <2>1, <2>2, <2>3, <2>5 DEF KnownOf, HoldOf, OweOf, CostOf, OverOf
  <2>6. CASE ~Call(l, id).replay /\ id \in Dispatched(l)
    <3>1. KnownOf(l)[id] = IF Call(l, id).usage # Missing THEN Call(l, id).usage ELSE 0
      BY <2>1, <2>6 DEF KnownOf
    <3>2. HoldOf(l)[id] = 0
      BY <2>1, <2>2, <2>6 DEF HoldOf
    <3>3. OweOf(l)[id] = IF Call(l, id).usage = Missing THEN Call(l, id).cap ELSE 0
      BY <2>1, <2>6 DEF OweOf
    <3>4. OverOf(l)[id] = IF Call(l, id).usage > Call(l, id).cap
                          THEN Call(l, id).usage - Call(l, id).cap ELSE 0
      BY <2>1, <2>6 DEF OverOf
    <3>5. CostOf(l)[id] = IF Call(l, id).usage # Missing /\ Call(l, id).usage <= Call(l, id).cap
                          THEN Call(l, id).usage ELSE Call(l, id).cap
      BY <2>1, <2>6 DEF CostOf
    <3> QED  BY <2>1, <2>3, <3>1, <3>2, <3>3, <3>4, <3>5 DEF Missing
  <2> QED  BY <2>4, <2>5, <2>6
<1>5. /\ KnownOf(l) \in [Base -> Nat] /\ HoldOf(l) \in [Base -> Nat]
      /\ OweOf(l) \in [Base -> Nat] /\ OverOf(l) \in [Base -> Nat] /\ CostOf(l) \in [Base -> Nat]
  BY Weights
<1>6. IsFiniteSet(I)
  OBVIOUS
<1>7. \A id \in I : B[id] = CostOf(l)[id] + OverOf(l)[id]
  BY <1>4
<1>8. HeldTokens(l) = (l.tokens + Total(KnownOf(l), I)) + Total(HoldOf(l), I)
                      + ((IF l.unknown > 0 THEN MaxTokens ELSE 0) + Total(OweOf(l), I))
      /\ Overrun(l) = Total(OverOf(l), I)
  BY DocumentTotals DEF HeldTokens
<1> HIDE DEF I
<1>9. Total(A, I) = Total(KnownOf(l), I) + Total(HoldOf(l), I)
  <2>1. KnownOf(l) \in [Base -> Nat] /\ HoldOf(l) \in [Base -> Nat]
    BY <1>5
  <2> QED  BY <1>1, <1>2, <1>6, <2>1, TotalPlus
<1>10. Total(B, I) = Total(A, I) + Total(OweOf(l), I)
  <2>1. A \in [Base -> Nat] /\ OweOf(l) \in [Base -> Nat]
    BY <1>2, <1>5
  <2> QED  BY <1>1, <1>3, <1>6, <2>1, TotalPlus
<1>11. Total(B, I) = Total(CostOf(l), I) + Total(OverOf(l), I)
  <2>1. B \in [Base -> Nat] /\ CostOf(l) \in [Base -> Nat] /\ OverOf(l) \in [Base -> Nat]
    BY <1>3, <1>5
  <2> QED  BY <1>1, <1>6, <1>7, <2>1, TotalPlus
<1>12. /\ Total(KnownOf(l), I) \in Nat /\ Total(HoldOf(l), I) \in Nat /\ Total(OweOf(l), I) \in Nat
      /\ Total(CostOf(l), I) \in Nat /\ Total(OverOf(l), I) \in Nat
  BY <1>1, <1>5, <1>6, TotalType
<1>13. l.tokens \in Nat /\ (IF l.unknown > 0 THEN MaxTokens ELSE 0) \in Nat
  BY BudgetAssumption DEF Ledgers
<1> DEFINE z == IF l.unknown > 0 THEN MaxTokens ELSE 0
<1> HIDE DEF z
<1>14. z \in Nat /\ HeldTokens(l) = (l.tokens + Total(KnownOf(l), I)) + Total(HoldOf(l), I)
                                    + (z + Total(OweOf(l), I))
  BY <1>13, <1>8 DEF z
<1>15. HeldTokens(l) = l.tokens + z + Total(CostOf(l), I) + Overrun(l)
  BY <1>9, <1>10, <1>11, <1>12, <1>13, <1>8, <1>14
<1> QED  BY <1>12, <1>8, <1>15 DEF z, I

-----------------------------------------------------------------------------
(* The totals depend on the calls alone.                                   *)
LEMMA SameCallsSame ==
    ASSUME NEW l, NEW m, m.calls = l.calls
    PROVE  /\ Ids(m) = Ids(l) /\ Live(m) = Live(l) /\ Dispatched(m) = Dispatched(l)
           /\ Settled(m) = Settled(l) /\ \A id : Call(m, id) = Call(l, id)
           /\ KnownOf(m) = KnownOf(l) /\ CostOf(m) = CostOf(l)
<1>1. Ids(m) = Ids(l) /\ \A id : Call(m, id) = Call(l, id)
  BY DEF Ids, Call
<1>2. Live(m) = Live(l) /\ Settled(m) = Settled(l)
  BY <1>1 DEF Live, Settled
<1>3. Dispatched(m) = Dispatched(l)
  BY <1>1, <1>2 DEF Dispatched
<1>4. KnownOf(m) = KnownOf(l)
  BY <1>1, <1>3 DEF KnownOf
<1>5. CostOf(m) = CostOf(l)
  BY <1>1, <1>2, <1>3 DEF CostOf
<1> QED  BY <1>1, <1>2, <1>3, <1>4, <1>5

(* Calls are never forgotten.                                              *)
LEMMA GrowsCalls ==
    ASSUME NEW l \in Ledgers, NEW m \in Ledgers, Grows(l, m)
    PROVE  /\ Ids(l) \subseteq Ids(m)
           /\ \A id \in Ids(l) : Later(Call(l, id), Call(m, id))
           /\ Settled(l) \subseteq Settled(m)
           /\ Dispatched(l) \subseteq Dispatched(m)
<1>1. ASSUME NEW id \in Ids(l) PROVE id \in Ids(m)
  <2>1. id \in Owners \X (1..MaxCalls) /\ id[1] \in Owners /\ id[2] \in Nat
        /\ id[2] <= Len(l.calls[id[1]])
    BY BudgetAssumption DEF Ids
  <2>2. l.calls[id[1]] \in Seq(CallType) /\ m.calls[id[1]] \in Seq(CallType)
    BY <2>1 DEF Ledgers
  <2>3. Len(l.calls[id[1]]) \in Nat /\ Len(m.calls[id[1]]) \in Nat
        /\ Len(l.calls[id[1]]) <= Len(m.calls[id[1]])
    BY <2>1, <2>2 DEF Grows
  <2>4. id[2] <= Len(m.calls[id[1]])
    BY <2>1, <2>3
  <2> QED  BY <2>1, <2>4 DEF Ids
<1>2. ASSUME NEW id \in Ids(l) PROVE Later(Call(l, id), Call(m, id))
  BY RecordedCall DEF Grows, Call
<1>3. Settled(l) \subseteq Settled(m)
  BY <1>1, <1>2 DEF Settled, Later
<1>4. Dispatched(l) \subseteq Dispatched(m)
  BY <1>1, <1>2, <1>3 DEF Dispatched, Settled, Later
<1> QED  BY <1>1, <1>2, <1>3, <1>4

(* The calls of a document opened and changed.                             *)
LEMMA AdmittedIds ==
    ASSUME NEW l \in Ledgers, NEW m \in Ledgers, Admitted(l, m)
    PROVE  \/ Ids(m) = Ids(l)
           \/ \E x \in Base \ Ids(l), cap \in Caps, replay \in Replays :
                /\ Admits(l, cap, replay)
                /\ Ids(m) \subseteq Ids(l) \cup {x}
                /\ \A id \in Ids(l) : Call(m, id) = Call(l, id)
                /\ x \in Ids(m) => Call(m, x) = NewCall(cap, replay)
<1>1. CASE \A o \in Owners : Len(m.calls[o]) = Len(l.calls[o])
  BY <1>1 DEF Ids
<1>2. ASSUME NEW o \in Owners, NEW cap \in Caps, NEW replay \in Replays,
             Admits(l, cap, replay), Len(l.calls[o]) < MaxCalls,
             m.calls = [l.calls EXCEPT ![o] = Append(l.calls[o], NewCall(cap, replay))]
      PROVE  \E x \in Base \ Ids(l) :
                /\ Ids(m) \subseteq Ids(l) \cup {x}
                /\ \A id \in Ids(l) : Call(m, id) = Call(l, id)
                /\ x \in Ids(m) => Call(m, x) = NewCall(cap, replay)
  <2> DEFINE c == NewCall(cap, replay)
             x == <<o, Len(l.calls[o]) + 1>>
  <2>1. l.calls \in [Owners -> Seq(CallType)] /\ l.calls[o] \in Seq(CallType)
    BY DEF Ledgers
  <2>2. x \in Base \ Ids(l)
    BY <1>2, <2>1, BudgetAssumption DEF Base, Ids
  <2> HIDE DEF c
  <2>3. m.calls[o] = Append(l.calls[o], c) /\ \A p \in Owners \ {o} : m.calls[p] = l.calls[p]
    BY <1>2, <2>1 DEF c
  <2>4. Len(m.calls[o]) = Len(l.calls[o]) + 1
        /\ m.calls[o][Len(l.calls[o]) + 1] = c
        /\ \A k \in 1..Len(l.calls[o]) : m.calls[o][k] = l.calls[o][k]
    BY <2>1, <2>3
  <2>5. ASSUME NEW id \in Ids(m), id # x PROVE id \in Ids(l)
    <3>1. id \in Owners \X (1..MaxCalls) /\ id = <<id[1], id[2]>> /\ id[2] <= Len(m.calls[id[1]])
          /\ id[1] \in Owners /\ id[2] \in Nat
      BY BudgetAssumption DEF Ids
    <3>2. CASE id[1] # o
      BY <2>3, <3>1, <3>2 DEF Ids
    <3>3. CASE id[1] = o
      <4>1. id[2] # Len(l.calls[o]) + 1 /\ id[2] <= Len(l.calls[o]) + 1
        BY <2>4, <2>5, <3>1, <3>3
      <4>2. id[2] <= Len(l.calls[o])
        BY <2>1, <3>1, <4>1
      <4> QED  BY <3>1, <3>3, <4>2 DEF Ids
    <3> QED  BY <3>2, <3>3
  <2>6. ASSUME NEW id \in Ids(l) PROVE Call(m, id) = Call(l, id)
    <3>1. id[1] \in Owners /\ id[2] \in DOMAIN l.calls[id[1]]
      BY RecordedCall
    <3>2. l.calls[id[1]] \in Seq(CallType)
      BY <2>1, <3>1
    <3>3. id[2] \in 1..Len(l.calls[id[1]])
      BY <3>1, <3>2
    <3> QED  BY <2>3, <2>4, <3>1, <3>3 DEF Call
  <2>7. Call(m, x) = c
    BY <2>4 DEF Call
  <2> QED  BY <2>2, <2>5, <2>6, <2>7 DEF c
<1>3. CASE \E o \in Owners, cap \in Caps, replay \in Replays :
              /\ Admits(l, cap, replay) /\ Len(l.calls[o]) < MaxCalls
              /\ m.calls = [l.calls EXCEPT ![o] = Append(l.calls[o], NewCall(cap, replay))]
  <2>1. PICK o \in Owners, cap \in Caps, replay \in Replays :
            /\ Admits(l, cap, replay) /\ Len(l.calls[o]) < MaxCalls
            /\ m.calls = [l.calls EXCEPT ![o] = Append(l.calls[o], NewCall(cap, replay))]
    BY <1>3
  <2>2. PICK x \in Base \ Ids(l) :
            /\ Ids(m) \subseteq Ids(l) \cup {x}
            /\ \A id \in Ids(l) : Call(m, id) = Call(l, id)
            /\ x \in Ids(m) => Call(m, x) = NewCall(cap, replay)
    BY <1>2, <2>1
  <2> QED  BY <2>1, <2>2
<1> QED  BY <1>1, <1>3 DEF Admitted

-----------------------------------------------------------------------------
(* What was spent is never taken back.                                     *)
LEMMA KnownGrows ==
    ASSUME NEW l \in Ledgers, NEW m \in Ledgers, Grows(l, m), IsFiniteSet(Ids(m))
    PROVE  KnownTurns(l) <= KnownTurns(m) /\ KnownTokens(l) <= KnownTokens(m)
<1>1. /\ Ids(l) \in SUBSET Ids(m) /\ Ids(m) \in SUBSET Base /\ Ids(l) \in SUBSET Base
      /\ Dispatched(l) \in SUBSET Dispatched(m) /\ Dispatched(m) \in SUBSET Ids(m)
  BY GrowsCalls DEF Ids, Base, Dispatched, Settled
<1>2. IsFiniteSet(Ids(l)) /\ IsFiniteSet(Dispatched(l)) /\ IsFiniteSet(Dispatched(m))
  BY <1>1, FS_Subset
<1>3. Cardinality(Dispatched(l)) <= Cardinality(Dispatched(m))
      /\ Cardinality(Dispatched(l)) \in Nat /\ Cardinality(Dispatched(m)) \in Nat
  BY <1>1, <1>2, FS_Subset, FS_CardinalityType
<1>4. l.turns \in Nat /\ m.turns \in Nat /\ l.tokens \in Nat /\ m.tokens \in Nat
      /\ l.turns <= m.turns /\ l.tokens <= m.tokens
  BY DEF Ledgers, Grows
<1>5. KnownTurns(l) <= KnownTurns(m)
  BY <1>3, <1>4 DEF KnownTurns
<1>6. ASSUME NEW id \in Ids(l) PROVE KnownOf(l)[id] <= KnownOf(m)[id]
  <2>1. id \in Base /\ KnownOf(l)[id] \in Nat /\ KnownOf(m)[id] \in Nat
    BY <1>1, Weights
  <2>2. CASE id \in Dispatched(l)
    <3>1. id \in Dispatched(m) /\ Call(m, id) = Call(l, id)
      BY <1>1, <2>2, GrowsCalls DEF Dispatched, Settled, Later
    <3>2. KnownOf(m)[id] = KnownOf(l)[id]
      BY <2>1, <2>2, <3>1 DEF KnownOf
    <3> QED  BY <2>1, <3>2
  <2>3. CASE id \notin Dispatched(l)
    <3>1. KnownOf(l)[id] = 0
      BY <2>1, <2>3 DEF KnownOf
    <3> QED  BY <2>1, <3>1
  <2> QED  BY <2>2, <2>3
<1>7. KnownOf(l) \in [Base -> Nat] /\ KnownOf(m) \in [Base -> Nat]
  BY Weights
<1>8. Total(KnownOf(l), Ids(l)) <= Total(KnownOf(m), Ids(l))
  BY <1>1, <1>2, <1>6, <1>7, TotalLeq
<1>9. Total(KnownOf(m), Ids(l)) <= Total(KnownOf(m), Ids(m))
  BY <1>1, <1>7, TotalWider
<1>10. /\ Total(KnownOf(l), Ids(l)) \in Nat /\ Total(KnownOf(m), Ids(l)) \in Nat
       /\ Total(KnownOf(m), Ids(m)) \in Nat
  BY <1>1, <1>2, <1>7, TotalType
<1>11. KnownTokens(l) = l.tokens + Total(KnownOf(l), Ids(l))
       /\ KnownTokens(m) = m.tokens + Total(KnownOf(m), Ids(m))
  BY <1>2, DocumentTotals
<1>12. KnownTokens(l) <= KnownTokens(m)
  BY <1>4, <1>8, <1>9, <1>10, <1>11
<1> QED  BY <1>5, <1>12

(* The calls of a document launch no more than the ceilings.               *)
LaunchesFunded(l) ==
    /\ IsFiniteSet(Ids(l))
    /\ Total(CostOf(l), Ids(l)) <= MaxTokens
    /\ Cardinality(Dispatched(l) \cup Live(l)) <= MaxTurns

(* A call costs no more than it asked for, and less when it is settled.    *)
LEMMA SettledCostsLess ==
    ASSUME NEW l \in Ledgers, NEW m \in Ledgers, Grows(l, m), NEW id \in Ids(l)
    PROVE  /\ CostOf(m)[id] <= CostOf(l)[id]
           /\ id \in Dispatched(m) \cup Live(m) => id \in Dispatched(l) \cup Live(l)
<1>1. id \in Base /\ id \in Ids(m) /\ Later(Call(l, id), Call(m, id))
  BY GrowsCalls DEF Ids, Base
<1>2. /\ Call(l, id).state \in {"live", "settled"} /\ Call(l, id).cap \in Nat
      /\ Call(m, id).state \in {"live", "settled"} /\ Call(m, id).usage \in Nat \cup {Missing}
      /\ CostOf(l)[id] \in Nat
  BY <1>1, RecordedCall, Weights
<1>3. CASE Call(l, id).state = "settled"
  <2>1. Call(m, id) = Call(l, id)
    BY <1>1, <1>3 DEF Later
  <2>2. /\ id \in Dispatched(m) <=> id \in Dispatched(l)
        /\ id \notin Live(m) /\ id \notin Live(l)
    BY <1>1, <1>3, <2>1 DEF Dispatched, Settled, Live
  <2>3. CostOf(m)[id] = CostOf(l)[id]
    BY <1>1, <2>1, <2>2 DEF CostOf
  <2> QED  BY <1>2, <2>2, <2>3
<1>4. CASE Call(l, id).state = "live"
  <2>1. id \in Live(l) /\ id \notin Dispatched(l)
    BY <1>4 DEF Live, Dispatched, Settled
  <2>2. CostOf(l)[id] = IF ~Call(l, id).replay THEN Call(l, id).cap ELSE 0
    BY <1>1, <2>1 DEF CostOf
  <2>3. Call(m, id).cap = Call(l, id).cap /\ Call(m, id).replay = Call(l, id).replay
    BY <1>1 DEF Later
  <2>4. CASE Call(l, id).replay
    <3>1. CostOf(l)[id] = 0
      BY <2>2, <2>4
    <3>2. CostOf(m)[id] = 0
      BY <1>1, <2>3, <2>4 DEF CostOf
    <3> QED  BY <2>1, <3>1, <3>2
  <2>5. CASE ~Call(l, id).replay
    <3>1. \/ CostOf(m)[id] = 0 \/ CostOf(m)[id] = Call(m, id).cap
          \/ CostOf(m)[id] = Call(m, id).usage /\ Call(m, id).usage <= Call(m, id).cap
      BY <1>1 DEF CostOf
    <3> QED  BY <1>2, <2>1, <2>2, <2>3, <2>5, <3>1
  <2> QED  BY <2>4, <2>5
<1> QED  BY <1>2, <1>3, <1>4

(* A reservation is admitted for what is left below the ceilings, and no   *)
(* other change of a transaction costs anything: the bound is kept.        *)
LEMMA LaunchedGrows ==
    ASSUME NEW l \in Ledgers, NEW m \in Ledgers, Grows(l, m), Admitted(l, m), LaunchesFunded(l)
    PROVE  LaunchesFunded(m)
<1>1. /\ Ids(l) \in SUBSET Base /\ Ids(m) \in SUBSET Base /\ Ids(l) \in SUBSET Ids(m)
      /\ IsFiniteSet(Ids(l))
  BY GrowsCalls DEF Ids, Base, LaunchesFunded
<1>2. CostOf(l) \in [Base -> Nat] /\ CostOf(m) \in [Base -> Nat]
  BY Weights
<1>3. Total(CostOf(m), Ids(l)) <= Total(CostOf(l), Ids(l))
  BY <1>1, <1>2, SettledCostsLess, TotalLeq
<1>4. Total(CostOf(m), Ids(l)) \in Nat /\ Total(CostOf(l), Ids(l)) \in Nat
  BY <1>1, <1>2, TotalType
<1> DEFINE P == Dispatched(l) \cup Live(l)
           Q == Dispatched(m) \cup Live(m)
<1>5. P \in SUBSET Ids(l) /\ Q \in SUBSET Ids(m) /\ \A id \in Ids(l) : id \in Q => id \in P
  BY SettledCostsLess DEF Dispatched, Settled, Live
<1>6. IsFiniteSet(P) /\ Cardinality(P) \in Nat
  BY <1>1, <1>5, FS_Subset, FS_CardinalityType
<1>7. MaxTokens \in Nat /\ MaxTurns \in Nat
  BY BudgetAssumption
<1>8. CASE Ids(m) = Ids(l)
  <2>1. Total(CostOf(m), Ids(m)) <= MaxTokens
    BY <1>3, <1>4, <1>7, <1>8 DEF LaunchesFunded
  <2>2. Q \in SUBSET P
    BY <1>5, <1>8
  <2> HIDE DEF P, Q
  <2>3. Cardinality(Q) <= Cardinality(P) /\ Cardinality(Q) \in Nat
    BY <1>6, <2>2, FS_Subset, FS_CardinalityType
  <2>4. Cardinality(Q) <= MaxTurns
    BY <1>6, <1>7, <2>3 DEF LaunchesFunded, P
  <2> QED  BY <1>1, <1>8, <2>1, <2>4 DEF LaunchesFunded, Q
<1>9. ASSUME NEW x \in Base \ Ids(l), NEW cap \in Caps, NEW replay \in Replays,
             Admits(l, cap, replay), Ids(m) \subseteq Ids(l) \cup {x},
             x \in Ids(m) => Call(m, x) = NewCall(cap, replay)
      PROVE  LaunchesFunded(m)
  <2> DEFINE T == Ids(l) \cup {x}
             tok == IF replay THEN 0 ELSE cap
  <2>1. IsFiniteSet(T) /\ T \in SUBSET Base /\ Ids(m) \in SUBSET T
    BY <1>1, <1>9, FS_AddElement
  <2>2. IsFiniteSet(Ids(m))
    BY <2>1, FS_Subset
  <2>3. cap \in Nat /\ tok \in Nat
    BY BudgetAssumption
  <2>4. CostOf(m)[x] <= tok
    <3>1. CASE x \notin Ids(m)
      <4>1. CostOf(m)[x] = 0
        BY <3>1 DEF CostOf, Dispatched, Settled, Live
      <4> QED  BY <2>3, <4>1
    <3>2. CASE x \in Ids(m)
      <4>1. Call(m, x).state = "live" /\ Call(m, x).cap = cap /\ Call(m, x).replay = replay
        BY <1>9, <3>2 DEF NewCall
      <4>2. x \in Live(m) /\ x \notin Dispatched(m)
        BY <3>2, <4>1 DEF Live, Dispatched, Settled
      <4>3. CostOf(m)[x] = tok
        BY <4>1, <4>2 DEF CostOf
      <4> QED  BY <2>3, <4>3
    <3> QED  BY <3>1, <3>2
  <2>5. Total(CostOf(m), T) = Total(CostOf(m), Ids(l)) + CostOf(m)[x] /\ CostOf(m)[x] \in Nat
    BY <1>1, <1>2, TotalAdd
  <2>6. Total(CostOf(m), Ids(m)) <= Total(CostOf(m), T) /\ Total(CostOf(m), Ids(m)) \in Nat
        /\ Total(CostOf(m), T) \in Nat
    <3> HIDE DEF T
    <3> QED  BY <1>1, <1>2, <2>1, <2>2, TotalWider, TotalType
  <2>7. HeldTokens(l) + tok <= MaxTokens /\ HeldTurns(l) + 1 <= MaxTurns
    BY <1>9 DEF Admits
  <2>8. Total(CostOf(l), Ids(l)) <= HeldTokens(l) /\ HeldTokens(l) \in Nat
    <3> DEFINE z == IF l.unknown > 0 THEN MaxTokens ELSE 0
    <3>1. l.tokens \in Nat /\ z \in Nat
      BY <1>7 DEF Ledgers
    <3>2. HeldTokens(l) = l.tokens + z + Total(CostOf(l), Ids(l)) + Overrun(l) /\ Overrun(l) \in Nat
      BY <1>1, HeldIsCost
    <3> HIDE DEF z
    <3> QED  BY <1>4, <3>1, <3>2
  <2>9. Total(CostOf(m), Ids(m)) <= MaxTokens
    <3> HIDE DEF tok, T
    <3> QED  BY <1>3, <1>4, <1>7, <2>3, <2>4, <2>5, <2>6, <2>7, <2>8
  <2>10. HeldTurns(l) = l.turns + Cardinality(Dispatched(l)) + Cardinality(Live(l))
         /\ l.turns \in Nat
    BY DEF HeldTurns, KnownTurns, Ledgers
  <2>11. Cardinality(P) = Cardinality(Dispatched(l)) + Cardinality(Live(l))
         /\ Cardinality(Dispatched(l)) \in Nat /\ Cardinality(Live(l)) \in Nat
    <3>1. Dispatched(l) \in SUBSET P /\ Live(l) \in SUBSET P /\ Dispatched(l) \cap Live(l) = {}
      BY DEF Dispatched, Settled, Live
    <3>2. IsFiniteSet(Dispatched(l)) /\ IsFiniteSet(Live(l))
      BY <1>6, <3>1, FS_Subset
    <3>3. Cardinality(Dispatched(l)) \in Nat /\ Cardinality(Live(l)) \in Nat
      BY <3>2, FS_CardinalityType
    <3>4. Cardinality(P) = Cardinality(Dispatched(l)) + Cardinality(Live(l)) - Cardinality({})
      BY <3>1, <3>2, FS_Union
    <3> QED  BY <3>3, <3>4, FS_EmptySet
  <2>12. Q \in SUBSET (P \cup {x})
    BY <1>5, <1>9
  <2> HIDE DEF P, Q
  <2>13. IsFiniteSet(P \cup {x}) /\ Cardinality(P \cup {x}) <= Cardinality(P) + 1
         /\ Cardinality(P \cup {x}) \in Nat
    <3>1. IsFiniteSet(P \cup {x})
          /\ Cardinality(P \cup {x}) = IF x \in P THEN Cardinality(P) ELSE Cardinality(P) + 1
      BY <1>6, FS_AddElement
    <3> QED  BY <1>6, <3>1
  <2>14. Cardinality(Q) <= Cardinality(P \cup {x}) /\ Cardinality(Q) \in Nat
    BY <2>12, <2>13, FS_Subset, FS_CardinalityType
  <2>15. Cardinality(Q) <= MaxTurns
    BY <1>6, <1>7, <2>7, <2>10, <2>11, <2>13, <2>14
  <2> QED  BY <2>2, <2>9, <2>15 DEF LaunchesFunded, Q
<1> QED  BY <1>8, <1>9, AdmittedIds

-----------------------------------------------------------------------------
(* The recorded exhaustion is one that was spent.                          *)
Actual(l) ==
    /\ l.exhausted = "turns" => KnownTurns(l) >= MaxTurns
    /\ l.exhausted = "tokens" => KnownTokens(l) >= MaxTokens
    /\ l.exhausted = "queries" => l.queries >= MaxQueries
    /\ l.exhausted = "packages" => l.packages >= MaxPackages
    /\ l.exhausted = "timeout" => Elapsed(l, l.observed) >= Timeout

(* What the totals are computed from.                                      *)
LEMMA SameTotals ==
    ASSUME NEW l, NEW m, NEW t, SameButExhausted(l, m)
    PROVE  /\ KnownTurns(m) = KnownTurns(l) /\ KnownTokens(m) = KnownTokens(l)
           /\ Elapsed(m, t) = Elapsed(l, t)
           /\ LaunchesFunded(m) = LaunchesFunded(l)
<1>1. m.calls = l.calls /\ m.turns = l.turns /\ m.tokens = l.tokens
  BY DEF SameButExhausted
<1>2. /\ Ids(m) = Ids(l) /\ Live(m) = Live(l) /\ Dispatched(m) = Dispatched(l)
      /\ CostOf(m) = CostOf(l)
  BY <1>1, SameCallsSame
<1>3. KnownTurns(m) = KnownTurns(l)
  BY <1>1, <1>2 DEF KnownTurns
<1>4. KnownTokens(m) = KnownTokens(l)
  BY <1>1 DEF KnownTokens, Dispatched, Settled, Ids, Call
<1>5. Elapsed(m, t) = Elapsed(l, t)
  BY DEF Elapsed, ActiveSeconds, SameButExhausted
<1>6. LaunchesFunded(m) = LaunchesFunded(l)
  BY <1>2 DEF LaunchesFunded
<1> QED  BY <1>3, <1>4, <1>5, <1>6

(* The exhaustion that saving records is one that was spent, and a         *)
(* recorded one is kept.                                                   *)
LEMMA SavedActual ==
    ASSUME NEW l, NEW m, SameButExhausted(l, m), m.exhausted = Exhausted(l, l.observed), Actual(l)
    PROVE  /\ Actual(m)
           /\ l.exhausted # NotExhausted => m.exhausted = l.exhausted
<1>1. /\ KnownTurns(m) = KnownTurns(l) /\ KnownTokens(m) = KnownTokens(l)
      /\ Elapsed(m, l.observed) = Elapsed(l, l.observed)
      /\ m.queries = l.queries /\ m.packages = l.packages /\ m.observed = l.observed
  <2>1. /\ KnownTurns(m) = KnownTurns(l) /\ KnownTokens(m) = KnownTokens(l)
        /\ Elapsed(m, l.observed) = Elapsed(l, l.observed)
    BY SameTotals
  <2> QED  BY <2>1 DEF SameButExhausted
<1>2. l.exhausted # NotExhausted => m.exhausted = l.exhausted
  BY DEF Exhausted
<1>3. l.exhausted = NotExhausted =>
        /\ m.exhausted = "turns" => KnownTurns(l) >= MaxTurns
        /\ m.exhausted = "tokens" => KnownTokens(l) >= MaxTokens
        /\ m.exhausted = "queries" => l.queries >= MaxQueries
        /\ m.exhausted = "packages" => l.packages >= MaxPackages
        /\ m.exhausted = "timeout" => Elapsed(l, l.observed) >= Timeout
  BY DEF Exhausted, NotExhausted
<1>4. CASE l.exhausted = NotExhausted
  BY <1>1, <1>2, <1>3, <1>4 DEF Actual
<1>5. CASE l.exhausted # NotExhausted
  BY <1>1, <1>2, <1>5 DEF Actual
<1> QED  BY <1>4, <1>5

(* The elapsed time is a number.                                           *)
LEMMA ElapsedType ==
    ASSUME NEW l \in Ledgers, NEW t \in Nat PROVE Elapsed(l, t) \in Int
<1>1. l.activeSeconds \in Nat /\ l.activeSince \in Int /\ l.startedAt \in Nat
  BY DEF Ledgers
<1> QED  BY <1>1 DEF Elapsed, ActiveSeconds

(* The elapsed time never runs back.                                       *)
LEMMA ElapsedGrows ==
    ASSUME NEW l \in Ledgers, NEW t \in Nat, NEW u \in Nat, t <= u
    PROVE  Elapsed(l, t) <= Elapsed(l, u)
<1>1. l.activeSeconds \in Nat /\ l.activeSince \in Int /\ l.startedAt \in Nat
  BY DEF Ledgers
<1> QED  BY <1>1 DEF Elapsed, ActiveSeconds

(* The turns and tokens accounted for are numbers.                         *)
LEMMA KnownTypes ==
    ASSUME NEW l \in Ledgers, IsFiniteSet(Ids(l))
    PROVE  KnownTurns(l) \in Nat /\ KnownTokens(l) \in Nat
<1>1. Ids(l) \in SUBSET Base /\ Dispatched(l) \in SUBSET Ids(l)
  BY DEF Ids, Base, Dispatched, Settled
<1>2. IsFiniteSet(Dispatched(l))
  BY <1>1, FS_Subset
<1>3. Cardinality(Dispatched(l)) \in Nat
  BY <1>2, FS_CardinalityType
<1>4. KnownOf(l) \in [Base -> Nat]
  BY Weights
<1>5. Total(KnownOf(l), Ids(l)) \in Nat
  BY <1>1, <1>4, TotalType
<1>6. KnownTokens(l) = l.tokens + Total(KnownOf(l), Ids(l))
  BY DocumentTotals
<1>7. l.turns \in Nat /\ l.tokens \in Nat
  BY DEF Ledgers
<1> QED  BY <1>3, <1>5, <1>6, <1>7 DEF KnownTurns

(* What was spent stays spent as the document grows.                       *)
LEMMA ActualGrows ==
    ASSUME NEW l \in Ledgers, NEW m \in Ledgers, Grows(l, m), IsFiniteSet(Ids(m)),
           IsFiniteSet(Ids(l)), Actual(l)
    PROVE  Actual(m)
<1>1. KnownTurns(l) <= KnownTurns(m) /\ KnownTokens(l) <= KnownTokens(m)
  BY KnownGrows
<1>2. KnownTurns(l) \in Nat /\ KnownTokens(l) \in Nat /\ KnownTurns(m) \in Nat /\ KnownTokens(m) \in Nat
  BY KnownTypes
<1>3. /\ l.queries \in Nat /\ m.queries \in Nat /\ l.packages \in Nat /\ m.packages \in Nat
      /\ l.queries <= m.queries /\ l.packages <= m.packages /\ m.exhausted = l.exhausted
      /\ l.observed = m.observed
  BY DEF Ledgers, Grows
<1>4. Elapsed(m, m.observed) = Elapsed(l, l.observed)
  BY DEF Grows, Elapsed
<1>5. MaxTurns \in Nat /\ MaxTokens \in Nat /\ MaxQueries \in Nat /\ MaxPackages \in Nat
  BY BudgetAssumption
<1>6. m.exhausted = "turns" => KnownTurns(m) >= MaxTurns
  BY <1>1, <1>2, <1>3, <1>5 DEF Actual
<1>7. m.exhausted = "tokens" => KnownTokens(m) >= MaxTokens
  BY <1>1, <1>2, <1>3, <1>5 DEF Actual
<1>8. m.exhausted = "queries" => m.queries >= MaxQueries
  BY <1>3, <1>5 DEF Actual
<1>9. m.exhausted = "packages" => m.packages >= MaxPackages
  BY <1>3, <1>5 DEF Actual
<1>10. m.exhausted = "timeout" => Elapsed(m, m.observed) >= Timeout
  BY <1>3, <1>4 DEF Actual
<1> QED  BY <1>6, <1>7, <1>8, <1>9, <1>10 DEF Actual

(* The invariant of the spend.                                             *)
SpendInv == BudgetInv /\ LaunchesFunded(ledger) /\ Actual(ledger)

(* What opening the document keeps.                                        *)
LEMMA OpenedSpend ==
    ASSUME SpendInv
    PROVE  /\ LaunchesFunded(Opened) /\ Actual(Opened) /\ Opened.startedAt = ledger.startedAt
           /\ KnownTurns(Opened) = KnownTurns(ledger) /\ KnownTokens(Opened) = KnownTokens(ledger)
           /\ Elapsed(Opened, now) = Elapsed(ledger, now)
           /\ ledger.exhausted # NotExhausted => Opened.exhausted = ledger.exhausted
<1> DEFINE l == [ledger EXCEPT !.observed = now]
<1>1. ledger \in Ledgers /\ now \in Nat /\ ledger.observed <= now /\ ledger.observed \in Nat
  BY BudgetAssumption, SMTT(30) DEF SpendInv, BudgetInv, Sound, Ledgers
<1>2. /\ l \in Ledgers /\ l.observed = now
      /\ l.calls = ledger.calls /\ l.turns = ledger.turns /\ l.tokens = ledger.tokens
      /\ l.queries = ledger.queries /\ l.packages = ledger.packages
      /\ l.activeSeconds = ledger.activeSeconds /\ l.activeSince = ledger.activeSince
      /\ l.startedAt = ledger.startedAt /\ l.exhausted = ledger.exhausted
  BY <1>1 DEF Ledgers
<1>3. /\ Opened \in Ledgers /\ SameButExhausted(l, Opened)
      /\ Opened.exhausted = Exhausted(l, now)
  BY <1>1, OpenedFields
<1> HIDE DEF l
<1>4. /\ Ids(l) = Ids(ledger) /\ Live(l) = Live(ledger) /\ Dispatched(l) = Dispatched(ledger)
      /\ CostOf(l) = CostOf(ledger)
  BY <1>2, SameCallsSame
<1>5. LaunchesFunded(l)
  BY <1>4 DEF SpendInv, LaunchesFunded
<1>6. KnownTurns(l) = KnownTurns(ledger)
  BY <1>2, <1>4 DEF KnownTurns
<1>7. KnownTokens(l) = KnownTokens(ledger)
  BY <1>2 DEF KnownTokens, Dispatched, Settled, Ids, Call
<1>8. Elapsed(l, now) = Elapsed(ledger, now)
  BY <1>2 DEF Elapsed, ActiveSeconds
<1>9. Elapsed(ledger, ledger.observed) <= Elapsed(l, l.observed)
      /\ Elapsed(ledger, ledger.observed) \in Int /\ Elapsed(l, l.observed) \in Int
  BY <1>1, <1>2, <1>8, ElapsedGrows, ElapsedType
<1>10. Timeout \in Int
  BY BudgetAssumption
<1>11. Actual(l)
  BY <1>2, <1>6, <1>7, <1>9, <1>10 DEF SpendInv, Actual
<1>12. Actual(Opened) /\ (l.exhausted # NotExhausted => Opened.exhausted = l.exhausted)
  BY <1>2, <1>3, <1>11, SavedActual
<1>13. /\ KnownTurns(Opened) = KnownTurns(l) /\ KnownTokens(Opened) = KnownTokens(l)
       /\ Elapsed(Opened, now) = Elapsed(l, now) /\ LaunchesFunded(Opened) = LaunchesFunded(l)
  BY <1>3, SameTotals
<1>14. Opened.startedAt = ledger.startedAt
  BY <1>2, <1>3 DEF SameButExhausted
<1> QED  BY <1>2, <1>5, <1>6, <1>7, <1>8, <1>12, <1>13, <1>14

(* What a transaction keeps of the spend, and what it may not lower.       *)
LEMMA TransactsSpend ==
    ASSUME SpendInv, NEW m, Transacts(m)
    PROVE  /\ LaunchesFunded(ledger') /\ Actual(ledger')
           /\ Opened \in Ledgers /\ m \in Ledgers /\ SameButExhausted(m, ledger')
           /\ Opened.exhausted # NotExhausted => ledger'.exhausted = Opened.exhausted
           /\ KnownTurns(ledger') >= KnownTurns(ledger)
           /\ KnownTokens(ledger') >= KnownTokens(ledger)
           /\ Elapsed(ledger', now') >= Elapsed(ledger, now)
<1>1. Opened \in Ledgers /\ Opened.observed = now /\ now \in Nat /\ ledger \in Ledgers
  BY OpenedSound DEF SpendInv, BudgetInv, Sound
<1>2. /\ m \in Ledgers /\ m.observed = now /\ Grows(Opened, m) /\ Admitted(Opened, m)
      /\ ledger' = Saved(m) /\ now' = now
  BY DEF Transacts, Sound
<1>3. /\ LaunchesFunded(Opened) /\ Actual(Opened)
      /\ KnownTurns(Opened) = KnownTurns(ledger) /\ KnownTokens(Opened) = KnownTokens(ledger)
      /\ Elapsed(Opened, now) = Elapsed(ledger, now)
  BY OpenedSpend
<1>4. LaunchesFunded(m)
  BY <1>1, <1>2, <1>3, LaunchedGrows
<1>5. IsFiniteSet(Ids(m)) /\ IsFiniteSet(Ids(Opened))
  BY <1>3, <1>4 DEF LaunchesFunded
<1>6. Actual(m)
  BY <1>1, <1>2, <1>3, <1>5, ActualGrows
<1>7. SameButExhausted(m, Saved(m)) /\ Saved(m).exhausted = Exhausted(m, m.observed)
  BY <1>2, SavedFields
<1>8. Actual(Saved(m)) /\ (m.exhausted # NotExhausted => Saved(m).exhausted = m.exhausted)
  BY <1>6, <1>7, SavedActual
<1>9. /\ KnownTurns(Saved(m)) = KnownTurns(m) /\ KnownTokens(Saved(m)) = KnownTokens(m)
      /\ Elapsed(Saved(m), now) = Elapsed(m, now) /\ LaunchesFunded(Saved(m)) = LaunchesFunded(m)
  BY <1>7, SameTotals
<1>10. KnownTurns(Opened) <= KnownTurns(m) /\ KnownTokens(Opened) <= KnownTokens(m)
  BY <1>1, <1>2, <1>5, KnownGrows
<1>11. Elapsed(m, now) = Elapsed(Opened, now)
  BY <1>1, <1>2 DEF Grows, Elapsed
<1>12. Elapsed(ledger, now) \in Int
  BY <1>1, ElapsedType
<1>13. m.exhausted = Opened.exhausted
  BY <1>2 DEF Grows
<1>14. /\ KnownTurns(Opened) \in Nat /\ KnownTokens(Opened) \in Nat
       /\ KnownTurns(m) \in Nat /\ KnownTokens(m) \in Nat
  BY <1>1, <1>2, <1>5, KnownTypes
<1>15. KnownTurns(Saved(m)) >= KnownTurns(ledger) /\ KnownTokens(Saved(m)) >= KnownTokens(ledger)
       /\ Elapsed(Saved(m), now) >= Elapsed(ledger, now)
  BY <1>3, <1>9, <1>10, <1>11, <1>12, <1>14
<1> QED  BY <1>1, <1>2, <1>4, <1>7, <1>8, <1>9, <1>13, <1>15

(* Nothing is spent or held at the start.                                  *)
LEMMA SpendInit == BudgetInit => SpendInv
<1> SUFFICES ASSUME BudgetInit PROVE SpendInv
  OBVIOUS
<1>1. Fresh \in Ledgers /\ ledger = Saved(Fresh) /\ now = 0 /\ Fresh.observed = 0
  BY FreshSound DEF BudgetInit, Saved, Sound
<1>2. Fresh.exhausted = NotExhausted /\ Fresh.calls = [o \in Owners |-> <<>>]
  BY DEF Fresh
<1>3. Actual(Fresh)
  BY <1>2 DEF Actual, NotExhausted
<1>4. Ids(Fresh) = {}
  BY <1>2, BudgetAssumption DEF Ids
<1>5. Dispatched(Fresh) \cup Live(Fresh) = {}
  BY <1>4 DEF Dispatched, Settled, Live
<1>6. MaxTokens \in Nat /\ MaxTurns \in Nat
  BY BudgetAssumption
<1>7. LaunchesFunded(Fresh)
  <2>1. Total(CostOf(Fresh), {}) = 0 /\ Cardinality({}) = 0 /\ IsFiniteSet({})
    BY TotalEmpty, FS_EmptySet
  <2>2. Total(CostOf(Fresh), Ids(Fresh)) = 0
    BY <1>4, <2>1
  <2>3. Cardinality(Dispatched(Fresh) \cup Live(Fresh)) = 0
    BY <1>5, <2>1
  <2> QED  BY <1>4, <1>6, <2>1, <2>2, <2>3 DEF LaunchesFunded
<1>8. SameButExhausted(Fresh, ledger) /\ ledger.exhausted = Exhausted(Fresh, Fresh.observed)
  BY <1>1, SavedFields
<1>9. Actual(ledger)
  BY <1>3, <1>8, SavedActual
<1>10. LaunchesFunded(ledger)
  BY <1>7, <1>8, SameTotals
<1> QED  BY <1>9, <1>10, BudgetInitInv DEF SpendInv

(* Every operation keeps the invariant of the spend.                       *)
LEMMA SpendNext == SpendInv /\ [BudgetNext]_budgetVars => SpendInv'
<1> SUFFICES ASSUME SpendInv, [BudgetNext]_budgetVars PROVE SpendInv'
  OBVIOUS
<1>1. BudgetInv'
  BY BudgetNextInv DEF SpendInv
<1>2. CASE UNCHANGED ledger
  BY <1>1, <1>2 DEF SpendInv
<1>3. ASSUME NEW m, Transacts(m) PROVE SpendInv'
  BY <1>1, <1>3, TransactsSpend DEF SpendInv
<1>4. BudgetInv
  BY DEF SpendInv
<1> QED  BY <1>2, <1>3, <1>4, StepTransacts DEF Tick, budgetVars

(* It holds throughout.                                                    *)
LEMMA SpendInvariance == BudgetSpec => []SpendInv
  BY SpendInit, SpendNext, PTL DEF BudgetSpec

(* The calls launched through reserve_call, counted at most at their       *)
(* maxima, never exceed the ceilings, however reservations, settlements    *)
(* and reconciliations of any owners interleave: admission counts what is  *)
(* held as well as what was reported.                                      *)
THEOREM LaunchesBounded == BudgetSpec => []LaunchBound
<1>1. ASSUME SpendInv PROVE LaunchBound
  <2>1. ledger \in Ledgers /\ LaunchesFunded(ledger)
    BY <1>1 DEF SpendInv, BudgetInv, Sound
  <2> DEFINE z == IF ledger.unknown > 0 THEN MaxTokens ELSE 0
  <2>2. MaxTokens \in Nat /\ MaxTurns \in Nat /\ ledger.tokens \in Nat /\ z \in Nat
    BY <2>1, BudgetAssumption DEF Ledgers
  <2>3. /\ HeldTokens(ledger) = ledger.tokens + z + Total(CostOf(ledger), Ids(ledger)) + Overrun(ledger)
        /\ Total(CostOf(ledger), Ids(ledger)) \in Nat /\ Overrun(ledger) \in Nat
    BY <2>1, HeldIsCost DEF LaunchesFunded
  <2>4. HeldTokens(ledger) <= MaxTokens + Overrun(ledger) + ledger.tokens + z
    <3> HIDE DEF z
    <3> QED  BY <2>1, <2>2, <2>3 DEF LaunchesFunded
  <2>5. /\ Dispatched(ledger) \in SUBSET Ids(ledger) /\ Live(ledger) \in SUBSET Ids(ledger)
        /\ Dispatched(ledger) \cap Live(ledger) = {} /\ IsFiniteSet(Ids(ledger))
    BY <2>1 DEF Dispatched, Settled, Live, LaunchesFunded
  <2>6. IsFiniteSet(Dispatched(ledger)) /\ IsFiniteSet(Live(ledger))
    BY <2>5, FS_Subset
  <2>7. Cardinality(Dispatched(ledger)) \in Nat /\ Cardinality(Live(ledger)) \in Nat
    BY <2>6, FS_CardinalityType
  <2>8. Cardinality(Dispatched(ledger) \cup Live(ledger))
          = Cardinality(Dispatched(ledger)) + Cardinality(Live(ledger)) - Cardinality({})
    BY <2>5, <2>6, FS_Union
  <2>9. Cardinality(Dispatched(ledger)) + Cardinality(Live(ledger)) <= MaxTurns
    BY <2>1, <2>7, <2>8, FS_EmptySet DEF LaunchesFunded
  <2> QED  BY <2>4, <2>9 DEF LaunchBound
<1> QED  BY <1>1, SpendInvariance, PTL

(* The sticky exhaustion that _update_exhaustion records names a ceiling   *)
(* that has really been reached by what was spent, never one that open     *)
(* reservations only pressed against.                                      *)
THEOREM ExhaustionIsSpent == BudgetSpec => []ExhaustedIsActual
<1>1. SpendInv => ExhaustedIsActual
  BY DEF SpendInv, Actual, ExhaustedIsActual
<1> QED  BY <1>1, SpendInvariance, PTL

(* No operation takes back what the document records: the turns and tokens *)
(* accounted for and the elapsed time never shrink, a settled call and a   *)
(* closed owner stay as they are, and a recorded exhaustion stays and lets *)
(* no package be counted.                                                  *)
THEOREM BudgetAppendOnly == BudgetSpec => AppendOnly
<1> DEFINE A ==
        /\ \A id \in Settled(ledger) : Call(ledger', id) = Call(ledger, id)
        /\ \A o \in Owners : ledger.closed[o] # "no"
              => ledger'.closed[o] = ledger.closed[o] /\ ledger'.stopped[o] = ledger.stopped[o]
        /\ ledger.exhausted # NotExhausted
              => ledger'.exhausted = ledger.exhausted /\ ledger'.packages = ledger.packages
        /\ KnownTurns(ledger') >= KnownTurns(ledger)
        /\ KnownTokens(ledger') >= KnownTokens(ledger)
        /\ Elapsed(ledger', now') >= Elapsed(ledger, now)
<1>1. ASSUME SpendInv, BudgetNext PROVE A
  <2>1. BudgetInv /\ ledger \in Ledgers /\ now \in Nat /\ IsFiniteSet(Ids(ledger))
    BY <1>1, BudgetAssumption DEF SpendInv, BudgetInv, Sound, LaunchesFunded
  <2>2. CASE Tick
    <3>1. ledger' = ledger /\ now' = now + 1
      BY <2>2 DEF Tick
    <3>2. KnownTurns(ledger) \in Nat /\ KnownTokens(ledger) \in Nat
      BY <2>1, KnownTypes
    <3>3. Elapsed(ledger, now) <= Elapsed(ledger, now + 1)
          /\ Elapsed(ledger, now) \in Int /\ Elapsed(ledger, now + 1) \in Int
      BY <2>1, ElapsedGrows, ElapsedType
    <3>4. KnownTurns(ledger') = KnownTurns(ledger) /\ KnownTokens(ledger') = KnownTokens(ledger)
          /\ Elapsed(ledger', now') = Elapsed(ledger, now + 1)
      BY <3>1
    <3> QED  BY <3>1, <3>2, <3>3, <3>4
  <2>3. ASSUME NEW m, Transacts(m) PROVE A
    <3>1. /\ Opened.calls = ledger.calls /\ Opened.closed = ledger.closed
          /\ Opened.stopped = ledger.stopped /\ Opened.packages = ledger.packages
      BY <2>1, OpenedSound
    <3>2. /\ Opened \in Ledgers /\ m \in Ledgers /\ SameButExhausted(m, ledger')
          /\ Opened.exhausted # NotExhausted => ledger'.exhausted = Opened.exhausted
          /\ KnownTurns(ledger') >= KnownTurns(ledger)
          /\ KnownTokens(ledger') >= KnownTokens(ledger)
          /\ Elapsed(ledger', now') >= Elapsed(ledger, now)
      BY <1>1, <2>3, TransactsSpend
    <3>3. ledger.exhausted # NotExhausted => Opened.exhausted = ledger.exhausted
      BY <1>1, OpenedSpend
    <3>4. Grows(Opened, m)
      BY <2>3 DEF Transacts
    <3>5. ledger'.calls = m.calls /\ ledger'.closed = m.closed /\ ledger'.stopped = m.stopped
          /\ ledger'.packages = m.packages
      BY <3>2 DEF SameButExhausted
    <3>6. ASSUME NEW id \in Settled(ledger) PROVE Call(ledger', id) = Call(ledger, id)
      <4>1. id \in Settled(Opened) /\ Call(Opened, id) = Call(ledger, id)
        BY <3>1, SameCallsSame
      <4>2. Call(m, id) = Call(Opened, id)
        BY <3>2, <3>4, <4>1, GrowsCalls DEF Settled, Later
      <4> QED  BY <3>5, <4>1, <4>2 DEF Call
    <3>7. \A o \in Owners : ledger.closed[o] # "no"
            => ledger'.closed[o] = ledger.closed[o] /\ ledger'.stopped[o] = ledger.stopped[o]
      BY <3>1, <3>4, <3>5 DEF Grows
    <3>8. ledger.exhausted # NotExhausted
            => ledger'.exhausted = ledger.exhausted /\ ledger'.packages = ledger.packages
      BY <3>1, <3>2, <3>3, <3>4, <3>5 DEF Grows
    <3> QED  BY <3>2, <3>6, <3>7, <3>8
  <2> QED  BY <1>1, <2>1, <2>2, <2>3, StepTransacts
<1>2. SpendInv /\ [BudgetNext]_budgetVars => [A]_budgetVars
  BY <1>1
<1>3. AppendOnly <=> [][A]_budgetVars
  BY DEF AppendOnly
<1> QED  BY <1>2, <1>3, SpendInvariance, PTL DEF BudgetSpec

-----------------------------------------------------------------------------
(* What the operations leave in the document for each owner.               *)

(* A transaction writes what it was said to write.                         *)
LEMMA WritesLedger ==
    ASSUME BudgetInv, NEW m, NEW a, NEW b, NEW s, Writes(m, a, b, s)
    PROVE  ledger'.calls = a /\ ledger'.closed = b /\ ledger'.started = s
<1>1. m \in Ledgers /\ ledger' = Saved(m)
  BY DEF Writes, Transacts, Sound
<1>2. SameButExhausted(m, Saved(m))
  BY <1>1, SavedFields
<1> QED  BY <1>1, <1>2 DEF Writes, SameButExhausted

(* The owners' part of the document is as it was.                          *)
SameOwners ==
    /\ ledger'.calls = ledger.calls /\ ledger'.closed = ledger.closed
    /\ ledger'.started = ledger.started

(* A transaction that rewrites the owners' part changes no owner.          *)
LEMMA RewritesOwners == ASSUME BudgetInv, NEW m, Rewrites(m) PROVE SameOwners
<1>1. /\ Opened.calls = ledger.calls /\ Opened.closed = ledger.closed
      /\ Opened.started = ledger.started
  BY OpenedSound
<1> QED  BY <1>1, WritesLedger DEF Rewrites, SameOwners

(* Snapshots, packages, queries and the clock touch no owner.              *)
LEMMA QuietEffect ==
    ASSUME BudgetInv,
           Snapshot \/ ReservePackage \/ (\E n \in Nat : ChargeQueries(n)) \/ Tick
             \/ UNCHANGED budgetVars
    PROVE  SameOwners
<1>1. CASE Snapshot \/ ReservePackage \/ \E n \in Nat : ChargeQueries(n)
  BY <1>1, SnapshotKeeps, PackageKeeps, QueriesKeep, RewritesOwners
<1>2. CASE Tick \/ UNCHANGED budgetVars
  BY <1>2 DEF Tick, budgetVars, SameOwners
<1> QED  BY <1>1, <1>2

(* Nothing changed for the owner p.                                        *)
SameOwner(p) ==
    /\ ledger'.calls[p] = ledger.calls[p] /\ ledger'.closed[p] = ledger.closed[p]
    /\ ledger'.started[p] = ledger.started[p]

(* That holds of each owner.                                               *)
LEMMA SameOwnersEach == ASSUME SameOwners, NEW p PROVE SameOwner(p)
  BY DEF SameOwners, SameOwner

(* Nothing changed for any owner but o.                                    *)
OnlyOwner(o) == \A p \in Owners \ {o} : SameOwner(p)

(* A reservation appends one open call to its owner's.                     *)
LEMMA ReserveEffect ==
    ASSUME BudgetInv, NEW o \in Owners, NEW cap \in Caps, NEW replay \in Replays,
           ReserveCall(o, cap, replay)
    PROVE  /\ OnlyOwner(o)
           /\ ledger'.calls[o] = Append(ledger.calls[o], NewCall(cap, replay))
           /\ ledger'.closed[o] = ledger.closed[o] /\ ledger'.started[o] = ledger.started[o]
<1>1. /\ Opened.calls = ledger.calls /\ Opened.closed = ledger.closed
      /\ Opened.started = ledger.started /\ Opened \in Ledgers
  BY OpenedSound
<1>2. ledger.calls \in [Owners -> Seq(CallType)]
  BY <1>1 DEF Ledgers
<1>3. \E m : Writes(m, [Opened.calls EXCEPT ![o] = Append(Opened.calls[o], NewCall(cap, replay))],
                    Opened.closed, Opened.started)
  BY ReserveKeeps
<1>4. ledger'.calls = [ledger.calls EXCEPT ![o] = Append(ledger.calls[o], NewCall(cap, replay))]
      /\ ledger'.closed = ledger.closed /\ ledger'.started = ledger.started
  BY <1>1, <1>3, WritesLedger
<1> QED  BY <1>2, <1>4 DEF OnlyOwner, SameOwner

(* A call with its settlement.                                             *)
Settling(c, u, d) == [c EXCEPT !.state = "settled", !.usage = u, !.dispatched = d]

(* A settlement settles one open call of its owner.                        *)
LEMMA SettleEffect ==
    ASSUME BudgetInv, NEW o \in Owners, NEW k \in 1..MaxCalls, NEW u \in Reports \cup {Missing},
           NEW d \in BOOLEAN, SettleCall(<<o, k>>, u, d)
    PROVE  /\ OnlyOwner(o) /\ k \in 1..Len(ledger.calls[o]) /\ ledger.calls[o][k].state = "live"
           /\ Settling(ledger.calls[o][k], u, d) \in CallType
           /\ ledger'.calls[o]
                = [ledger.calls[o] EXCEPT ![k] = Settling(ledger.calls[o][k], u, d)]
           /\ ledger'.closed[o] = ledger.closed[o] /\ ledger'.started[o] = ledger.started[o]
<1> DEFINE c == ledger.calls[o][k]
           e == [c EXCEPT !.state = "settled", !.usage = u, !.dispatched = d]
<1>1. /\ Opened.calls = ledger.calls /\ Opened.closed = ledger.closed
      /\ Opened.started = ledger.started /\ Opened \in Ledgers
  BY OpenedSound
<1>2. ledger.calls \in [Owners -> Seq(CallType)]
  BY <1>1 DEF Ledgers
<1>3. <<o, k>> \in Ids(ledger) /\ k <= Len(ledger.calls[o]) /\ c.state = "live"
  BY DEF SettleCall, Live, Ids, Call
<1>4. \E m : Writes(m, [Opened.calls EXCEPT ![o] = [Opened.calls[o] EXCEPT ![k] =
                    [Opened.calls[o][k] EXCEPT !.state = "settled", !.usage = u, !.dispatched = d]]],
                    Opened.closed, Opened.started)
  BY <1>3, SettleKeeps, Zenon
<1>5. ledger'.calls = [ledger.calls EXCEPT ![o] = [ledger.calls[o] EXCEPT ![k] = e]]
      /\ ledger'.closed = ledger.closed /\ ledger'.started = ledger.started
  BY <1>1, <1>4, WritesLedger
<1>6. k \in 1..Len(ledger.calls[o]) /\ c \in CallType
  BY <1>2, <1>3, BudgetAssumption
<1>7. e \in CallType
  BY <1>6 DEF CallType
<1>8. ledger'.calls[o] = [ledger.calls[o] EXCEPT ![k] = e]
      /\ \A p \in Owners \ {o} : ledger'.calls[p] = ledger.calls[p]
  BY <1>2, <1>5
<1> QED  BY <1>3, <1>5, <1>6, <1>7, <1>8 DEF OnlyOwner, SameOwner, Settling

(* Resuming moves its owner's start and neither calls nor closure.         *)
LEMMA ResumeEffect ==
    ASSUME BudgetInv, NEW o \in Owners, ResumeExecution(o)
    PROVE  /\ OnlyOwner(o)
           /\ ledger'.calls[o] = ledger.calls[o] /\ ledger'.closed[o] = ledger.closed[o]
<1>1. /\ Opened.calls = ledger.calls /\ Opened.closed = ledger.closed
      /\ Opened.started = ledger.started
  BY OpenedSound
<1>2. PICK m, v : /\ Writes(m, Opened.calls, Opened.closed, v)
                  /\ \A p \in Owners \ {o} : v[p] = Opened.started[p]
  BY ResumeKeeps
<1>3. ledger'.calls = ledger.calls /\ ledger'.closed = ledger.closed /\ ledger'.started = v
  BY <1>1, <1>2, WritesLedger
<1> QED  BY <1>1, <1>2, <1>3 DEF OnlyOwner, SameOwner

(* Pausing closes its owner and leaves its calls.                          *)
LEMMA PauseEffect ==
    ASSUME BudgetInv, NEW o \in Owners, PauseExecution(o)
    PROVE  /\ OnlyOwner(o)
           /\ ledger'.calls[o] = ledger.calls[o] /\ ledger'.started[o] = ledger.started[o]
           /\ ledger'.closed[o] = "paused"
<1>1. /\ Opened.calls = ledger.calls /\ Opened.closed = ledger.closed
      /\ Opened.started = ledger.started
  BY OpenedSound
<1>2. PICK m, v : /\ Writes(m, Opened.calls, v, Opened.started) /\ v[o] = "paused"
                  /\ \A p \in Owners \ {o} : v[p] = Opened.closed[p]
  BY PauseKeeps
<1>3. ledger'.calls = ledger.calls /\ ledger'.closed = v /\ ledger'.started = ledger.started
  BY <1>1, <1>2, WritesLedger
<1> QED  BY <1>1, <1>2, <1>3 DEF OnlyOwner, SameOwner

(* Reconciling settles what an open owner left and touches no other.       *)
LEMMA ReconcileEffect ==
    ASSUME BudgetInv, NEW o \in Owners, NEW d \in BOOLEAN, ReconcileOwner(o, d),
           ledger.closed[o] = "no"
    PROVE  /\ OnlyOwner(o)
           /\ ledger'.calls[o] = [k \in DOMAIN ledger.calls[o] |-> Left(ledger.calls[o][k], d)]
           /\ ledger'.started[o] = ledger.started[o]
<1>1. /\ Opened.calls = ledger.calls /\ Opened.closed = ledger.closed
      /\ Opened.started = ledger.started
  BY OpenedSound
<1>2. PICK m, v, x :
            /\ Writes(m, v, x, Opened.started) /\ x[o] # "no"
            /\ v[o] = [k \in DOMAIN Opened.calls[o] |-> Left(Opened.calls[o][k], d)]
            /\ \A p \in Owners \ {o} : v[p] = Opened.calls[p] /\ x[p] = Opened.closed[p]
  BY ReconcileKeeps
<1>3. ledger'.calls = v /\ ledger'.closed = x /\ ledger'.started = ledger.started
  BY <1>1, <1>2, WritesLedger
<1> QED  BY <1>1, <1>2, <1>3 DEF OnlyOwner, SameOwner

-----------------------------------------------------------------------------
(* The workers' state.                                                     *)

(* The places a cell can be in.                                            *)
Labels ==
    Over \cup {"queued", "start", "call", "reserve", "reserved", "sent", "settle", "ending",
               "charge", "pause"}

(* The places a team can be in.                                            *)
Teams == {"queued", "waiting", "running", "done", "raised"}

(* The types of what the workers keep.                                     *)
CellsTyped ==
    /\ setting \in Settings
    /\ team \in [Packages -> Teams] /\ allow \in [Packages -> BOOLEAN] /\ stopping \in BOOLEAN
    /\ pc \in [Cells -> Labels] /\ run \in [Cells -> 1..MaxRuns]
    /\ usage \in [Cells -> Reports \cup {Missing}] /\ asked \in [Cells -> Nat]
    /\ receipt \in [Cells -> {"none", "valid", "stale"}]
    /\ flight \in [Owners -> BOOLEAN] /\ spent \in [Owners -> Nat]

(* The owner of a cell's current run is one of the owners.                 *)
LEMMA CurrentOwner ==
    ASSUME CellsTyped, NEW c \in Cells PROVE Owner(c) \in Owners /\ Owner(c)[1] = c
  BY CellsAssumption DEF CellsTyped, Owner

(* The types hold at the start.                                            *)
LEMMA CellsTypedInit == Init => CellsTyped
<1> SUFFICES ASSUME Init PROVE CellsTyped
  OBVIOUS
<1>1. run \in [Cells -> 1..MaxRuns]
  BY CellsAssumption DEF Init
<1> QED  BY <1>1 DEF Init, CellsTyped, Labels, Teams

(* Every step keeps the types.                                             *)
LEMMA CellsTypedNext == CellsTyped /\ [Next]_vars => CellsTyped'
<1> SUFFICES ASSUME CellsTyped, [Next]_vars PROVE CellsTyped'
  OBVIOUS
<1> USE DEF CellsTyped
<1>1. CASE UNCHANGED vars
  BY <1>1 DEF vars, cellVars
<1>2. CASE ClockTick
  BY <1>2 DEF ClockTick, cellVars
<1>3. CASE Interrupt
  BY <1>3 DEF Interrupt, loop
<1>4. ASSUME NEW p \in Packages, TeamStep(p) PROVE CellsTyped'
  <2>1. CASE AdmitTeam(p)
    <3>1. PackageAdmitted \in BOOLEAN
      BY DEF PackageAdmitted
    <3> QED  BY <2>1, <3>1 DEF AdmitTeam, loop, Teams
  <2>2. CASE AcquireTeam(p)
    BY <2>2 DEF AcquireTeam, loop, Teams, Labels
  <2>3. CASE SkipTeam(p)
    BY <2>3 DEF SkipTeam, loop, Teams, Labels, Over
  <2>4. CASE EndTeam(p)
    BY <2>4 DEF EndTeam, loop, Teams
  <2> QED  BY <1>4, <2>1, <2>2, <2>3, <2>4 DEF TeamStep
<1>5. ASSUME NEW p \in Packages, Crash(p) PROVE CellsTyped'
  <2>1. pc' \in [Cells -> Labels] /\ team' \in [Packages -> Teams]
    BY <1>5 DEF Crash, Labels, Over, Teams
  <2>2. usage' \in [Cells -> Reports \cup {Missing}]
    BY <1>5 DEF Crash
  <2>3. spent' \in [Owners -> Nat]
    BY <1>5, CellsAssumption, BudgetAssumption DEF Crash
  <2> QED  BY <1>5, <2>1, <2>2, <2>3 DEF Crash, loop
<1>6. ASSUME NEW p \in Packages, Rerun(p) PROVE CellsTyped'
  <2>1. run' \in [Cells -> 1..MaxRuns]
    BY <1>6, CellsAssumption DEF Rerun
  <2>2. receipt' \in [Cells -> {"none", "valid", "stale"}]
    BY <1>6 DEF Rerun
  <2> QED  BY <1>6, <2>1, <2>2 DEF Rerun, loop, Teams, Labels
<1>7. ASSUME NEW o \in Owners, Reconcile(o) PROVE CellsTyped'
  BY <1>7 DEF Reconcile, cellVars
<1>8. ASSUME NEW c \in Cells, AccountingFails(c) PROVE CellsTyped'
  BY <1>8 DEF AccountingFails, Goto, loop, Labels, Over
<1>9. ASSUME NEW c \in Cells, CellStep(c) PROVE CellsTyped'
  <2>0. Owner(c) \in Owners
    BY CurrentOwner
  <2>1. CASE ReuseReceipt(c) \/ Cancel(c) \/ DeadlineBeforeCall(c) \/ AbortCall(c)
    BY <2>1 DEF ReuseReceipt, Cancel, DeadlineBeforeCall, AbortCall, Goto, loop, Labels, Over
  <2>2. CASE LaunchCell(c) \/ BeginCall(c) \/ Reserve(c)
    BY <2>2 DEF LaunchCell, BeginCall, Reserve, Goto, loop, Labels, Over
  <2>3. CASE Dispatch(c)
    BY <2>0, <2>3 DEF Dispatch, Goto, loop, Labels
  <2>4. CASE Answer(c)
    <3>1. PICK s \in Reports, reported \in BOOLEAN :
            /\ usage' = [usage EXCEPT ![c] = IF reported THEN s ELSE Missing]
            /\ spent' = [spent EXCEPT ![Owner(c)] = @ + IF s > Cap THEN Cap ELSE s]
      BY <2>4 DEF Answer
    <3>2. spent' \in [Owners -> Nat]
      BY <2>0, <3>1, CellsAssumption, BudgetAssumption
    <3> QED  BY <2>4, <3>1, <3>2 DEF Answer, Goto, loop, Labels
  <2>5. CASE Settle(c)
    <3>1. spent' \in [Owners -> Nat]
      <4>1. usage[c] \in Nat \cup {Missing} /\ Cap \in Nat
        BY CellsAssumption, BudgetAssumption
      <4>2. (IF usage[c] > Cap THEN usage[c] - Cap ELSE 0) \in Nat
        BY <4>1 DEF Missing
      <4> QED  BY <2>0, <2>5, <4>2 DEF Settle
    <3> QED  BY <2>0, <2>5, <3>1 DEF Settle, Goto, loop, Labels, Over
  <2>6. CASE NextTurn(c) \/ Succeed(c)
    <3>1. pc' \in [Cells -> Labels]
      BY <2>6 DEF NextTurn, Succeed, Goto, Labels
    <3>2. asked' \in [Cells -> Nat]
      BY <2>6 DEF NextTurn, Succeed
    <3>3. receipt' \in [Cells -> {"none", "valid", "stale"}]
      BY <2>6 DEF NextTurn, Succeed
    <3> QED  BY <2>6, <3>1, <3>2, <3>3 DEF NextTurn, Succeed, loop
  <2>8. CASE FailAttempt(c)
    <3>1. pc' \in [Cells -> Labels]
      BY <2>8 DEF FailAttempt, Goto, Labels, Over
    <3>2. stopping' \in BOOLEAN
      BY <2>8 DEF FailAttempt
    <3> QED  BY <2>8, <3>1, <3>2 DEF FailAttempt
  <2>7. CASE Charge(c) \/ Pause(c)
    BY <2>7 DEF Charge, Pause, Goto, loop, Labels, Over
  <2> QED  BY <1>9, <2>1, <2>2, <2>3, <2>4, <2>5, <2>6, <2>7, <2>8 DEF CellStep
<1> QED  BY <1>1, <1>2, <1>3, <1>4, <1>5, <1>6, <1>7, <1>8, <1>9 DEF Next

-----------------------------------------------------------------------------
(* What the workers do to the document is what JobBudget admits.           *)
LEMMA StepIsBudgetStep ==
    ASSUME CellsTyped, BudgetInv, [Next]_vars PROVE [BudgetNext]_budgetVars
<1>0. /\ Cap \in Caps /\ FALSE \in Replays /\ ledger.queries \in Nat /\ MaxDirect \in Nat
  BY CellsAssumption, BudgetAssumption DEF BudgetInv, Sound, Ledgers
<1>1. CASE UNCHANGED vars
  BY <1>1 DEF vars
<1>2. CASE ClockTick
  BY <1>2 DEF ClockTick, BudgetNext
<1>3. CASE Interrupt
  BY <1>3 DEF Interrupt
<1>4. ASSUME NEW p \in Packages, TeamStep(p) \/ Crash(p) \/ Rerun(p) PROVE [BudgetNext]_budgetVars
  <2>1. CASE AdmitTeam(p)
    BY <2>1 DEF AdmitTeam, BudgetNext
  <2>2. CASE ~AdmitTeam(p)
    BY <1>4, <2>2 DEF TeamStep, AcquireTeam, SkipTeam, EndTeam, Crash, Rerun
  <2> QED  BY <2>1, <2>2
<1>5. ASSUME NEW o \in Owners, Reconcile(o) PROVE [BudgetNext]_budgetVars
  BY <1>5 DEF Reconcile, BudgetNext
<1>6. ASSUME NEW c \in Cells, CellStep(c) \/ AccountingFails(c) PROVE [BudgetNext]_budgetVars
  <2>1. Owner(c) \in Owners /\ usage[c] \in Reports \cup {Missing} /\ asked[c] \in Nat
    BY CurrentOwner DEF CellsTyped
  <2>2. CASE LaunchCell(c)
    BY <2>2 DEF LaunchCell, BudgetNext
  <2>3. CASE BeginCall(c)
    BY <2>1, <2>3 DEF BeginCall, BudgetNext
  <2>4. CASE Reserve(c)
    BY <1>0, <2>1, <2>4 DEF Reserve, BudgetNext
  <2>5. CASE Settle(c)
    <3>1. SettleCall(LastCall(Owner(c)), usage[c], flight[Owner(c)]) /\ flight[Owner(c)] \in BOOLEAN
      BY <2>1, <2>5 DEF Settle, CellsTyped
    <3>2. LastCall(Owner(c)) \in Ids(ledger)
      BY <3>1 DEF SettleCall, Live
    <3> QED  BY <2>1, <3>1, <3>2 DEF BudgetNext
  <2>6. CASE Charge(c)
    <3>1. CASE asked[c] > 0
      <4>1. ChargeQueries(asked[c]) /\ asked[c] \in 1..MaxDirect
        BY <1>0, <2>1, <2>6, <3>1 DEF Charge, ChargeQueries
      <4> QED  BY <4>1 DEF BudgetNext
    <3>2. CASE ~(asked[c] > 0)
      BY <2>6, <3>2 DEF Charge
    <3> QED  BY <3>1, <3>2
  <2>7. CASE Pause(c)
    BY <2>1, <2>7 DEF Pause, BudgetNext
  <2>8. CASE \/ ReuseReceipt(c) \/ Cancel(c) \/ DeadlineBeforeCall(c) \/ Dispatch(c) \/ AbortCall(c)
             \/ Answer(c) \/ NextTurn(c) \/ Succeed(c) \/ FailAttempt(c) \/ AccountingFails(c)
    BY <2>8 DEF ReuseReceipt, Cancel, DeadlineBeforeCall, Dispatch, AbortCall, Answer, NextTurn,
                Succeed, FailAttempt, AccountingFails
  <2> QED  BY <1>6, <2>2, <2>3, <2>4, <2>5, <2>6, <2>7, <2>8 DEF CellStep
<1> QED  BY <1>1, <1>2, <1>3, <1>4, <1>5, <1>6 DEF Next

(* The invariant under which a step of the workers is one of the budget.   *)
LEMMA WorkInvariance == Spec => [](CellsTyped /\ SpendInv)
<1>1. Init => CellsTyped /\ SpendInv
  BY CellsTypedInit, SpendInit DEF Init
<1>2. CellsTyped /\ SpendInv /\ [Next]_vars => CellsTyped' /\ SpendInv'
  <2> SUFFICES ASSUME CellsTyped, SpendInv, [Next]_vars PROVE CellsTyped' /\ SpendInv'
    OBVIOUS
  <2>1. [BudgetNext]_budgetVars
    BY StepIsBudgetStep DEF SpendInv
  <2> QED  BY <2>1, CellsTypedNext, SpendNext
<1> QED  BY <1>1, <1>2, PTL DEF Spec

(* The workers implement the budget: everything a run of the review does   *)
(* to budget.json is a step of JobBudget, so what is proved of the budget  *)
(* alone holds of every run.                                               *)
THEOREM WorkersImplementBudget == Spec => BudgetSpec
<1>1. Init => BudgetInit
  BY DEF Init
<1>2. CellsTyped /\ SpendInv /\ [Next]_vars => [BudgetNext]_budgetVars
  BY StepIsBudgetStep DEF SpendInv
<1> QED  BY <1>1, <1>2, WorkInvariance, PTL DEF Spec, BudgetSpec

(* The document the review workers leave behind is always one _validate    *)
(* accepts, through crashes of a team's process, reruns and                *)
(* reconciliation: a consequence of implementing the budget.               *)
THEOREM WorkersKeepLedgerValid == Spec => []LedgerValid
  BY WorkersImplementBudget, LedgerStaysValid, PTL

(* All cells of all teams together launch no more than the ceilings of the *)
(* job admit, though each reserves for itself (teams.py, executor.py): a   *)
(* consequence of implementing the budget.                                 *)
THEOREM WorkersLaunchBounded == Spec => []LaunchBound
  BY WorkersImplementBudget, LaunchesBounded, PTL

-----------------------------------------------------------------------------
(* Where a cell is, and what its owner has in the document.                *)

(* The owner has not begun.                                                *)
Untouched(o) ==
    ledger.calls[o] = <<>> /\ ledger.started[o] = Never /\ ledger.closed[o] = "no"

(* None of the owner's calls is open.                                      *)
AllSettled(o) == \A k \in DOMAIN ledger.calls[o] : ledger.calls[o][k].state = "settled"

(* The owner's last call is open.                                          *)
LastLive(o) ==
    ledger.calls[o] # <<>> /\ ledger.calls[o][Len(ledger.calls[o])].state = "live"

(* Only the cells of a running team are on their way.                      *)
Placed(c) ==
    /\ team[PackageOf[c]] \in {"queued", "waiting"} => pc[c] = "queued"
    /\ team[PackageOf[c]] \in {"done", "raised"} => pc[c] \in Over

(* A cell that may pay has no receipt that revalidates, and its team was   *)
(* admitted.                                                               *)
Paid(c) ==
    pc[c] \in {"call", "reserve", "reserved", "sent", "settle", "ending"}
      => receipt[c] # "valid" /\ allow[PackageOf[c]]

(* What the current owner has open at each place of the cell.              *)
At(c) ==
    /\ pc[c] \in {"queued", "start", "notLaunched"} => Untouched(Owner(c))
    /\ pc[c] \in {"call", "reserve", "ending", "charge", "pause"}
         => AllSettled(Owner(c)) /\ ledger.closed[Owner(c)] = "no"
    /\ pc[c] \in {"reserved", "sent", "settle"} => LastLive(Owner(c)) /\ ledger.closed[Owner(c)] = "no"
    /\ pc[c] = "ended"
         => /\ AllSettled(Owner(c))
            /\ ledger.started[Owner(c)] # Never => ledger.closed[Owner(c)] = "paused"
    /\ flight[Owner(c)] => pc[c] \in {"sent", "settle", "raised"}
    /\ pc[c] = "sent" => flight[Owner(c)]

(* An owner has at most its last call open, and none before its time.      *)
OwnerInv(o) ==
    /\ o[2] > run[o[1]] => Untouched(o) /\ ~flight[o]
    /\ \A k \in DOMAIN ledger.calls[o] :
        /\ ledger.calls[o][k].cap = Cap /\ ~ledger.calls[o][k].replay
        /\ k < Len(ledger.calls[o]) => ledger.calls[o][k].state = "settled"
    /\ ~ActiveTiming => ledger.started[o] = Never

(* What is known of a cell.                                                *)
CellInv(c) == Placed(c) /\ Paid(c) /\ At(c)

(* The inductive invariant of the workers with the document.               *)
CellsInv ==
    /\ CellsTyped /\ SpendInv
    /\ \A c \in Cells : CellInv(c)
    /\ \A o \in Owners : OwnerInv(o)

(* A cell whose own state and whose owner's did not change.                *)
SameCell(d) ==
    /\ run'[d] = run[d] /\ pc'[d] = pc[d] /\ receipt'[d] = receipt[d]
    /\ team'[PackageOf[d]] = team[PackageOf[d]] /\ allow'[PackageOf[d]] = allow[PackageOf[d]]
    /\ SameOwner(Owner(d)) /\ flight'[Owner(d)] = flight[Owner(d)]

(* What is known of a cell stays while neither it nor its owner changes.   *)
LEMMA SameCellKeeps == ASSUME NEW d, CellInv(d), SameCell(d) PROVE CellInv(d)'
<1>1. Owner(d)' = Owner(d)
  BY DEF SameCell, Owner
<1>2. Placed(d)' /\ Paid(d)'
  BY DEF CellInv, Placed, Paid, SameCell
<1>3. At(d)'
  BY <1>1 DEF CellInv, At, SameCell, SameOwner, Untouched, AllSettled, LastLive
<1> QED  BY <1>2, <1>3 DEF CellInv

(* So does what is known of an owner.                                      *)
LEMMA SameOwnerKeeps ==
    ASSUME NEW o, OwnerInv(o), SameOwner(o), run'[o[1]] = run[o[1]], flight'[o] = flight[o]
    PROVE  OwnerInv(o)'
  BY DEF OwnerInv, SameOwner, Untouched

(* A step of the cell c touches its own state and its owner's only.        *)
Local(c) ==
    /\ team' = team /\ allow' = allow /\ run' = run
    /\ \A d \in Cells \ {c} : pc'[d] = pc[d] /\ receipt'[d] = receipt[d]
    /\ OnlyOwner(Owner(c)) /\ \A p \in Owners \ {Owner(c)} : flight'[p] = flight[p]

(* A local step has to be looked at for its own cell and owner only.       *)
LEMMA LocalKeeps ==
    ASSUME CellsInv, NEW c \in Cells, Local(c), CellInv(c)', OwnerInv(Owner(c))'
    PROVE  (\A d \in Cells : CellInv(d)') /\ (\A o \in Owners : OwnerInv(o)')
<1>1. ASSUME NEW d \in Cells \ {c} PROVE CellInv(d)'
  <2>1. Owner(d) \in Owners /\ Owner(d) # Owner(c)
    BY CurrentOwner DEF CellsInv
  <2>2. SameCell(d)
    BY <2>1 DEF Local, SameCell, OnlyOwner
  <2> QED  BY <2>2, SameCellKeeps DEF CellsInv
<1>2. ASSUME NEW o \in Owners \ {Owner(c)} PROVE OwnerInv(o)'
  BY SameOwnerKeeps DEF CellsInv, Local, OnlyOwner
<1>3. Owner(c)' = Owner(c)
  BY DEF Local, Owner
<1>4. \A d \in Cells : CellInv(d)'
  BY <1>1
<1>5. \A o \in Owners : OwnerInv(o)'
  <2>1. ASSUME NEW o \in Owners, o = Owner(c) PROVE OwnerInv(o)'
    BY <1>3, <2>1 DEF OwnerInv, Untouched
  <2> QED  BY <1>2, <2>1
<1> QED  BY <1>4, <1>5

(* Only a running team has cells on their way.                             *)
LEMMA RunningTeam ==
    ASSUME CellsInv, NEW c \in Cells, pc[c] # "queued", pc[c] \notin Over
    PROVE  team[PackageOf[c]] = "running"
<1>1. team[PackageOf[c]] \in Teams /\ Placed(c)
  BY CellsAssumption DEF CellsInv, CellsTyped, CellInv
<1> QED  BY <1>1 DEF Placed, Teams

(* A step of a cell that leaves its owner alone keeps what is known of the *)
(* owner.                                                                  *)
LEMMA OwnStep ==
    ASSUME CellsInv, NEW c \in Cells, SameOwners, pc[c] # "queued", pc[c] \notin Over,
           team' = team, allow' = allow, run' = run, receipt' = receipt, flight' = flight,
           NEW x, pc' = [pc EXCEPT ![c] = x]
    PROVE  /\ Local(c) /\ OwnerInv(Owner(c))' /\ Placed(c)' /\ pc'[c] = x /\ Owner(c)' = Owner(c)
           /\ SameOwner(Owner(c))
<1>1. Owner(c) \in Owners /\ Owner(c)' = Owner(c)
  BY CurrentOwner DEF CellsInv, Owner
<1>2. \A d \in Cells : pc'[d] = IF d = c THEN x ELSE pc[d]
  BY DEF CellsInv, CellsTyped
<1>3. Local(c) /\ SameOwner(Owner(c))
  BY <1>1, <1>2, SameOwnersEach DEF Local, OnlyOwner
<1>4. OwnerInv(Owner(c))'
  <2>1. OwnerInv(Owner(c))
    BY <1>1 DEF CellsInv
  <2> QED  BY <1>1, <1>3, <2>1 DEF OwnerInv, SameOwner, Untouched
<1>5. Placed(c)'
  BY RunningTeam DEF Placed
<1> QED  BY <1>1, <1>2, <1>3, <1>4, <1>5

(* The steps of a cell that leave the document's owners alone.             *)
LEMMA QuietStepKeeps ==
    ASSUME CellsInv, NEW c \in Cells,
           \/ ReuseReceipt(c) \/ LaunchCell(c) \/ Cancel(c) \/ DeadlineBeforeCall(c)
           \/ AbortCall(c) \/ Answer(c) \/ NextTurn(c) \/ FailAttempt(c) \/ Charge(c)
           \/ AccountingFails(c)
    PROVE  (\A d \in Cells : CellInv(d)') /\ (\A o \in Owners : OwnerInv(o)')
<1>1. BudgetInv /\ CellInv(c) /\ asked[c] \in Nat
  BY DEF CellsInv, SpendInv, CellsTyped
<1>2. SameOwners
  BY <1>1, QuietEffect DEF ReuseReceipt, LaunchCell, Cancel, DeadlineBeforeCall, AbortCall, Answer,
        NextTurn, FailAttempt, Charge, AccountingFails
<1>3. pc[c] # "queued" /\ pc[c] \notin Over
  BY DEF ReuseReceipt, LaunchCell, Cancel, DeadlineBeforeCall, AbortCall, Answer,
        NextTurn, FailAttempt, AttemptOver, Charge, AccountingFails, Over
<1>4. /\ team' = team /\ allow' = allow /\ run' = run /\ receipt' = receipt /\ flight' = flight
  BY DEF ReuseReceipt, LaunchCell, Cancel, DeadlineBeforeCall, AbortCall, Answer,
        NextTurn, FailAttempt, Charge, AccountingFails, loop
<1>5. PICK x :
        /\ pc' = [pc EXCEPT ![c] = x]
        /\ \/ pc[c] = "start" /\ x = "ended"
           \/ pc[c] = "start" /\ x = "notLaunched"
           \/ pc[c] = "start" /\ x = "call" /\ receipt[c] # "valid" /\ allow[PackageOf[c]]
           \/ x = "raised"
           \/ pc[c] = "call" /\ x = "ending"
           \/ pc[c] \in {"reserved", "sent"} /\ x = "settle"
           \/ pc[c] = "ending" /\ x \in {"call", "charge"}
           \/ pc[c] = "charge" /\ x = "pause"
  BY DEF ReuseReceipt, LaunchCell, Cancel, DeadlineBeforeCall, AbortCall, Answer,
        NextTurn, FailAttempt, AttemptOver, Charge, AccountingFails, Goto
<1>6. /\ Local(c) /\ OwnerInv(Owner(c))' /\ Placed(c)' /\ pc'[c] = x /\ Owner(c)' = Owner(c)
      /\ SameOwner(Owner(c))
  BY <1>2, <1>3, <1>4, <1>5, OwnStep
<1>7. Paid(c)'
  BY <1>1, <1>4, <1>5, <1>6 DEF CellInv, Paid
<1>8. At(c)'
  <2>1. At(c)
    BY <1>1 DEF CellInv
  <2>2. Untouched(Owner(c)) => AllSettled(Owner(c))
    BY DEF Untouched, AllSettled
  <2> QED  BY <1>4, <1>5, <1>6, <2>1, <2>2 DEF At, SameOwner, Untouched, AllSettled, LastLive
<1>9. CellInv(c)'
  BY <1>6, <1>7, <1>8 DEF CellInv
<1> QED  BY <1>6, <1>9, LocalKeeps

(* A step of a cell that concerns its owner in the document.               *)
LEMMA OwnerStep ==
    ASSUME CellsInv, NEW c \in Cells, OnlyOwner(Owner(c)), pc[c] # "queued", pc[c] \notin Over,
           team' = team, allow' = allow, run' = run, receipt' = receipt,
           \A p \in Owners \ {Owner(c)} : flight'[p] = flight[p],
           NEW x, pc' = [pc EXCEPT ![c] = x]
    PROVE  /\ Local(c) /\ Placed(c)' /\ pc'[c] = x /\ Owner(c)' = Owner(c)
           /\ Owner(c) \in Owners /\ ~(Owner(c)[2] > run[Owner(c)[1]])
<1>1. Owner(c) \in Owners /\ Owner(c)' = Owner(c)
  BY CurrentOwner DEF CellsInv, Owner
<1>2. \A d \in Cells : pc'[d] = IF d = c THEN x ELSE pc[d]
  BY DEF CellsInv, CellsTyped
<1>3. Local(c)
  BY <1>1, <1>2 DEF Local
<1>4. Placed(c)'
  BY RunningTeam DEF Placed
<1>5. ~(Owner(c)[2] > run[Owner(c)[1]])
  <2>1. run[c] \in 1..MaxRuns /\ MaxRuns \in Nat
    BY CellsAssumption DEF CellsInv, CellsTyped
  <2> QED  BY <2>1 DEF Owner
<1> QED  BY <1>1, <1>2, <1>3, <1>4, <1>5

(* Before a call the owner's execution is resumed.                         *)
LEMMA BeginCallKeeps ==
    ASSUME CellsInv, NEW c \in Cells, BeginCall(c)
    PROVE  (\A d \in Cells : CellInv(d)') /\ (\A o \in Owners : OwnerInv(o)')
<1> DEFINE o == Owner(c)
<1>1. BudgetInv /\ CellInv(c) /\ OwnerInv(o) /\ o \in Owners
  BY CurrentOwner DEF CellsInv, SpendInv
<1>2. /\ OnlyOwner(o) /\ ledger'.calls[o] = ledger.calls[o] /\ ledger'.closed[o] = ledger.closed[o]
      /\ ~ActiveTiming => ledger'.started[o] = ledger.started[o]
  <2>1. CASE ActiveTiming /\ ledger.started[o] = Never
    <3>1. ResumeExecution(o)
      BY <2>1 DEF BeginCall
    <3> QED  BY <1>1, <2>1, <3>1, ResumeEffect
  <2>2. CASE ~(ActiveTiming /\ ledger.started[o] = Never)
    BY <1>1, <2>2 DEF BeginCall, budgetVars, OnlyOwner, SameOwner
  <2> QED  BY <2>1, <2>2
<1>3. /\ pc[c] = "call" /\ pc' = [pc EXCEPT ![c] = "reserve"]
      /\ team' = team /\ allow' = allow /\ run' = run /\ receipt' = receipt /\ flight' = flight
  BY DEF BeginCall, Goto, loop
<1>4. /\ Local(c) /\ Placed(c)' /\ pc'[c] = "reserve" /\ o' = o /\ ~(o[2] > run[o[1]])
  <2>1. pc[c] # "queued" /\ pc[c] \notin Over
    BY <1>3 DEF Over
  <2> QED  BY <1>2, <1>3, <2>1, OwnerStep
<1>5. OwnerInv(o)'
  BY <1>1, <1>2, <1>3, <1>4 DEF OwnerInv
<1>6. Paid(c)' /\ At(c)'
  BY <1>1, <1>2, <1>3, <1>4 DEF CellInv, Paid, At, AllSettled
<1> QED  BY <1>4, <1>5, <1>6, LocalKeeps DEF CellInv

(* A reservation is made or refused.                                       *)
LEMMA ReserveStepKeeps ==
    ASSUME CellsInv, NEW c \in Cells, Reserve(c)
    PROVE  (\A d \in Cells : CellInv(d)') /\ (\A o \in Owners : OwnerInv(o)')
<1> DEFINE o == Owner(c)
           e == NewCall(Cap, FALSE)
<1>1. BudgetInv /\ CellInv(c) /\ OwnerInv(o) /\ o \in Owners /\ ledger.calls[o] \in Seq(CallType)
  BY CurrentOwner DEF CellsInv, SpendInv, BudgetInv, Sound, Ledgers
<1>2. /\ pc[c] = "reserve" /\ pc[c] # "queued" /\ pc[c] \notin Over
      /\ team' = team /\ allow' = allow /\ run' = run /\ receipt' = receipt /\ flight' = flight
  BY DEF Reserve, loop, Over
<1>3. AllSettled(o) /\ ledger.closed[o] = "no" /\ ~flight[o] /\ receipt[c] # "valid" /\ allow[PackageOf[c]]
  BY <1>1, <1>2 DEF CellInv, At, Paid
<1>4. CASE Snapshot /\ Goto(c, "ending")
  <2>1. SameOwners /\ pc' = [pc EXCEPT ![c] = "ending"]
    BY <1>1, <1>4, QuietEffect DEF Goto
  <2>2. /\ Local(c) /\ OwnerInv(o)' /\ Placed(c)' /\ pc'[c] = "ending" /\ o' = o /\ SameOwner(o)
    BY <1>2, <2>1, OwnStep
  <2>3. Paid(c)' /\ At(c)'
    BY <1>2, <1>3, <2>2 DEF Paid, At, AllSettled, SameOwner
  <2> QED  BY <2>2, <2>3, LocalKeeps DEF CellInv
<1>5. CASE ReserveCall(o, Cap, FALSE) /\ Goto(c, "reserved")
  <2>1. /\ OnlyOwner(o) /\ ledger'.calls[o] = Append(ledger.calls[o], e)
        /\ ledger'.closed[o] = ledger.closed[o] /\ ledger'.started[o] = ledger.started[o]
    BY <1>1, <1>5, ReserveEffect, CellsAssumption
  <2>2. /\ Local(c) /\ Placed(c)' /\ pc'[c] = "reserved" /\ o' = o /\ ~(o[2] > run[o[1]])
    BY <1>2, <1>5, <2>1, OwnerStep DEF Goto
  <2>3. e.state = "live" /\ e.cap = Cap /\ ~e.replay /\ e \in CallType
    BY CellsAssumption DEF NewCall, CallType
  <2> HIDE DEF e
  <2>4. /\ Len(ledger'.calls[o]) = Len(ledger.calls[o]) + 1 /\ ledger'.calls[o] # <<>>
        /\ ledger'.calls[o][Len(ledger'.calls[o])] = e
        /\ \A k \in DOMAIN ledger'.calls[o] :
              \/ k \in DOMAIN ledger.calls[o] /\ ledger'.calls[o][k] = ledger.calls[o][k]
              \/ k = Len(ledger'.calls[o]) /\ ledger'.calls[o][k] = e
    BY <1>1, <2>1, <2>3
  <2>5. \A k \in DOMAIN ledger'.calls[o] : k < Len(ledger'.calls[o]) => k \in DOMAIN ledger.calls[o]
    BY <1>1, <2>1, <2>3
  <2>6. OwnerInv(o)'
    <3>1. \A k \in DOMAIN ledger'.calls[o] :
            ledger'.calls[o][k].cap = Cap /\ ~ledger'.calls[o][k].replay
      BY <1>1, <2>3, <2>4 DEF OwnerInv
    <3>2. \A k \in DOMAIN ledger'.calls[o] :
            k < Len(ledger'.calls[o]) => ledger'.calls[o][k].state = "settled"
      <4>1. \A k \in DOMAIN ledger'.calls[o] : k < Len(ledger'.calls[o]) =>
              k \in DOMAIN ledger.calls[o] /\ ledger'.calls[o][k] = ledger.calls[o][k]
        BY <1>1, <2>1, <2>3
      <4> QED  BY <1>3, <4>1 DEF AllSettled
    <3> QED  BY <1>1, <1>2, <2>1, <2>2, <3>1, <3>2 DEF OwnerInv
  <2>7. Paid(c)' /\ At(c)'
    BY <1>2, <1>3, <2>1, <2>2, <2>3, <2>4 DEF Paid, At, LastLive
  <2> QED  BY <2>2, <2>6, <2>7, LocalKeeps DEF CellInv
<1> QED  BY <1>4, <1>5 DEF Reserve

(* The request leaves for the provider.                                    *)
LEMMA DispatchKeeps ==
    ASSUME CellsInv, NEW c \in Cells, Dispatch(c)
    PROVE  (\A d \in Cells : CellInv(d)') /\ (\A o \in Owners : OwnerInv(o)')
<1> DEFINE o == Owner(c)
<1>1. BudgetInv /\ CellInv(c) /\ OwnerInv(o) /\ o \in Owners
  BY CurrentOwner DEF CellsInv, SpendInv
<1>2. /\ pc[c] = "reserved" /\ pc[c] # "queued" /\ pc[c] \notin Over
      /\ team' = team /\ allow' = allow /\ run' = run /\ receipt' = receipt
      /\ ledger' = ledger /\ flight' = [flight EXCEPT ![o] = TRUE]
      /\ pc' = [pc EXCEPT ![c] = "sent"]
  BY DEF Dispatch, Goto, loop, Over, budgetVars
<1>3. /\ OnlyOwner(o) /\ SameOwner(o) /\ flight'[o]
      /\ \A p \in Owners \ {o} : flight'[p] = flight[p]
  BY <1>1, <1>2 DEF OnlyOwner, SameOwner, CellsInv, CellsTyped
<1>4. /\ Local(c) /\ Placed(c)' /\ pc'[c] = "sent" /\ o' = o /\ ~(o[2] > run[o[1]])
  BY <1>2, <1>3, OwnerStep
<1>5. OwnerInv(o)'
  BY <1>1, <1>2, <1>3, <1>4 DEF OwnerInv, SameOwner
<1>6. Paid(c)' /\ At(c)'
  BY <1>1, <1>2, <1>3, <1>4 DEF CellInv, Paid, At, LastLive, SameOwner
<1> QED  BY <1>4, <1>5, <1>6, LocalKeeps DEF CellInv

(* The call is settled with what was reported, or its settlement fails.    *)
LEMMA SettleStepKeeps ==
    ASSUME CellsInv, NEW c \in Cells, Settle(c)
    PROVE  (\A d \in Cells : CellInv(d)') /\ (\A o \in Owners : OwnerInv(o)')
<1> DEFINE o == Owner(c)
           s == ledger.calls[o]
           n == Len(s)
           e == Settling(s[n], usage[c], flight[o])
<1>1. /\ BudgetInv /\ CellInv(c) /\ OwnerInv(o) /\ o \in Owners /\ s \in Seq(CallType)
      /\ usage[c] \in Reports \cup {Missing} /\ flight[o] \in BOOLEAN
  BY CurrentOwner DEF CellsInv, SpendInv, BudgetInv, Sound, Ledgers, CellsTyped
<1>2. /\ pc[c] = "settle" /\ pc[c] # "queued" /\ pc[c] \notin Over
      /\ team' = team /\ allow' = allow /\ run' = run /\ receipt' = receipt
      /\ flight' = [flight EXCEPT ![o] = FALSE]
      /\ SettleCall(<<o, n>>, usage[c], flight[o])
  BY DEF Settle, loop, Over, LastCall
<1>3. PICK x : pc' = [pc EXCEPT ![c] = x] /\ x \in {"raised", "ending"}
  BY DEF Settle, Goto
<1>4. n \in 1..MaxCalls
  BY <1>2 DEF SettleCall, Live, Ids
<1>5. /\ OnlyOwner(o) /\ n \in 1..Len(s) /\ e \in CallType /\ ledger'.calls[o] = [s EXCEPT ![n] = e]
      /\ ledger'.closed[o] = ledger.closed[o] /\ ledger'.started[o] = ledger.started[o]
  <2>1. PICK p \in Owners, j \in 1..MaxCalls, u \in Reports \cup {Missing}, d \in BOOLEAN :
          p = o /\ j = n /\ u = usage[c] /\ d = flight[o]
    BY <1>1, <1>4
  <2>2. SettleCall(<<p, j>>, u, d) /\ BudgetInv
    BY <1>1, <1>2, <2>1
  <2>3. /\ OnlyOwner(p) /\ j \in 1..Len(ledger.calls[p])
        /\ Settling(ledger.calls[p][j], u, d) \in CallType
        /\ ledger'.calls[p] = [ledger.calls[p] EXCEPT ![j] = Settling(ledger.calls[p][j], u, d)]
        /\ ledger'.closed[p] = ledger.closed[p] /\ ledger'.started[p] = ledger.started[p]
    BY <2>2, SettleEffect
  <2> QED  BY <2>1, <2>3
<1>6. \A p \in Owners \ {o} : flight'[p] = flight[p]
  BY <1>2 DEF CellsInv, CellsTyped
<1>7. /\ Local(c) /\ Placed(c)' /\ pc'[c] = x /\ o' = o /\ ~(o[2] > run[o[1]])
  BY <1>2, <1>3, <1>5, <1>6, OwnerStep
<1>8. e.state = "settled" /\ e.cap = s[n].cap /\ e.replay = s[n].replay /\ ~flight'[o]
  <2>1. s[n] \in CallType
    BY <1>1, <1>5
  <2> QED  BY <1>1, <1>2, <2>1 DEF CallType, CellsInv, CellsTyped, Settling
<1> HIDE DEF e
<1>9. /\ DOMAIN ledger'.calls[o] = DOMAIN s /\ Len(ledger'.calls[o]) = n
      /\ n \in DOMAIN s /\ ledger'.calls[o][n] = e
      /\ \A k \in DOMAIN s : k # n => k < n /\ ledger'.calls[o][k] = s[k]
  BY <1>1, <1>5
<1>10. \A k \in DOMAIN s : /\ s[k].cap = Cap /\ ~s[k].replay
                           /\ k < n => s[k].state = "settled"
  BY <1>1 DEF OwnerInv
<1>11. \A k \in DOMAIN ledger'.calls[o] :
         /\ ledger'.calls[o][k].cap = Cap /\ ~ledger'.calls[o][k].replay
         /\ ledger'.calls[o][k].state = "settled"
  BY <1>8, <1>9, <1>10
<1>12. OwnerInv(o)'
  BY <1>1, <1>2, <1>5, <1>7, <1>11 DEF OwnerInv
<1>13. Paid(c)'
  BY <1>1, <1>2, <1>3, <1>7 DEF CellInv, Paid
<1>14. At(c)'
  <2>1. AllSettled(o)'
    BY <1>7, <1>11 DEF AllSettled
  <2>2. ledger'.closed[o] = "no" /\ ~flight'[o]
    BY <1>1, <1>2, <1>5, <1>8 DEF CellInv, At
  <2>3. o' = o /\ pc'[c] \in {"raised", "ending"}
    BY <1>3, <1>7
  <2> QED  BY <2>1, <2>2, <2>3 DEF At
<1> QED  BY <1>7, <1>12, <1>13, <1>14, LocalKeeps DEF CellInv

(* The outcome is published with its receipt.                              *)
LEMMA SucceedKeeps ==
    ASSUME CellsInv, NEW c \in Cells, Succeed(c)
    PROVE  (\A d \in Cells : CellInv(d)') /\ (\A o \in Owners : OwnerInv(o)')
<1> DEFINE o == Owner(c)
<1>1. BudgetInv /\ CellInv(c) /\ OwnerInv(o) /\ o \in Owners /\ o' = o
  BY CurrentOwner DEF CellsInv, SpendInv, Succeed, Owner, loop
<1>2. /\ pc[c] = "ending" /\ pc[c] # "queued" /\ pc[c] \notin Over
      /\ team' = team /\ allow' = allow /\ run' = run /\ flight' = flight /\ ledger' = ledger
      /\ receipt' = [receipt EXCEPT ![c] = "valid"] /\ pc' = [pc EXCEPT ![c] = "charge"]
  BY DEF Succeed, AttemptOver, Goto, loop, Over, budgetVars
<1>3. pc'[c] = "charge" /\ \A d \in Cells \ {c} : pc'[d] = pc[d] /\ receipt'[d] = receipt[d]
  BY <1>2 DEF CellsInv, CellsTyped
<1>4. Local(c)
  BY <1>2, <1>3 DEF Local, OnlyOwner, SameOwner
<1>5. OwnerInv(o)' /\ Placed(c)' /\ Paid(c)' /\ At(c)'
  BY <1>1, <1>2, <1>3, RunningTeam DEF OwnerInv, Untouched, CellInv, Placed, Paid, At, AllSettled
<1> QED  BY <1>4, <1>5, LocalKeeps DEF CellInv

(* The cell ends and its owner is paused.                                  *)
LEMMA PauseStepKeeps ==
    ASSUME CellsInv, NEW c \in Cells, Pause(c)
    PROVE  (\A d \in Cells : CellInv(d)') /\ (\A o \in Owners : OwnerInv(o)')
<1> DEFINE o == Owner(c)
<1>1. BudgetInv /\ CellInv(c) /\ OwnerInv(o) /\ o \in Owners
  BY CurrentOwner DEF CellsInv, SpendInv
<1>2. /\ pc[c] = "pause" /\ pc[c] # "queued" /\ pc[c] \notin Over
      /\ team' = team /\ allow' = allow /\ run' = run /\ receipt' = receipt /\ flight' = flight
      /\ pc' = [pc EXCEPT ![c] = "ended"]
  BY DEF Pause, Goto, loop, Over
<1>3. /\ OnlyOwner(o) /\ ledger'.calls[o] = ledger.calls[o]
      /\ ledger'.started[o] = ledger.started[o]
      /\ ledger'.started[o] # Never => ledger'.closed[o] = "paused"
  <2>1. CASE ActiveTiming /\ ledger.started[o] # Never
    <3>1. PauseExecution(o)
      BY <2>1 DEF Pause
    <3> QED  BY <1>1, <3>1, PauseEffect
  <2>2. CASE ~(ActiveTiming /\ ledger.started[o] # Never)
    <3>1. ledger' = ledger
      BY <2>2 DEF Pause, budgetVars
    <3> QED  BY <1>1, <2>2, <3>1 DEF OwnerInv, OnlyOwner, SameOwner
  <2> QED  BY <2>1, <2>2
<1>4. /\ Local(c) /\ Placed(c)' /\ pc'[c] = "ended" /\ o' = o /\ ~(o[2] > run[o[1]])
  BY <1>2, <1>3, OwnerStep
<1>5. OwnerInv(o)'
  BY <1>1, <1>2, <1>3, <1>4 DEF OwnerInv
<1>6. Paid(c)' /\ At(c)'
  BY <1>1, <1>2, <1>3, <1>4 DEF CellInv, Paid, At, AllSettled
<1> QED  BY <1>4, <1>5, <1>6, LocalKeeps DEF CellInv

(* A step that leaves the owners, their flights and the invocations alone. *)
LEMMA StillOwners ==
    ASSUME CellsInv, SameOwners, run' = run, flight' = flight
    PROVE  /\ \A o \in Owners : OwnerInv(o)'
           /\ \A c \in Cells : Owner(c)' = Owner(c) /\ SameOwner(Owner(c))
<1>1. ASSUME NEW o \in Owners PROVE OwnerInv(o)'
  BY SameOwnersEach, SameOwnerKeeps DEF CellsInv
<1> QED  BY <1>1, SameOwnersEach DEF Owner

(* Teams are admitted, take a slot, are skipped and end.                   *)
LEMMA TeamStepKeeps ==
    ASSUME CellsInv, NEW p \in Packages, TeamStep(p)
    PROVE  (\A d \in Cells : CellInv(d)') /\ (\A o \in Owners : OwnerInv(o)')
<1>1. SameOwners
  <2>1. BudgetInv
    BY DEF CellsInv, SpendInv
  <2> QED  BY <2>1, QuietEffect DEF TeamStep, AdmitTeam, AcquireTeam, SkipTeam, EndTeam
<1>2. run' = run /\ receipt' = receipt /\ flight' = flight
  BY DEF TeamStep, AdmitTeam, AcquireTeam, SkipTeam, EndTeam, loop
<1>3. /\ \A o \in Owners : OwnerInv(o)'
      /\ \A c \in Cells : Owner(c)' = Owner(c) /\ SameOwner(Owner(c))
  BY <1>1, <1>2, StillOwners
<1>4. ASSUME NEW d \in Cells PROVE CellInv(d)'
  <2> DEFINE q == PackageOf[d]
  <2>1. q \in Packages /\ CellInv(d) /\ (d \in CellsOf(p) <=> q = p)
    BY CellsAssumption DEF CellsInv, CellsOf
  <2>2. CASE q # p
    <3>1. pc'[d] = pc[d] /\ team'[q] = team[q] /\ allow'[q] = allow[q]
      BY <2>1, <2>2 DEF TeamStep, AdmitTeam, AcquireTeam, SkipTeam, EndTeam, CellsInv, CellsTyped
    <3>2. SameCell(d)
      BY <1>2, <1>3, <3>1 DEF SameCell
    <3> QED  BY <2>1, <3>2, SameCellKeeps
  <2>3. CASE q = p /\ AdmitTeam(p)
    <3>1. pc'[d] = pc[d] /\ pc[d] = "queued" /\ team'[q] = "waiting"
      BY <2>1, <2>3 DEF AdmitTeam, CellInv, Placed, CellsInv, CellsTyped
    <3> QED  BY <1>2, <1>3, <2>1, <3>1
             DEF CellInv, Placed, Paid, At, SameOwner, Untouched, AllSettled, LastLive
  <2>4. CASE q = p /\ (AcquireTeam(p) \/ SkipTeam(p))
    <3>1. /\ pc[d] = "queued"
          /\ \/ pc'[d] = "start" /\ team'[q] = "running"
             \/ pc'[d] = "notLaunched" /\ team'[q] = "done"
      BY <2>1, <2>4 DEF AcquireTeam, SkipTeam, CellInv, Placed, CellsInv, CellsTyped
    <3> QED  BY <1>2, <1>3, <2>1, <3>1
             DEF CellInv, Placed, Paid, At, SameOwner, Untouched, AllSettled, LastLive, Over
  <2>5. CASE q = p /\ EndTeam(p)
    <3>1. pc'[d] = pc[d] /\ pc[d] \in Over /\ team'[q] \in {"done", "raised"}
      BY <2>1, <2>5 DEF EndTeam, CellsInv, CellsTyped
    <3> QED  BY <1>2, <1>3, <2>1, <3>1
             DEF CellInv, Placed, Paid, At, SameOwner, Untouched, AllSettled, LastLive, Over
  <2> QED  BY <2>2, <2>3, <2>4, <2>5 DEF TeamStep
<1> QED  BY <1>3, <1>4

(* A process dies with every cell of its team.                             *)
LEMMA CrashKeeps ==
    ASSUME CellsInv, NEW p \in Packages, Crash(p)
    PROVE  (\A d \in Cells : CellInv(d)') /\ (\A o \in Owners : OwnerInv(o)')
<1>1. SameOwners
  BY DEF Crash, SameOwners, budgetVars
<1>2. run' = run /\ receipt' = receipt /\ flight' = flight /\ allow' = allow
  BY DEF Crash, loop
<1>3. /\ \A o \in Owners : OwnerInv(o)'
      /\ \A c \in Cells : Owner(c)' = Owner(c) /\ SameOwner(Owner(c))
  BY <1>1, <1>2, StillOwners
<1>4. ASSUME NEW d \in Cells PROVE CellInv(d)'
  <2> DEFINE q == PackageOf[d]
  <2>1. q \in Packages /\ CellInv(d) /\ (d \in CellsOf(p) <=> q = p)
    BY CellsAssumption DEF CellsInv, CellsOf
  <2>2. CASE q # p
    <3>1. pc'[d] = pc[d] /\ team'[q] = team[q]
      BY <2>1, <2>2 DEF Crash, CellsInv, CellsTyped
    <3>2. SameCell(d)
      BY <1>2, <1>3, <3>1 DEF SameCell
    <3> QED  BY <2>1, <3>2, SameCellKeeps
  <2>3. CASE q = p
    <3>1. /\ team'[q] = "raised" /\ pc'[d] = IF pc[d] \notin Over THEN "raised" ELSE pc[d]
      BY <2>1, <2>3 DEF Crash, CellsInv, CellsTyped
    <3> QED  BY <1>2, <1>3, <2>1, <3>1
             DEF CellInv, Placed, Paid, At, SameOwner, Untouched, AllSettled, LastLive, Over
  <2> QED  BY <2>2, <2>3
<1> QED  BY <1>3, <1>4

(* A new invocation begins with owners that have not begun.                *)
LEMMA RerunKeeps ==
    ASSUME CellsInv, NEW p \in Packages, Rerun(p)
    PROVE  (\A d \in Cells : CellInv(d)') /\ (\A o \in Owners : OwnerInv(o)')
<1>1. /\ ledger' = ledger /\ flight' = flight /\ allow' = allow
      /\ \A c \in Cells : c \notin CellsOf(p) => receipt'[c] = receipt[c]
  <2>1. PICK refused \in SUBSET CellsOf(p) :
          receipt' = [c \in Cells |-> IF c \in refused /\ receipt[c] = "valid"
                                     THEN "stale" ELSE receipt[c]]
    BY DEF Rerun
  <2>2. ledger' = ledger /\ flight' = flight /\ allow' = allow
    BY DEF Rerun, budgetVars
  <2> QED  BY <2>1, <2>2
<1>2. /\ \A c \in Cells : run'[c] = IF c \in CellsOf(p) THEN run[c] + 1 ELSE run[c]
      /\ \A c \in Cells : pc'[c] = IF c \in CellsOf(p) THEN "queued" ELSE pc[c]
      /\ \A q \in Packages : team'[q] = IF q = p THEN "queued" ELSE team[q]
      /\ \A c \in CellsOf(p) : run[c] < MaxRuns
  BY DEF Rerun, CellsInv, CellsTyped
<1>3. \A c \in Cells : run[c] \in 1..MaxRuns /\ MaxRuns \in Nat
  BY CellsAssumption DEF CellsInv, CellsTyped
<1>4. ASSUME NEW o \in Owners PROVE OwnerInv(o)'
  <2>1. o[1] \in Cells /\ o[2] \in Nat /\ OwnerInv(o)
    BY CellsAssumption DEF CellsInv
  <2>2. o[2] > run'[o[1]] => o[2] > run[o[1]]
    BY <1>2, <1>3, <2>1
  <2> QED  BY <1>1, <2>1, <2>2 DEF OwnerInv, Untouched
<1>5. ASSUME NEW d \in Cells PROVE CellInv(d)'
  <2> DEFINE q == PackageOf[d]
  <2>1. q \in Packages /\ CellInv(d) /\ (d \in CellsOf(p) <=> q = p)
    BY CellsAssumption DEF CellsInv, CellsOf
  <2>2. CASE q # p
    <3>1. SameCell(d)
      BY <1>1, <1>2, <2>1, <2>2 DEF SameCell, SameOwner
    <3> QED  BY <2>1, <3>1, SameCellKeeps
  <2>3. CASE q = p
    <3> DEFINE o == <<d, run[d] + 1>>
    <3>1. run'[d] = run[d] + 1 /\ pc'[d] = "queued" /\ team'[q] = "queued" /\ run[d] < MaxRuns
      BY <1>2, <2>1, <2>3
    <3>2. Owner(d)' = o /\ o \in Owners /\ o[2] > run[o[1]]
      BY <1>3, <3>1, CellsAssumption DEF Owner
    <3>3. OwnerInv(o)
      BY <3>2 DEF CellsInv
    <3>4. Untouched(o) /\ ~flight[o]
      BY <3>2, <3>3 DEF OwnerInv
    <3> HIDE DEF o
    <3> QED  BY <1>1, <3>1, <3>2, <3>4 DEF CellInv, Placed, Paid, At, Untouched
  <2> QED  BY <2>2, <2>3
<1> QED  BY <1>4, <1>5

(* Only what an invocation that stopped left open is reconciled.           *)
LEMMA ReconcileStepKeeps ==
    ASSUME CellsInv, NEW o \in Owners, Reconcile(o)
    PROVE  (\A d \in Cells : CellInv(d)') /\ (\A p \in Owners : OwnerInv(p)')
<1>1. /\ team' = team /\ allow' = allow /\ run' = run /\ receipt' = receipt /\ flight' = flight
      /\ pc' = pc /\ Ceased(o) /\ ledger.closed[o] = "no"
  BY DEF Reconcile, cellVars
<1>2. PICK d \in BOOLEAN : ReconcileOwner(o, d)
  BY DEF Reconcile
<1>3. BudgetInv /\ OwnerInv(o) /\ ledger.calls[o] \in Seq(CallType)
  BY DEF CellsInv, SpendInv, BudgetInv, Sound, Ledgers
<1>4. /\ OnlyOwner(o) /\ ledger'.started[o] = ledger.started[o]
      /\ ledger'.calls[o] = [k \in DOMAIN ledger.calls[o] |-> Left(ledger.calls[o][k], d)]
  BY <1>1, <1>2, <1>3, ReconcileEffect
<1>5. ASSUME NEW p \in Owners \ {o} PROVE OwnerInv(p)'
  BY <1>1, <1>4, SameOwnerKeeps DEF CellsInv, OnlyOwner
<1>6. OwnerInv(o)'
  <2>1. o[1] \in Cells /\ o[2] \in Nat /\ run[o[1]] \in Nat
    BY CellsAssumption DEF CellsInv, CellsTyped
  <2>2. ~(o[2] > run[o[1]])
    BY <1>1, <2>1 DEF Ceased
  <2>3. /\ DOMAIN ledger'.calls[o] = DOMAIN ledger.calls[o]
        /\ Len(ledger'.calls[o]) = Len(ledger.calls[o])
        /\ \A k \in DOMAIN ledger.calls[o] : /\ ledger'.calls[o][k] = Left(ledger.calls[o][k], d)
                                             /\ ledger.calls[o][k] \in CallType
    <3>1. \A k \in DOMAIN ledger.calls[o] : ledger.calls[o][k] \in CallType
      BY <1>3
    <3>2. \A k \in DOMAIN ledger.calls[o] : Left(ledger.calls[o][k], d) \in CallType
      BY <3>1, LeftCall
    <3>3. ledger'.calls[o] \in Seq(CallType) /\ DOMAIN ledger'.calls[o] = DOMAIN ledger.calls[o]
      BY <1>3, <1>4, <3>2
    <3>4. Len(ledger'.calls[o]) = Len(ledger.calls[o])
      BY <1>3, <1>4, <3>3
    <3> QED  BY <1>4, <3>1, <3>3, <3>4
  <2>4. \A k \in DOMAIN ledger.calls[o] :
            /\ ledger'.calls[o][k].cap = ledger.calls[o][k].cap
            /\ ledger'.calls[o][k].replay = ledger.calls[o][k].replay
            /\ ledger'.calls[o][k].state = "settled"
    BY <2>3, LeftCall
  <2> QED  BY <1>1, <1>3, <1>4, <2>2, <2>3, <2>4 DEF OwnerInv
<1>7. ASSUME NEW c \in Cells PROVE CellInv(c)'
  <2>1. Owner(c) \in Owners /\ Owner(c)[1] = c /\ Owner(c)[2] = run[c] /\ CellInv(c) /\ run[c] \in Nat
    BY CurrentOwner, CellsAssumption DEF CellsInv, CellsTyped, Owner
  <2>2. CASE Owner(c) # o
    <3>1. SameCell(c)
      BY <1>1, <1>4, <2>1, <2>2 DEF SameCell, OnlyOwner
    <3> QED  BY <2>1, <3>1, SameCellKeeps
  <2>3. CASE Owner(c) = o
    <3>1. pc[c] = "raised"
      BY <1>1, <2>1, <2>3 DEF Ceased
    <3> QED  BY <1>1, <2>1, <3>1 DEF CellInv, Placed, Paid, At, Over
  <2> QED  BY <2>2, <2>3
<1>8. \A p \in Owners : OwnerInv(p)'
  BY <1>5, <1>6
<1> QED  BY <1>7, <1>8

(* The clock and the request to stop change nothing of this.               *)
LEMMA IdleKeeps ==
    ASSUME CellsInv, UNCHANGED vars \/ Interrupt \/ ClockTick
    PROVE  (\A d \in Cells : CellInv(d)') /\ (\A o \in Owners : OwnerInv(o)')
<1>1. /\ team' = team /\ allow' = allow /\ run' = run /\ receipt' = receipt /\ flight' = flight
      /\ pc' = pc /\ ledger' = ledger
  BY DEF vars, cellVars, budgetVars, Interrupt, ClockTick, Tick, loop
<1>2. SameOwners
  BY <1>1 DEF SameOwners
<1>3. \A o \in Owners : OwnerInv(o)'
  BY <1>1, <1>2, StillOwners
<1>4. ASSUME NEW d \in Cells PROVE CellInv(d)'
  <2>1. SameCell(d)
    BY <1>1 DEF SameCell, SameOwner
  <2> QED  BY <2>1, SameCellKeeps DEF CellsInv
<1> QED  BY <1>3, <1>4

(* The invariant holds at the start.                                       *)
LEMMA CellsInvInit == Init => CellsInv
<1> SUFFICES ASSUME Init PROVE CellsInv
  OBVIOUS
<1>1. CellsTyped /\ SpendInv /\ BudgetInit
  BY CellsTypedInit, SpendInit DEF Init
<1>2. SameButExhausted(Fresh, ledger)
  <2>1. Fresh \in Ledgers
    BY FreshSound DEF Sound
  <2>2. ledger = Saved(Fresh)
    BY <1>1 DEF BudgetInit, Saved
  <2> QED  BY <2>1, <2>2, SavedFields
<1>3. \A o \in Owners : Untouched(o)
  BY <1>2 DEF SameButExhausted, Fresh, Untouched
<1>4. \A c \in Cells : Owner(c) \in Owners
  BY <1>1, CurrentOwner
<1>5. ASSUME NEW c \in Cells PROVE CellInv(c)
  <2>1. PackageOf[c] \in Packages
    BY CellsAssumption
  <2> QED  BY <1>3, <1>4, <2>1 DEF Init, CellInv, Placed, Paid, At
<1>6. ASSUME NEW o \in Owners PROVE OwnerInv(o)
  BY <1>3 DEF Init, OwnerInv, Untouched
<1> QED  BY <1>1, <1>5, <1>6 DEF CellsInv

(* Every step keeps the invariant.                                         *)
LEMMA CellsInvNext == CellsInv /\ [Next]_vars => CellsInv'
<1> SUFFICES ASSUME CellsInv, [Next]_vars PROVE CellsInv'
  OBVIOUS
<1> DEFINE G == (\A d \in Cells : CellInv(d)') /\ (\A o \in Owners : OwnerInv(o)')
<1>1. CellsTyped' /\ SpendInv'
  <2>1. CellsTyped /\ SpendInv
    BY DEF CellsInv
  <2>2. [BudgetNext]_budgetVars
    BY <2>1, StepIsBudgetStep DEF SpendInv
  <2> QED  BY <2>1, <2>2, CellsTypedNext, SpendNext
<1>2. ASSUME UNCHANGED vars \/ Interrupt \/ ClockTick PROVE G
  BY <1>2, IdleKeeps
<1>3. ASSUME NEW p \in Packages, TeamStep(p) \/ Crash(p) \/ Rerun(p) PROVE G
  BY <1>3, TeamStepKeeps, CrashKeeps, RerunKeeps
<1>4. ASSUME NEW o \in Owners, Reconcile(o) PROVE G
  BY <1>4, ReconcileStepKeeps
<1>5. ASSUME NEW c \in Cells, CellStep(c) \/ AccountingFails(c) PROVE G
  <2>1. CASE BeginCall(c) \/ Reserve(c) \/ Dispatch(c) \/ Settle(c) \/ Succeed(c) \/ Pause(c)
    BY <2>1, BeginCallKeeps, ReserveStepKeeps, DispatchKeeps, SettleStepKeeps, SucceedKeeps,
       PauseStepKeeps
  <2>2. CASE \/ ReuseReceipt(c) \/ LaunchCell(c) \/ Cancel(c) \/ DeadlineBeforeCall(c)
             \/ AbortCall(c) \/ Answer(c) \/ NextTurn(c) \/ FailAttempt(c) \/ Charge(c)
             \/ AccountingFails(c)
    BY <2>2, QuietStepKeeps
  <2> QED  BY <1>5, <2>1, <2>2 DEF CellStep
<1>6. G
  <2> HIDE DEF G
  <2>1. CASE UNCHANGED vars \/ Interrupt \/ ClockTick
    BY <1>2, <2>1
  <2> QED  BY <1>3, <1>4, <1>5, <2>1 DEF Next
<1> QED  BY <1>1, <1>6 DEF CellsInv

(* The invariant holds throughout.                                         *)
LEMMA CellsInvariance == Spec => []CellsInv
  BY CellsInvInit, CellsInvNext, PTL DEF Spec

(* The calls of every owner are as they were.                              *)
SameCalls == \A o \in Owners : ledger'.calls[o] = ledger.calls[o]

(* Only a reservation, a settlement and a reconciliation touch a call.     *)
LEMMA CallsStep ==
    ASSUME CellsInv, [Next]_vars
    PROVE  \/ SameCalls
           \/ \E c \in Cells : pc[c] = "reserve" /\ ReserveCall(Owner(c), Cap, FALSE) /\ Reserve(c)
           \/ \E c \in Cells : Settle(c)
           \/ \E o \in Owners : Reconcile(o)
<1>1. BudgetInv /\ CellsTyped
  BY DEF CellsInv, SpendInv
<1>2. SameOwners => SameCalls
  BY DEF SameOwners, SameCalls
<1>3. ASSUME UNCHANGED vars \/ Interrupt \/ ClockTick PROVE SameCalls
  BY <1>3 DEF vars, budgetVars, Interrupt, ClockTick, Tick, SameCalls
<1>4. ASSUME NEW p \in Packages, TeamStep(p) \/ Crash(p) \/ Rerun(p) PROVE SameCalls
  <2>1. CASE TeamStep(p)
    BY <1>1, <1>2, <2>1, QuietEffect DEF TeamStep, AdmitTeam, AcquireTeam, SkipTeam, EndTeam
  <2>2. CASE Crash(p) \/ Rerun(p)
    BY <2>2 DEF Crash, Rerun, budgetVars, SameCalls
  <2> QED  BY <1>4, <2>1, <2>2
<1>5. ASSUME NEW c \in Cells,
             \/ ReuseReceipt(c) \/ LaunchCell(c) \/ Cancel(c) \/ DeadlineBeforeCall(c)
             \/ AbortCall(c) \/ Answer(c) \/ NextTurn(c) \/ FailAttempt(c) \/ Charge(c)
             \/ AccountingFails(c) \/ Dispatch(c) \/ Succeed(c)
      PROVE  SameCalls
  <2>1. asked[c] \in Nat
    BY <1>1 DEF CellsTyped
  <2> QED  BY <1>1, <1>2, <1>5, <2>1, QuietEffect
           DEF ReuseReceipt, LaunchCell, Cancel, DeadlineBeforeCall, AbortCall, Answer,
               NextTurn, FailAttempt, Charge, AccountingFails, Dispatch, Succeed
<1>6. ASSUME NEW c \in Cells, BeginCall(c) \/ Pause(c) PROVE SameCalls
  <2>1. Owner(c) \in Owners
    BY <1>1, CurrentOwner
  <2>2. \/ ResumeExecution(Owner(c)) \/ PauseExecution(Owner(c)) \/ ledger' = ledger
    BY <1>6 DEF BeginCall, Pause, budgetVars
  <2>3. ledger' = ledger \/ (/\ OnlyOwner(Owner(c))
                             /\ ledger'.calls[Owner(c)] = ledger.calls[Owner(c)])
    BY <1>1, <2>1, <2>2, ResumeEffect, PauseEffect
  <2> QED  BY <2>1, <2>3 DEF SameCalls, OnlyOwner, SameOwner
<1>7. ASSUME NEW c \in Cells, Reserve(c)
      PROVE  SameCalls \/ (pc[c] = "reserve" /\ ReserveCall(Owner(c), Cap, FALSE))
  BY <1>1, <1>2, <1>7, QuietEffect DEF Reserve
<1> HIDE DEF SameCalls
<1>8. ASSUME NEW c \in Cells, CellStep(c) \/ AccountingFails(c)
      PROVE  \/ SameCalls \/ Settle(c)
             \/ pc[c] = "reserve" /\ ReserveCall(Owner(c), Cap, FALSE) /\ Reserve(c)
  BY <1>5, <1>6, <1>7, <1>8 DEF CellStep
<1> QED  BY <1>3, <1>4, <1>8 DEF Next

(* The calls of a cell's owner grow only while the cell has no receipt     *)
(* that revalidates and its team was admitted: once an outcome was         *)
(* published no crash, rerun or reconciliation makes the cell pay for it   *)
(* again, unless reuse_or_run refuses the receipt itself (another version, *)
(* or a result that no longer passes).                                     *)
THEOREM NeverPaidAgain == Spec => NotPaidAgain
<1> DEFINE Fair(c) ==
        ledger'.calls[Owner(c)] # ledger.calls[Owner(c)]
          => Len(ledger'.calls[Owner(c)]) = Len(ledger.calls[Owner(c)])
             \/ (receipt[c] # "valid" /\ allow[PackageOf[c]])
<1>1. ASSUME CellsInv, [Next]_vars PROVE \A c \in Cells : Fair(c)
  <2>1. CellsTyped /\ BudgetInv
    BY <1>1 DEF CellsInv, SpendInv
  <2>2. \A c \in Cells : Owner(c) \in Owners /\ Owner(c)[1] = c
    BY <2>1, CurrentOwner
  <2>3. \A o \in Owners : ledger.calls[o] \in Seq(CallType)
    BY <2>1 DEF BudgetInv, Sound, Ledgers
  <2>4. CASE SameCalls
    BY <2>2, <2>4 DEF SameCalls
  <2>5. ASSUME NEW d \in Cells, pc[d] = "reserve", ReserveCall(Owner(d), Cap, FALSE)
        PROVE  \A c \in Cells : Fair(c)
    <3>1. OnlyOwner(Owner(d))
      BY <2>1, <2>2, <2>5, ReserveEffect, CellsAssumption
    <3>2. Paid(d)
      BY <1>1 DEF CellsInv, CellInv
    <3>3. Fair(d)
      BY <2>5, <3>2 DEF Paid
    <3>4. ASSUME NEW c \in Cells, c # d PROVE Fair(c)
      <4>1. Owner(c) \in Owners \ {Owner(d)}
        BY <2>2, <3>4
      <4> QED  BY <3>1, <4>1 DEF OnlyOwner, SameOwner
    <3> QED  BY <3>3, <3>4
  <2>6. ASSUME NEW d \in Cells, Settle(d) PROVE \A c \in Cells : Fair(c)
    <3>1. PICK o \in Owners, k \in 1..MaxCalls, u \in Reports \cup {Missing}, f \in BOOLEAN :
              SettleCall(<<o, k>>, u, f)
      <4>1. SettleCall(LastCall(Owner(d)), usage[d], flight[Owner(d)])
        BY <2>6 DEF Settle
      <4>2. LastCall(Owner(d)) = <<Owner(d), Len(ledger.calls[Owner(d)])>>
            /\ LastCall(Owner(d)) \in Owners \X (1..MaxCalls)
        BY <4>1 DEF SettleCall, Live, Ids, LastCall
      <4>3. usage[d] \in Reports \cup {Missing} /\ flight[Owner(d)] \in BOOLEAN
        BY <2>1, <2>2 DEF CellsTyped
      <4> QED  BY <4>1, <4>2, <4>3
    <3>2. /\ OnlyOwner(o) /\ k \in 1..Len(ledger.calls[o]) /\ Settling(ledger.calls[o][k], u, f) \in CallType
          /\ ledger'.calls[o] = [ledger.calls[o] EXCEPT ![k] = Settling(ledger.calls[o][k], u, f)]
      BY <2>1, <3>1, SettleEffect
    <3>3. Len(ledger'.calls[o]) = Len(ledger.calls[o])
      BY <2>3, <3>2
    <3> QED  BY <2>2, <3>2, <3>3 DEF OnlyOwner, SameOwner
  <2>7. ASSUME NEW o \in Owners, Reconcile(o) PROVE \A c \in Cells : Fair(c)
    <3>1. PICK f \in BOOLEAN : ReconcileOwner(o, f) /\ ledger.closed[o] = "no"
      BY <2>7 DEF Reconcile
    <3>2. /\ OnlyOwner(o)
          /\ ledger'.calls[o] = [k \in DOMAIN ledger.calls[o] |-> Left(ledger.calls[o][k], f)]
      BY <2>1, <3>1, ReconcileEffect
    <3>3. Len(ledger'.calls[o]) = Len(ledger.calls[o])
      BY <2>3, <3>2
    <3> QED  BY <2>2, <3>2, <3>3 DEF OnlyOwner, SameOwner
  <2> HIDE DEF Fair
  <2> QED  BY <1>1, <2>4, <2>5, <2>6, <2>7, CallsStep
<1>2. CellsInv /\ [Next]_vars => [\A c \in Cells : Fair(c)]_vars
  BY <1>1
<1> QED  BY <1>2, CellsInvariance, PTL DEF Spec, NotPaidAgain

(* A cell that ended leaves no reservation open, and its owner's execution *)
(* is closed if it was ever started: settle_call and pause_execution are   *)
(* reached on every way out of run_cell that does not raise.               *)
THEOREM EndedCellsClosed == Spec => []EndedIsClosed
<1>1. ASSUME CellsInv PROVE EndedIsClosed
  <2> SUFFICES ASSUME NEW c \in Cells, pc[c] = "ended"
               PROVE  /\ LiveOf(ledger, Owner(c)) = {}
                      /\ ledger.started[Owner(c)] # Never => ledger.closed[Owner(c)] = "paused"
    BY DEF EndedIsClosed
  <2>1. At(c) /\ ledger \in Ledgers
    BY <1>1 DEF CellsInv, CellInv, SpendInv, BudgetInv, Sound
  <2>2. AllSettled(Owner(c))
    BY <2>1 DEF At
  <2>3. ASSUME NEW id \in LiveOf(ledger, Owner(c)) PROVE FALSE
    <3>1. id \in Ids(ledger) /\ id[1] = Owner(c) /\ Call(ledger, id).state = "live"
      BY DEF LiveOf, Live
    <3>2. id[2] \in DOMAIN ledger.calls[id[1]] /\ Call(ledger, id) = ledger.calls[id[1]][id[2]]
      BY <2>1, <3>1, RecordedCall
    <3> QED  BY <2>2, <3>1, <3>2 DEF AllSettled
  <2> QED  BY <2>1, <2>3 DEF At
<1> QED  BY <1>1, CellsInvariance, PTL

-----------------------------------------------------------------------------
(* Sums over the owners and over the calls.                                *)

(* Sums are added value by value, over the whole domain.                   *)
LEMMA TotalSum ==
    ASSUME NEW S, IsFiniteSet(S)
    PROVE  \A f, g, h \in [S -> Nat] : (\A x \in S : h[x] = f[x] + g[x])
              => Total(h, S) = Total(f, S) + Total(g, S)
<1>1. S \in SUBSET S
  OBVIOUS
<1>2. \A D : S \in SUBSET D => \A f, g, h \in [D -> Nat] :
          (\A x \in S : h[x] = f[x] + g[x]) => Total(h, S) = Total(f, S) + Total(g, S)
  BY TotalPlus
<1> QED  BY <1>1, <1>2, Zenon

(* A sum that counts one element only.                                     *)
LEMMA TotalOne ==
    ASSUME NEW S, IsFiniteSet(S), NEW x, NEW d \in Nat, x \in S \/ d = 0
    PROVE  Total([y \in S |-> IF y = x THEN d ELSE 0], S) = d
<1> DEFINE f == [y \in S |-> IF y = x THEN d ELSE 0]
<1>1. f \in [S -> Nat] /\ (\A y \in S \ {x} : f[y] = 0) /\ (x \in S => f[x] = d)
  OBVIOUS
<1> HIDE DEF f
<1>2. Total(f, {}) = 0 /\ IsFiniteSet({}) /\ {} \in SUBSET S
  BY TotalEmpty, FS_EmptySet
<1>3. CASE x \in S
  <2>1. Total(f, {} \cup {x}) = Total(f, {}) + f[x]
    BY <1>1, <1>2, <1>3, TotalAdd
  <2>2. {} \cup {x} = {x} /\ {x} \in SUBSET S /\ S \in SUBSET S
    BY <1>3
  <2>3. Total(f, {x}) = Total(f, S)
    BY <1>1, <2>2, TotalFilter
  <2> QED  BY <1>1, <1>2, <1>3, <2>1, <2>2, <2>3 DEF f
<1>4. CASE x \notin S
  <2>1. \A y \in S \ {} : f[y] = 0
    BY <1>1, <1>4
  <2>2. S \in SUBSET S
    OBVIOUS
  <2>3. Total(f, {}) = Total(f, S)
    BY <1>1, <1>2, <2>1, <2>2, TotalFilter
  <2> QED  BY <1>2, <1>4, <2>3 DEF f
<1> QED  BY <1>3, <1>4

(* A sum changes by what its one changed element does.                     *)
LEMMA TotalChange ==
    ASSUME NEW S, IsFiniteSet(S), NEW f \in [S -> Nat], NEW g \in [S -> Nat], NEW x \in S,
           NEW d \in Nat, g[x] = f[x] + d, \A y \in S \ {x} : g[y] = f[y]
    PROVE  Total(g, S) = Total(f, S) + d
<1> DEFINE e == [y \in S |-> IF y = x THEN d ELSE 0]
<1>1. e \in [S -> Nat] /\ (\A y \in S : g[y] = f[y] + e[y]) /\ S \in SUBSET S
  OBVIOUS
<1>2. Total(e, S) = d
  BY TotalOne
<1> HIDE DEF e
<1>3. Total(g, S) = Total(f, S) + Total(e, S)
  BY <1>1, TotalSum
<1> QED  BY <1>2, <1>3

(* A sum is bounded by one over the images of its elements.                *)
LEMMA TotalImage ==
    ASSUME NEW S, IsFiniteSet(S), NEW T, IsFiniteSet(T), NEW f \in [S -> Nat], NEW g \in [T -> Nat],
           NEW h \in [S -> T], \A x, y \in S : h[x] = h[y] => x = y, \A x \in S : f[x] <= g[h[x]]
    PROVE  Total(f, S) <= Total(g, T)
<1> DEFINE I(s) == {h[x] : x \in s}
           Bad == {s \in SUBSET S : ~(Total(f, s) <= Total(g, I(s)))}
<1>1. Bad = {}
  <2> SUFFICES ASSUME Bad # {} PROVE FALSE
    OBVIOUS
  <2>1. PICK s \in Bad : \A u \in Bad : u \subseteq s => u = s
    <3>1. Bad \in SUBSET (SUBSET S)
      OBVIOUS
    <3> HIDE DEF Bad
    <3> QED  BY <3>1, SmallestSubset
  <2>2. s \in SUBSET S /\ ~(Total(f, s) <= Total(g, I(s)))
    BY <2>1
  <2>3. s # {}
    <3>1. ASSUME s = {} PROVE FALSE
      <4>1. I(s) = {}
        BY <3>1
      <4>2. Total(f, s) = 0 /\ Total(g, I(s)) = 0
        <5> HIDE DEF I
        <5> QED  BY <3>1, <4>1, TotalEmpty
      <4> HIDE DEF I
      <4> QED  BY <2>2, <4>2
    <3> QED  BY <3>1
  <2>4. PICK x \in s : TRUE
    BY <2>3
  <2> DEFINE u == s \ {x}
  <2>5. /\ u \in SUBSET S /\ x \notin u /\ x \in S /\ u \cup {x} = s /\ u \subseteq s /\ u # s
        /\ h[x] \in T /\ h[x] \notin I(u) /\ I(u) \cup {h[x]} = I(s) /\ I(u) \in SUBSET T
        /\ f[x] <= g[h[x]] /\ f[x] \in Nat /\ g[h[x]] \in Nat
    BY <2>2, <2>4
  <2>6. Total(f, u) <= Total(g, I(u))
    BY <2>1, <2>5
  <2> HIDE DEF u, Bad, I
  <2>7. IsFiniteSet(u) /\ IsFiniteSet(I(u))
    BY <2>5, FS_Subset
  <2>8. Total(f, s) = Total(f, u) + f[x] /\ Total(f, u) \in Nat
    BY <2>5, <2>7, TotalAdd, TotalType
  <2>9. Total(g, I(s)) = Total(g, I(u)) + g[h[x]] /\ Total(g, I(u)) \in Nat
    <3>1. PICK v, y : v = I(u) /\ y = h[x]
      OBVIOUS
    <3>2. v \in SUBSET T /\ y \in T /\ y \notin v /\ v \cup {y} = I(s) /\ IsFiniteSet(v)
      BY <2>5, <2>7, <3>1
    <3>3. Total(g, v \cup {y}) = Total(g, v) + g[y] /\ Total(g, v) \in Nat
      BY <3>2, TotalAdd, TotalType, SMTT(30)
    <3> QED  BY <3>1, <3>2, <3>3
  <2> QED  BY <2>2, <2>5, <2>6, <2>8, <2>9
<1>2. Total(f, S) <= Total(g, I(S))
  BY <1>1
<1>3. I(S) \in SUBSET T /\ S \in SUBSET S /\ T \in SUBSET T
  OBVIOUS
<1> HIDE DEF I, Bad
<1>4. Total(g, I(S)) <= Total(g, T)
  BY <1>3, TotalWider
<1>5. Total(f, S) \in Nat /\ Total(g, I(S)) \in Nat /\ Total(g, T) \in Nat
  <2>1. IsFiniteSet(I(S))
    BY <1>3, FS_Subset
  <2> QED  BY <1>3, <2>1, TotalType
<1> QED  BY <1>2, <1>4, <1>5

(* What all owners spent.                                                  *)
LEMMA SpentTotal ==
    ASSUME NEW S, IsFiniteSet(S), NEW f
    PROVE  MapThenSumSet(LAMBDA o : f[o], S) = Total(f, S)
<1> DEFINE Fold(g) == g = [s \in SUBSET S |->
               IF s = {} THEN 0
               ELSE f[CHOOSE x \in s : TRUE] + g[s \ {CHOOSE x \in s : TRUE}]]
           iter == CHOOSE g : Fold(g)
<1>1. MapThenSumSet(LAMBDA o : f[o], S) = iter[S]
  BY Zenon DEF MapThenSumSet, MapThenFoldSet
<1>2. \A g : IsTotal(g, f, S) <=> Fold(g)
  BY DEF IsTotal, Pick
<1>3. \E g : Fold(g)
  <2> HIDE DEF Fold
  <2> QED  BY <1>2, TotalExists
<1>4. Fold(iter)
  <2> HIDE DEF Fold
  <2> QED  BY <1>3, Zenon
<1> HIDE DEF Fold, iter
<1>5. IsTotal(iter, f, S)
  BY <1>2, <1>4
<1> QED  BY <1>1, <1>5, TotalIsTotal

(* There are finitely many owners and calls.                               *)
LEMMA FiniteBase == IsFiniteSet(Owners) /\ IsFiniteSet(Base)
<1>1. IsFiniteSet(1..MaxRuns) /\ IsFiniteSet(1..MaxCalls)
  BY FS_Interval, CellsAssumption, BudgetAssumption
<1>2. IsFiniteSet(Owners)
  BY <1>1, FS_Product, CellsAssumption
<1> QED  BY <1>1, <1>2, FS_Product DEF Base

(* An inequality of three sums is kept when it is kept at every element.   *)
LEMMA TotalCovers ==
    ASSUME NEW S, IsFiniteSet(S), NEW f \in [S -> Nat], NEW g \in [S -> Nat],
           NEW f1 \in [S -> Nat], NEW g1 \in [S -> Nat],
           NEW a \in Nat, NEW b \in Nat, NEW x, NEW d \in Nat, x \in S \/ d = 0, b = a + d,
           Total(f, S) <= a + Total(g, S),
           \A y \in S : f1[y] + g[y] <= f[y] + g1[y] + IF y = x THEN d ELSE 0
    PROVE  Total(f1, S) <= b + Total(g1, S)
<1> DEFINE e == [y \in S |-> IF y = x THEN d ELSE 0]
           l == [y \in S |-> f1[y] + g[y]]
           r == [y \in S |-> f[y] + g1[y]]
           m == [y \in S |-> r[y] + e[y]]
<1>0. \A u, v, w \in [S -> Nat] : (\A y \in S : w[y] = u[y] + v[y])
          => Total(w, S) = Total(u, S) + Total(v, S)
  BY TotalSum
<1>1. /\ S \in SUBSET S /\ e \in [S -> Nat] /\ l \in [S -> Nat] /\ r \in [S -> Nat]
      /\ m \in [S -> Nat]
  OBVIOUS
<1>2. /\ \A y \in S : l[y] = f1[y] + g[y]
      /\ \A y \in S : r[y] = f[y] + g1[y]
      /\ \A y \in S : m[y] = r[y] + e[y]
      /\ \A y \in S : l[y] <= m[y]
  OBVIOUS
<1>3. Total(e, S) = d
  BY TotalOne
<1> HIDE DEF e, l, r, m
<1>4. Total(l, S) = Total(f1, S) + Total(g, S)
  <2>1. \A y \in S : l[y] = f1[y] + g[y]
    BY <1>2
  <2>2. f1 \in [S -> Nat] /\ g \in [S -> Nat] /\ l \in [S -> Nat]
    BY <1>1
  <2> QED  BY <1>0, <2>1, <2>2, Zenon
<1>5. Total(r, S) = Total(f, S) + Total(g1, S)
  <2>1. \A y \in S : r[y] = f[y] + g1[y]
    BY <1>2
  <2>2. f \in [S -> Nat] /\ g1 \in [S -> Nat] /\ r \in [S -> Nat]
    BY <1>1
  <2> QED  BY <1>0, <2>1, <2>2, Zenon
<1>6. Total(m, S) = Total(r, S) + Total(e, S)
  <2>1. \A y \in S : m[y] = r[y] + e[y]
    BY <1>2
  <2>2. r \in [S -> Nat] /\ e \in [S -> Nat] /\ m \in [S -> Nat]
    BY <1>1
  <2> QED  BY <1>0, <2>1, <2>2, Zenon
<1>7. Total(l, S) <= Total(m, S)
  BY <1>1, <1>2, TotalLeq
<1>8. /\ Total(f, S) \in Nat /\ Total(g, S) \in Nat /\ Total(f1, S) \in Nat
      /\ Total(g1, S) \in Nat
  BY <1>1, TotalType
<1> QED  BY <1>3, <1>4, <1>5, <1>6, <1>7, <1>8

-----------------------------------------------------------------------------
(* What the settled calls cover, and what is due of the open ones.         *)

(* What the k-th of an owner's calls counts for once it is settled.        *)
Worth(s, k) ==
    IF k <= Len(s) /\ s[k].state = "settled" /\ s[k].dispatched /\ ~s[k].replay
    THEN IF s[k].usage = Missing THEN s[k].cap ELSE s[k].usage
    ELSE 0

(* What each place of the document counts for once it is settled.          *)
WorthOf(l) == [id \in Base |-> Worth(l.calls[id[1]], id[2])]

(* What an owner's open call may have spent already: nothing before the    *)
(* provider answers, then what it reported up to the maximum, else the     *)
(* maximum.                                                                *)
Due(o) ==
    IF ~flight[o] \/ ~LastLive(o) THEN 0
    ELSE IF o = Owner(o[1]) /\ pc[o[1]] = "sent" THEN 0
    ELSE IF o = Owner(o[1]) /\ pc[o[1]] = "settle" /\ usage[o[1]] # Missing /\ usage[o[1]] <= Cap
    THEN usage[o[1]]
    ELSE Cap

(* What is due of each owner.                                              *)
DueOf == [o \in Owners |-> Due(o)]

(* All that was spent is covered by settled calls and what is due.         *)
Covered == Total(spent, Owners) <= Total(WorthOf(ledger), Base) + Total(DueOf, Owners)

(* What is due is a number up to the maximum.                              *)
LEMMA DueType ==
    ASSUME CellsTyped, NEW o \in Owners PROVE Due(o) \in Nat /\ Due(o) <= Cap
<1>1. o[1] \in Cells /\ Cap \in Nat
  BY CellsAssumption, BudgetAssumption
<1>2. usage[o[1]] \in Nat \cup {Missing}
  BY <1>1, BudgetAssumption DEF CellsTyped
<1> QED  BY <1>1, <1>2 DEF Due, Missing

(* What a settled call counts for is a number.                             *)
LEMMA WorthType == ASSUME NEW l \in Ledgers PROVE WorthOf(l) \in [Base -> Nat]
<1>1. ASSUME NEW id \in Base PROVE Worth(l.calls[id[1]], id[2]) \in Nat
  <2> DEFINE s == l.calls[id[1]]
             k == id[2]
  <2>0. id[1] \in Owners /\ k \in 1..MaxCalls
    BY DEF Base
  <2>1. s \in Seq(CallType) /\ k \in Nat /\ k >= 1
    <3>1. l.calls \in [Owners -> Seq(CallType)]
      BY DEF Ledgers
    <3> QED  BY <2>0, <3>1
  <2> HIDE DEF s, k
  <2>2. CASE k <= Len(s)
    <3>1. s[k] \in CallType
      BY <2>1, <2>2
    <3>2. s[k].cap \in Nat /\ s[k].usage \in Nat \cup {Missing}
      BY <3>1, BudgetAssumption DEF CallType
    <3> QED  BY <3>2 DEF Worth, s, k
  <2>3. CASE ~(k <= Len(s))
    BY <2>3 DEF Worth, s, k
  <2> QED  BY <2>2, <2>3
<1> QED  BY <1>1 DEF WorthOf

(* Covered is kept by a step that is paid for at every owner.              *)
LEMMA CoveredKept ==
    ASSUME CellsInv, Covered, CellsInv', NEW x, NEW d \in Nat, x \in Owners \/ d = 0,
           Total(WorthOf(ledger'), Base) = Total(WorthOf(ledger), Base) + d,
           \A o \in Owners : spent'[o] + Due(o) <= spent[o] + Due(o)' + IF o = x THEN d ELSE 0
    PROVE  Covered'
<1> DEFINE g == [o \in Owners |-> Due(o)]
           h == [o \in Owners |-> Due(o)']
           a == Total(WorthOf(ledger), Base)
           b == Total(WorthOf(ledger'), Base)
<1>1. CellsTyped /\ CellsTyped' /\ ledger \in Ledgers /\ ledger' \in Ledgers
  BY DEF CellsInv, SpendInv, BudgetInv, Sound
<1>2. spent \in [Owners -> Nat] /\ spent' \in [Owners -> Nat]
  BY <1>1 DEF CellsTyped
<1>3. g \in [Owners -> Nat]
  BY <1>1, DueType
<1>4. h \in [Owners -> Nat]
  <2>1. \A o \in Owners : o[1] \in Cells /\ Cap \in Nat
    BY CellsAssumption, BudgetAssumption
  <2>2. \A o \in Owners : usage'[o[1]] \in Nat \cup {Missing}
    BY <1>1, <2>1, BudgetAssumption DEF CellsTyped
  <2>3. \A o \in Owners : Due(o)' \in Nat
    BY <2>1, <2>2 DEF Due, Missing
  <2> QED  BY <2>3
<1>5. a \in Nat /\ b \in Nat
  <2>1. WorthOf(ledger) \in [Base -> Nat] /\ WorthOf(ledger') \in [Base -> Nat]
    BY <1>1, WorthType
  <2>2. Base \in SUBSET Base
    OBVIOUS
  <2> QED  BY <2>1, <2>2, FiniteBase, TotalType
<1>6. \A o \in Owners : spent'[o] + g[o] <= spent[o] + h[o] + IF o = x THEN d ELSE 0
  OBVIOUS
<1>7. Total(spent, Owners) <= a + Total(g, Owners) /\ b = a + d
  BY DEF Covered, DueOf
<1> HIDE DEF g, h, a, b
<1>8. Total(spent', Owners) <= b + Total(h, Owners)
  <2>1. PICK f \in [Owners -> Nat], f1 \in [Owners -> Nat], g0 \in [Owners -> Nat],
             h0 \in [Owners -> Nat], a0 \in Nat, b0 \in Nat :
          f = spent /\ f1 = spent' /\ g0 = g /\ h0 = h /\ a0 = a /\ b0 = b
    BY <1>2, <1>3, <1>4, <1>5
  <2>2. /\ Total(f, Owners) <= a0 + Total(g0, Owners) /\ b0 = a0 + d /\ IsFiniteSet(Owners)
        /\ \A o \in Owners : f1[o] + g0[o] <= f[o] + h0[o] + IF o = x THEN d ELSE 0
    BY <1>6, <1>7, <2>1, FiniteBase
  <2>3. Total(f1, Owners) <= b0 + Total(h0, Owners)
    BY <2>2, TotalCovers
  <2> QED  BY <2>1, <2>3
<1> QED  BY <1>8 DEF Covered, DueOf, b, h

(* Steps that leave the calls alone leave what is settled alone.           *)
LEMMA WorthSame ==
    ASSUME SameCalls PROVE WorthOf(ledger') = WorthOf(ledger)
  BY DEF SameCalls, WorthOf, Base

(* One call of one owner is settled, or none.                              *)
LEMMA WorthSettled ==
    ASSUME BudgetInv, BudgetInv', NEW o \in Owners, NEW n \in 1..MaxCalls, NEW d \in Nat, OnlyOwner(o),
           \A k \in (1..MaxCalls) \ {n} : Worth(ledger'.calls[o], k) = Worth(ledger.calls[o], k),
           Worth(ledger'.calls[o], n) = Worth(ledger.calls[o], n) + d
    PROVE  Total(WorthOf(ledger'), Base) = Total(WorthOf(ledger), Base) + d
<1> DEFINE f == WorthOf(ledger)
           g == WorthOf(ledger')
           x == <<o, n>>
<1>1. f \in [Base -> Nat] /\ g \in [Base -> Nat]
  BY WorthType DEF BudgetInv, Sound
<1>2. x \in Base /\ g[x] = f[x] + d
  BY DEF Base, WorthOf
<1>3. ASSUME NEW y \in Base \ {x} PROVE g[y] = f[y]
  <2>1. y[1] \in Owners /\ y[2] \in 1..MaxCalls /\ (y[1] # o \/ y[2] # n)
    BY DEF Base
  <2>2. Worth(ledger'.calls[y[1]], y[2]) = Worth(ledger.calls[y[1]], y[2])
    BY <2>1 DEF OnlyOwner, SameOwner
  <2> QED  BY <2>2 DEF WorthOf
<1> HIDE DEF f, g, x
<1>4. Total(g, Base) = Total(f, Base) + d
  <2>1. \A y \in Base \ {x} : g[y] = f[y]
    BY <1>3
  <2> QED  BY <1>1, <1>2, <2>1, FiniteBase, TotalChange
<1> QED  BY <1>4 DEF f, g

(* A cell that a step does not bring nearer to an answer.                  *)
Steady(c) ==
    \/ pc'[c] \notin {"sent", "settle"}
    \/ pc'[c] = pc[c] /\ usage'[c] = usage[c] /\ run'[c] = run[c]
    \/ ~flight[<<c, run'[c]>>]

(* What is due does not shrink while no cell settles and none is sent.     *)
LEMMA SteadyDue ==
    ASSUME CellsInv, NEW o \in Owners, ledger'.calls[o] = ledger.calls[o], flight'[o] = flight[o],
           Steady(o[1])
    PROVE  Due(o) <= Due(o)'
<1>1. CellsTyped /\ Due(o) \in Nat /\ Due(o) <= Cap /\ Cap \in Nat
  BY DueType, CellsAssumption, BudgetAssumption DEF CellsInv
<1>2. o[1] \in Cells /\ o = <<o[1], o[2]>>
  BY CellsAssumption
<1>3. LastLive(o)' <=> LastLive(o)
  BY DEF LastLive
<1>4. CASE ~flight[o] \/ ~LastLive(o)
  BY <1>3, <1>4 DEF Due
<1>5. CASE flight[o] /\ LastLive(o) /\ o # Owner(o[1])'
  BY <1>1, <1>3, <1>5 DEF Due
<1>6. CASE flight[o] /\ LastLive(o) /\ o = Owner(o[1])'
  <2>1. \/ pc'[o[1]] \notin {"sent", "settle"}
        \/ pc'[o[1]] = pc[o[1]] /\ usage'[o[1]] = usage[o[1]] /\ run'[o[1]] = run[o[1]]
    BY <1>6 DEF Steady, Owner
  <2>2. CASE pc'[o[1]] \notin {"sent", "settle"}
    BY <1>1, <1>3, <1>6, <2>2 DEF Due
  <2>3. CASE pc'[o[1]] = pc[o[1]] /\ usage'[o[1]] = usage[o[1]] /\ run'[o[1]] = run[o[1]]
    BY <1>1, <1>3, <2>3 DEF Due, Owner
  <2> QED  BY <2>1, <2>2, <2>3
<1> QED  BY <1>4, <1>5, <1>6

(* The steps that neither spend nor settle.                                *)
LEMMA SteadyKeeps ==
    ASSUME CellsInv, Covered, CellsInv', SameCalls, flight' = flight, spent' = spent,
           \A c \in Cells : Steady(c)
    PROVE  Covered'
<1>1. WorthOf(ledger') = WorthOf(ledger)
  BY WorthSame
<1>2. ASSUME NEW o \in Owners PROVE spent'[o] + Due(o) <= spent[o] + Due(o)' + 0
  <2>1. o[1] \in Cells
    BY CellsAssumption
  <2>2. Due(o) <= Due(o)'
    BY <2>1, SteadyDue DEF SameCalls
  <2>3. Due(o) \in Nat /\ spent[o] \in Nat
    BY DueType DEF CellsInv, CellsTyped
  <2>4. Due(o)' \in Nat
    <3>1. usage'[o[1]] \in Nat \cup {Missing} /\ Cap \in Nat
      BY <2>1, CellsAssumption, BudgetAssumption DEF CellsInv, CellsTyped
    <3> QED  BY <3>1 DEF Due, Missing
  <2> QED  BY <2>2, <2>3, <2>4
<1>3. Total(WorthOf(ledger), Base) \in Nat
  <2>1. WorthOf(ledger) \in [Base -> Nat] /\ Base \in SUBSET Base
    BY WorthType DEF CellsInv, SpendInv, BudgetInv, Sound
  <2> QED  BY <2>1, FiniteBase, TotalType
<1>4. PICK x, d : d = 0 /\ x = 0
  OBVIOUS
<1>5. Total(WorthOf(ledger'), Base) = Total(WorthOf(ledger), Base) + d
  BY <1>1, <1>3, <1>4
<1>6. \A o \in Owners : spent'[o] + Due(o) <= spent[o] + Due(o)' + IF o = x THEN d ELSE 0
  BY <1>2, <1>4
<1> QED  BY <1>4, <1>5, <1>6, CoveredKept

(* The steps of a cell that neither send nor settle a call.                *)
LEMMA QuietCovered ==
    ASSUME CellsInv, Covered, CellsInv', NEW c \in Cells,
           \/ ReuseReceipt(c) \/ LaunchCell(c) \/ Cancel(c) \/ DeadlineBeforeCall(c)
           \/ AbortCall(c) \/ NextTurn(c) \/ FailAttempt(c) \/ Charge(c)
           \/ AccountingFails(c) \/ Succeed(c) \/ BeginCall(c) \/ Pause(c), SameCalls
    PROVE  Covered'
<1>1. /\ flight' = flight /\ spent' = spent /\ usage' = usage /\ run' = run
  BY DEF ReuseReceipt, LaunchCell, Cancel, DeadlineBeforeCall, AbortCall,
         NextTurn, FailAttempt, Charge, AccountingFails, Succeed, BeginCall, Pause, loop
<1>2. PICK x : /\ pc' = [pc EXCEPT ![c] = x]
               /\ x \notin {"sent", "settle"} \/ (x = "settle" /\ pc[c] = "reserved")
  BY DEF ReuseReceipt, LaunchCell, Cancel, DeadlineBeforeCall, AbortCall, NextTurn, FailAttempt,
         Charge, AccountingFails, Succeed, BeginCall, Pause, Goto
<1>3. \A d \in Cells : pc'[d] = IF d = c THEN x ELSE pc[d]
  BY <1>2 DEF CellsInv, CellsTyped
<1>4. pc[c] = "reserved" => ~flight[Owner(c)]
  BY DEF CellsInv, CellInv, At
<1>5. \A d \in Cells : Steady(d)
  BY <1>1, <1>2, <1>3, <1>4 DEF Steady, Owner
<1> QED  BY <1>1, <1>5, SteadyKeeps

(* The steps of teams, the clock, the stop request and a new invocation.   *)
LEMMA RestCovered ==
    ASSUME CellsInv, Covered, CellsInv', SameCalls,
           \/ UNCHANGED vars \/ Interrupt \/ ClockTick
           \/ \E p \in Packages : TeamStep(p) \/ Rerun(p)
    PROVE  Covered'
<1>1. flight' = flight /\ spent' = spent
  BY DEF vars, cellVars, Interrupt, ClockTick, TeamStep, AdmitTeam, AcquireTeam, SkipTeam, EndTeam,
         Rerun
<1>2. ASSUME NEW c \in Cells PROVE Steady(c)
  <2>1. CASE UNCHANGED vars \/ Interrupt \/ ClockTick
    BY <2>1 DEF vars, cellVars, Interrupt, ClockTick, loop, Steady
  <2>2. ASSUME NEW p \in Packages, TeamStep(p) PROVE Steady(c)
    BY <2>2 DEF TeamStep, AdmitTeam, AcquireTeam, SkipTeam, EndTeam, loop, Steady
  <2>3. ASSUME NEW p \in Packages, Rerun(p) PROVE Steady(c)
    BY <2>3 DEF Rerun, Steady
  <2> QED  BY <2>1, <2>2, <2>3
<1> QED  BY <1>1, <1>2, SteadyKeeps

(* A step that concerns one owner is paid for when that owner is.          *)
LEMMA LocalCovered ==
    ASSUME CellsInv, Covered, CellsInv', NEW x \in Owners, NEW d \in Nat, OnlyOwner(x), run' = run,
           \A o \in Owners \ {x} : flight'[o] = flight[o] /\ spent'[o] = spent[o],
           \A c \in Cells \ {x[1]} : pc'[c] = pc[c] /\ usage'[c] = usage[c],
           x = Owner(x[1]) \/ (pc' = pc /\ usage' = usage),
           Total(WorthOf(ledger'), Base) = Total(WorthOf(ledger), Base) + d,
           spent'[x] + Due(x) <= spent[x] + Due(x)' + d
    PROVE  Covered'
<1>1. ASSUME NEW o \in Owners \ {x}
      PROVE  spent'[o] + Due(o) <= spent[o] + Due(o)' + 0
  <2>1. /\ o[1] \in Cells /\ o \in Owners /\ o = <<o[1], o[2]>> /\ x = <<x[1], x[2]>>
        /\ ledger'.calls[o] = ledger.calls[o] /\ flight'[o] = flight[o] /\ spent'[o] = spent[o]
    BY CellsAssumption DEF OnlyOwner, SameOwner
  <2>2. /\ Due(o) \in Nat /\ Due(o) <= Cap /\ spent[o] \in Nat /\ Cap \in Nat
        /\ usage'[o[1]] \in Nat \cup {Missing}
    BY <2>1, DueType, CellsAssumption, BudgetAssumption DEF CellsInv, CellsTyped
  <2>3. Due(o)' \in Nat
    BY <2>2 DEF Due, Missing
  <2>4. CASE o[1] # x[1] \/ (pc' = pc /\ usage' = usage)
    <3>1. Steady(o[1])
      BY <2>1, <2>4 DEF Steady
    <3>2. Due(o) <= Due(o)'
      BY <2>1, <3>1, SteadyDue
    <3> QED  BY <2>1, <2>2, <2>3, <3>2
  <2>5. CASE o[1] = x[1] /\ x = Owner(x[1])
    <3>1. o # Owner(o[1])' /\ (LastLive(o)' <=> LastLive(o))
      BY <2>1, <2>5 DEF Owner, LastLive
    <3>2. Due(o) <= Due(o)'
      BY <2>1, <2>2, <3>1 DEF Due
    <3> QED  BY <2>1, <2>2, <2>3, <3>2
  <2> QED  BY <2>4, <2>5
<1>2. \A o \in Owners : spent'[o] + Due(o) <= spent[o] + Due(o)' + IF o = x THEN d ELSE 0
  BY <1>1
<1> QED  BY <1>2, CoveredKept

(* The sum of what is settled, when it does not change.                    *)
LEMMA WorthKept ==
    ASSUME CellsInv, SameCalls PROVE Total(WorthOf(ledger'), Base) = Total(WorthOf(ledger), Base) + 0
<1>1. WorthOf(ledger) \in [Base -> Nat] /\ Base \in SUBSET Base
  BY WorthType DEF CellsInv, SpendInv, BudgetInv, Sound
<1>2. Total(WorthOf(ledger), Base) \in Nat
  BY <1>1, FiniteBase, TotalType
<1> QED  BY <1>2, WorthSame

(* A call that was sent has spent nothing yet.                             *)
LEMMA DispatchCovered ==
    ASSUME CellsInv, Covered, CellsInv', NEW c \in Cells, Dispatch(c)
    PROVE  Covered'
<1> DEFINE o == Owner(c)
<1>1. CellsTyped /\ At(c) /\ o \in Owners /\ o[1] = c /\ o' = o
  BY CurrentOwner DEF CellsInv, CellInv, Dispatch, Owner, loop
<1>2. /\ pc[c] = "reserved" /\ pc' = [pc EXCEPT ![c] = "sent"] /\ ledger' = ledger
      /\ run' = run /\ usage' = usage /\ spent' = spent /\ flight' = [flight EXCEPT ![o] = TRUE]
  BY DEF Dispatch, Goto, loop, budgetVars
<1>3. ~flight[o] /\ Due(o) = 0
  BY <1>1, <1>2 DEF At, Due
<1>4. Due(o)' = 0
  BY <1>1, <1>2 DEF Due, CellsTyped
<1>5. SameCalls /\ OnlyOwner(o)
  BY <1>2 DEF SameCalls, OnlyOwner, SameOwner
<1>6. /\ \A p \in Owners \ {o} : flight'[p] = flight[p] /\ spent'[p] = spent[p]
      /\ \A e \in Cells \ {o[1]} : pc'[e] = pc[e] /\ usage'[e] = usage[e]
      /\ spent'[o] + Due(o) <= spent[o] + Due(o)' + 0
  BY <1>1, <1>2, <1>3, <1>4 DEF CellsTyped
<1>7. Total(WorthOf(ledger'), Base) = Total(WorthOf(ledger), Base) + 0
  BY <1>5, WorthKept
<1>8. PICK x \in Owners, d \in Nat : x = o /\ d = 0
  BY <1>1
<1> QED  BY <1>1, <1>2, <1>5, <1>6, <1>7, <1>8, LocalCovered

(* What the provider answers is spent and due, up to the maximum.          *)
LEMMA AnswerCovered ==
    ASSUME CellsInv, Covered, CellsInv', NEW c \in Cells, Answer(c)
    PROVE  Covered'
<1> DEFINE o == Owner(c)
<1>1. /\ CellsTyped /\ At(c) /\ o \in Owners /\ o[1] = c /\ o' = o /\ Cap \in Nat
      /\ spent[o] \in Nat
  BY CurrentOwner, CellsAssumption, BudgetAssumption
     DEF CellsInv, CellInv, CellsTyped, Answer, Owner, loop
<1>2. /\ pc[c] = "sent" /\ pc' = [pc EXCEPT ![c] = "settle"] /\ ledger' = ledger
      /\ run' = run /\ flight' = flight
  BY DEF Answer, Goto, loop, budgetVars
<1>3. PICK s \in Reports, reported \in BOOLEAN :
          /\ ~reported => s <= Cap
          /\ usage' = [usage EXCEPT ![c] = IF reported THEN s ELSE Missing]
          /\ spent' = [spent EXCEPT ![o] = @ + IF s > Cap THEN Cap ELSE s]
  BY DEF Answer
<1>4. s \in Nat /\ usage'[c] = (IF reported THEN s ELSE Missing)
      /\ spent'[o] = spent[o] + IF s > Cap THEN Cap ELSE s
  BY <1>1, <1>3, BudgetAssumption DEF CellsTyped
<1>5. flight[o] /\ LastLive(o) /\ LastLive(o)' /\ pc'[c] = "settle" /\ flight'[o]
  BY <1>1, <1>2 DEF At, LastLive, CellsTyped
<1>6. Due(o) = 0
  BY <1>1, <1>2 DEF Due
<1>7. Due(o)' = IF reported /\ s <= Cap THEN s ELSE Cap
  BY <1>1, <1>4, <1>5 DEF Due, Missing
<1>8. SameCalls /\ OnlyOwner(o)
  BY <1>2 DEF SameCalls, OnlyOwner, SameOwner
<1>9. /\ \A p \in Owners \ {o} : flight'[p] = flight[p] /\ spent'[p] = spent[p]
      /\ \A e \in Cells \ {o[1]} : pc'[e] = pc[e] /\ usage'[e] = usage[e]
  BY <1>1, <1>2, <1>3 DEF CellsTyped
<1>10. spent'[o] + Due(o) <= spent[o] + Due(o)' + 0
  BY <1>1, <1>3, <1>4, <1>6, <1>7
<1>11. Total(WorthOf(ledger'), Base) = Total(WorthOf(ledger), Base) + 0
  BY <1>8, WorthKept
<1>12. PICK x \in Owners, d \in Nat : x = o /\ d = 0
  BY <1>1
<1> QED  BY <1>1, <1>2, <1>8, <1>9, <1>10, <1>11, <1>12, LocalCovered

(* A call in flight when the process dies may cost its maximum, and that   *)
(* much becomes due.                                                       *)
LEMMA CrashCovered ==
    ASSUME CellsInv, Covered, CellsInv', NEW p \in Packages, Crash(p)
    PROVE  Covered'
<1>1. /\ run' = run /\ flight' = flight /\ SameCalls
      /\ \A c \in Cells : pc'[c] = IF c \in CellsOf(p) /\ pc[c] \notin Over THEN "raised" ELSE pc[c]
      /\ \A c \in Cells : c \notin CellsOf(p) => usage'[c] = usage[c]
      /\ \A o \in Owners : spent'[o] =
             IF PackageOf[o[1]] = p /\ o = Owner(o[1]) /\ pc[o[1]] = "sent"
             THEN spent[o] + Cap ELSE spent[o]
  BY DEF Crash, loop, budgetVars, SameCalls
<1>2. ASSUME NEW o \in Owners PROVE spent'[o] + Due(o) <= spent[o] + Due(o)' + 0
  <2>1. /\ o[1] \in Cells /\ Due(o) \in Nat /\ spent[o] \in Nat /\ Cap \in Nat
        /\ usage'[o[1]] \in Nat \cup {Missing} /\ ledger'.calls[o] = ledger.calls[o]
        /\ flight'[o] = flight[o]
    BY <1>1, DueType, CellsAssumption, BudgetAssumption DEF CellsInv, CellsTyped, SameCalls
  <2>2. Due(o)' \in Nat
    BY <2>1 DEF Due, Missing
  <2>3. CASE PackageOf[o[1]] = p /\ o = Owner(o[1]) /\ pc[o[1]] = "sent"
    <3>1. At(o[1])
      BY <2>1 DEF CellsInv, CellInv
    <3>2. flight[o] /\ LastLive(o) /\ Due(o) = 0
      BY <2>3, <3>1 DEF At, Due
    <3>3. pc'[o[1]] = "raised" /\ flight'[o] /\ LastLive(o)'
      BY <1>1, <2>1, <2>3, <3>2 DEF CellsOf, Over, LastLive
    <3>4. Due(o)' = Cap
      BY <3>3 DEF Due
    <3> QED  BY <1>1, <2>1, <2>3, <3>2, <3>4
  <2>4. CASE ~(PackageOf[o[1]] = p /\ o = Owner(o[1]) /\ pc[o[1]] = "sent")
    <3>1. Steady(o[1])
      BY <1>1, <2>1 DEF Steady, CellsOf, Over
    <3>2. Due(o) <= Due(o)'
      BY <2>1, <3>1, SteadyDue
    <3> QED  BY <1>1, <2>1, <2>2, <2>4, <3>2
  <2> QED  BY <2>3, <2>4
<1>3. Total(WorthOf(ledger'), Base) = Total(WorthOf(ledger), Base) + 0
  BY <1>1, WorthKept
<1>4. PICK x, d \in Nat : d = 0 /\ x = 0
  OBVIOUS
<1>5. \A o \in Owners : spent'[o] + Due(o) <= spent[o] + Due(o)' + IF o = x THEN d ELSE 0
  BY <1>2, <1>4
<1> QED  BY <1>3, <1>4, <1>5, CoveredKept

(* A reservation spends nothing.                                           *)
LEMMA ReserveCovered ==
    ASSUME CellsInv, Covered, CellsInv', NEW c \in Cells, Reserve(c),
           ReserveCall(Owner(c), Cap, FALSE)
    PROVE  Covered'
<1> DEFINE o == Owner(c)
           s == ledger.calls[o]
           e == NewCall(Cap, FALSE)
           n == Len(s) + 1
<1>1. /\ CellsTyped /\ At(c) /\ o \in Owners /\ o[1] = c /\ BudgetInv /\ BudgetInv'
      /\ s \in Seq(CallType) /\ spent[o] \in Nat /\ o' = o
  BY CurrentOwner DEF CellsInv, CellInv, SpendInv, BudgetInv, Sound, Ledgers, CellsTyped, Reserve,
     Owner, loop
<1>2. /\ pc[c] = "reserve" /\ run' = run /\ usage' = usage /\ spent' = spent /\ flight' = flight
      /\ \A d \in Cells \ {c} : pc'[d] = pc[d]
  BY DEF Reserve, Goto, loop, CellsInv, CellsTyped
<1>3. /\ OnlyOwner(o) /\ ledger'.calls[o] = Append(s, e)
  BY <1>1, ReserveEffect, CellsAssumption
<1>4. n \in 1..MaxCalls
  <2>1. Len(s) < MaxCalls
    BY DEF ReserveCall
  <2>2. Len(s) \in Nat /\ MaxCalls \in Nat
    BY <1>1, BudgetAssumption
  <2> QED  BY <2>1, <2>2
<1>5. e.state = "live" /\ e \in CallType
  BY CellsAssumption DEF NewCall, CallType
<1> HIDE DEF e
<1>6. /\ \A k \in (1..MaxCalls) \ {n} : Worth(Append(s, e), k) = Worth(s, k)
      /\ Worth(Append(s, e), n) = 0 /\ Worth(s, n) = 0
  <2>1. /\ Len(Append(s, e)) = n /\ Append(s, e)[n] = e
        /\ \A k \in 1..Len(s) : Append(s, e)[k] = s[k]
    BY <1>1, <1>5
  <2>2. ASSUME NEW k \in (1..MaxCalls) \ {n} PROVE Worth(Append(s, e), k) = Worth(s, k)
    <3>1. Len(s) \in Nat /\ k \in Nat /\ k >= 1
      BY <1>1
    <3>2. CASE k <= Len(s)
      BY <2>1, <3>1, <3>2 DEF Worth
    <3>3. CASE ~(k <= Len(s))
      BY <2>1, <3>1, <3>3 DEF Worth
    <3> QED  BY <3>2, <3>3
  <2>3. Worth(Append(s, e), n) = 0 /\ Worth(s, n) = 0
    BY <1>1, <1>5, <2>1 DEF Worth
  <2> QED  BY <2>2, <2>3
<1>7. Total(WorthOf(ledger'), Base) = Total(WorthOf(ledger), Base) + 0
  <2>0. /\ \A k \in (1..MaxCalls) \ {n} : Worth(ledger'.calls[o], k) = Worth(ledger.calls[o], k)
        /\ Worth(ledger'.calls[o], n) = 0 /\ Worth(ledger.calls[o], n) = 0
    BY <1>3, <1>6
  <2>1. PICK p \in Owners, m \in 1..MaxCalls, d \in Nat : p = o /\ m = n /\ d = 0
    BY <1>1, <1>4
  <2>2. /\ \A k \in (1..MaxCalls) \ {m} : Worth(ledger'.calls[p], k) = Worth(ledger.calls[p], k)
        /\ Worth(ledger'.calls[p], m) = Worth(ledger.calls[p], m) + d /\ OnlyOwner(p)
    <3> HIDE DEF o, n
    <3>1. OnlyOwner(p)
      BY <1>3, <2>1
    <3>2. \A k \in (1..MaxCalls) \ {m} : Worth(ledger'.calls[p], k) = Worth(ledger.calls[p], k)
      BY <2>0, <2>1
    <3>3. Worth(ledger'.calls[p], m) = Worth(ledger.calls[p], m) + d
      BY <2>0, <2>1
    <3> QED  BY <3>1, <3>2, <3>3
  <2> QED  BY <1>1, <2>1, <2>2, WorthSettled
<1>8. ~flight[o] /\ Due(o) = 0 /\ Due(o)' = 0
  BY <1>1, <1>2 DEF At, Due
<1>9. PICK x \in Owners, d \in Nat : x = o /\ d = 0
  BY <1>1
<1> QED  BY <1>1, <1>2, <1>3, <1>7, <1>8, <1>9, LocalCovered

(* Settling a call turns what was due of it into what is known or owed.    *)
LEMMA SettleCovered ==
    ASSUME CellsInv, Covered, CellsInv', NEW c \in Cells, Settle(c)
    PROVE  Covered'
<1> DEFINE o == Owner(c)
           s == ledger.calls[o]
           n == Len(s)
           u == usage[c]
           f == flight[o]
           e == Settling(s[n], u, f)
           w == IF ~f THEN 0 ELSE IF u = Missing THEN Cap ELSE u
<1>1. /\ CellsTyped /\ At(c) /\ OwnerInv(o) /\ o \in Owners /\ o[1] = c /\ BudgetInv /\ BudgetInv'
      /\ s \in Seq(CallType) /\ spent[o] \in Nat /\ o' = o /\ Cap \in Nat
      /\ u \in Reports \cup {Missing} /\ u \in Nat \cup {Missing} /\ f \in BOOLEAN
  BY CurrentOwner, CellsAssumption, BudgetAssumption
     DEF CellsInv, CellInv, SpendInv, BudgetInv, Sound, Ledgers, CellsTyped, Settle, Owner, loop
<1>2. /\ pc[c] = "settle" /\ run' = run /\ SettleCall(<<o, n>>, u, f)
      /\ flight' = [flight EXCEPT ![o] = FALSE] /\ usage' = [usage EXCEPT ![c] = Missing]
      /\ spent' = [spent EXCEPT ![o] = @ + IF u > Cap THEN u - Cap ELSE 0]
      /\ \A d \in Cells \ {c} : pc'[d] = pc[d]
  BY DEF Settle, Goto, loop, LastCall, CellsInv, CellsTyped
<1>3. n \in 1..MaxCalls /\ (~f => u = Missing)
  BY <1>2 DEF SettleCall, Live, Ids
<1>4. /\ OnlyOwner(o) /\ n \in 1..Len(s) /\ s[n].state = "live" /\ e \in CallType
      /\ ledger'.calls[o] = [s EXCEPT ![n] = e]
  <2>1. PICK p \in Owners, j \in 1..MaxCalls, v \in Reports \cup {Missing}, g \in BOOLEAN :
          p = o /\ j = n /\ v = u /\ g = f
    BY <1>1, <1>3
  <2>2. SettleCall(<<p, j>>, v, g) /\ BudgetInv
    BY <1>1, <1>2, <2>1
  <2>3. /\ OnlyOwner(p) /\ j \in 1..Len(ledger.calls[p]) /\ ledger.calls[p][j].state = "live"
        /\ Settling(ledger.calls[p][j], v, g) \in CallType
        /\ ledger'.calls[p] = [ledger.calls[p] EXCEPT ![j] = Settling(ledger.calls[p][j], v, g)]
    BY <2>2, SettleEffect
  <2> QED  BY <2>1, <2>3
<1>5. e.state = "settled" /\ e.cap = Cap /\ ~e.replay /\ e.usage = u /\ e.dispatched = f
  <2>1. s[n] \in CallType /\ s[n].cap = Cap /\ ~s[n].replay
    BY <1>1, <1>4 DEF OwnerInv
  <2> QED  BY <2>1 DEF Settling, CallType
<1> HIDE DEF e
<1>6. /\ \A k \in (1..MaxCalls) \ {n} : Worth(ledger'.calls[o], k) = Worth(s, k)
      /\ Worth(ledger'.calls[o], n) = w /\ Worth(s, n) = 0 /\ w \in Nat
  <2>1. /\ Len(ledger'.calls[o]) = n /\ ledger'.calls[o][n] = e
        /\ \A k \in 1..n : k # n => ledger'.calls[o][k] = s[k]
    BY <1>1, <1>4
  <2>2. ASSUME NEW k \in (1..MaxCalls) \ {n} PROVE Worth(ledger'.calls[o], k) = Worth(s, k)
    BY <1>3, <2>1 DEF Worth
  <2>3. Worth(ledger'.calls[o], n) = w
    BY <1>1, <1>3, <1>5, <2>1 DEF Worth
  <2>4. Worth(s, n) = 0 /\ w \in Nat
    BY <1>1, <1>4 DEF Worth
  <2> QED  BY <2>2, <2>3, <2>4
<1>7. Total(WorthOf(ledger'), Base) = Total(WorthOf(ledger), Base) + w
  <2>1. PICK p \in Owners, m \in 1..MaxCalls, d \in Nat : p = o /\ m = n /\ d = w
    BY <1>1, <1>3, <1>6
  <2>2. /\ \A k \in (1..MaxCalls) \ {m} : Worth(ledger'.calls[p], k) = Worth(ledger.calls[p], k)
        /\ Worth(ledger'.calls[p], m) = Worth(ledger.calls[p], m) + d /\ OnlyOwner(p)
    BY <1>4, <1>6, <2>1
  <2> QED  BY <1>1, <2>1, <2>2, WorthSettled
<1>8. Due(o) = IF ~f THEN 0 ELSE IF u # Missing /\ u <= Cap THEN u ELSE Cap
  <2>1. LastLive(o)
    BY <1>1, <1>2 DEF At
  <2> QED  BY <1>1, <1>2, <2>1 DEF Due
<1>9. Due(o)' = 0 /\ spent'[o] = spent[o] + IF u > Cap THEN u - Cap ELSE 0
  <2>1. ~flight'[o]
    BY <1>1, <1>2 DEF CellsTyped
  <2> QED  BY <1>1, <1>2, <2>1 DEF Due, CellsTyped
<1>10. spent'[o] + Due(o) <= spent[o] + Due(o)' + w
  <2>1. CASE u = Missing
    BY <1>1, <1>8, <1>9, <2>1 DEF Missing
  <2>2. CASE u \in Nat /\ u # Missing
    BY <1>1, <1>3, <1>8, <1>9, <2>2
  <2> QED  BY <1>1, <2>1, <2>2 DEF Missing
<1>11. /\ \A p \in Owners \ {o} : flight'[p] = flight[p] /\ spent'[p] = spent[p]
       /\ \A d \in Cells \ {o[1]} : pc'[d] = pc[d] /\ usage'[d] = usage[d]
  BY <1>1, <1>2 DEF CellsTyped
<1>12. PICK x \in Owners, d \in Nat : x = o /\ d = w
  BY <1>1, <1>6
<1> HIDE DEF w
<1> QED  BY <1>1, <1>2, <1>4, <1>7, <1>10, <1>11, <1>12, LocalCovered

(* So does reconciling an owner: what it left in flight is owed.           *)
LEMMA ReconcileCovered ==
    ASSUME CellsInv, Covered, CellsInv', NEW o \in Owners, Reconcile(o)
    PROVE  Covered'
<1> DEFINE s == ledger.calls[o]
           n == Len(s)
<1>1. /\ CellsTyped /\ OwnerInv(o) /\ BudgetInv /\ BudgetInv' /\ OwnerSound(ledger, o)
      /\ s \in Seq(CallType) /\ spent[o] \in Nat /\ Cap \in Nat /\ n \in Nat /\ n <= MaxCalls
      /\ o[1] \in Cells /\ o = <<o[1], o[2]>>
  <2>1. CellsTyped /\ OwnerInv(o) /\ BudgetInv /\ BudgetInv' /\ Sound(ledger)
    BY DEF CellsInv, SpendInv, BudgetInv
  <2>2. OwnerSound(ledger, o) /\ n <= MaxCalls /\ ledger \in Ledgers
    BY <2>1 DEF Sound, Owned, Counts
  <2>3. s \in Seq(CallType)
    BY <2>2 DEF Ledgers
  <2>4. o[1] \in Cells /\ o = <<o[1], o[2]>> /\ Cap \in Nat
    BY CellsAssumption, BudgetAssumption
  <2>5. spent[o] \in Nat
    BY <2>1 DEF CellsTyped
  <2>6. n \in Nat
    BY <2>3
  <2> QED  BY <2>1, <2>2, <2>3, <2>4, <2>5, <2>6
<1>2. /\ pc' = pc /\ run' = run /\ usage' = usage /\ spent' = spent /\ flight' = flight
      /\ Ceased(o) /\ ledger.closed[o] = "no"
  BY DEF Reconcile, cellVars, loop
<1>3. PICK f \in BOOLEAN : ReconcileOwner(o, f) /\ (~f => ~flight[o])
  BY DEF Reconcile
<1>4. OnlyOwner(o) /\ ledger'.calls[o] = [k \in DOMAIN s |-> Left(s[k], f)]
  BY <1>1, <1>2, <1>3, ReconcileEffect
<1>5. /\ Len(ledger'.calls[o]) = n
      /\ \A k \in 1..n : s[k] \in CallType /\ ledger'.calls[o][k] = Left(s[k], f)
  BY <1>1, <1>4
<1>6. \A k \in 1..n : s[k].state # "live" => ledger'.calls[o][k] = s[k]
  <2>1. \A k \in 1..n : s[k].state # "live" => Left(s[k], f) = s[k]
    BY DEF Left
  <2> QED  BY <1>5, <2>1
<1>7. CASE ~LastLive(o)
  <2>1. \A k \in 1..n : s[k].state # "live"
    <3>1. \A k \in 1..n : k < n => s[k].state = "settled"
      BY <1>1 DEF OwnerInv
    <3>2. n \in 1..n => s[n].state # "live"
      BY <1>1, <1>7 DEF LastLive
    <3> QED  BY <1>1, <3>1, <3>2
  <2>2. ledger'.calls[o] = s
    <3>1. \A k \in DOMAIN s : Left(s[k], f) = s[k]
      BY <1>1, <1>5, <1>6, <2>1
    <3> QED  BY <1>1, <1>4, <3>1
  <2>3. SameCalls
    BY <1>4, <2>2 DEF SameCalls, OnlyOwner, SameOwner
  <2>4. \A c \in Cells : Steady(c)
    BY <1>2 DEF Steady
  <2> QED  BY <1>2, <2>3, <2>4, SteadyKeeps
<1>8. CASE LastLive(o)
  <2> DEFINE w == IF f THEN Cap ELSE 0
  <2>1. n \in 1..n /\ n \in 1..MaxCalls /\ s[n].state = "live"
    BY <1>1, <1>8 DEF LastLive
  <2>2. /\ ledger'.calls[o][n] = Left(s[n], f) /\ s[n] \in CallType /\ s[n].cap = Cap /\ ~s[n].replay
        /\ s[n].usage = Missing
    <3>1. n \in DOMAIN s
      BY <1>1, <2>1
    <3>2. s[n].cap = Cap /\ ~s[n].replay
      BY <1>1, <3>1 DEF OwnerInv
    <3>3. s[n].usage = Missing
      BY <1>1, <2>1, <3>1 DEF OwnerSound
    <3> QED  BY <1>5, <2>1, <3>2, <3>3
  <2>3. /\ Left(s[n], f).state = "settled" /\ Left(s[n], f).dispatched = f
        /\ Left(s[n], f).cap = Cap /\ ~Left(s[n], f).replay /\ Left(s[n], f).usage = Missing
    BY <2>1, <2>2 DEF Left, CallType
  <2>4. /\ \A k \in (1..MaxCalls) \ {n} : Worth(ledger'.calls[o], k) = Worth(s, k)
        /\ Worth(ledger'.calls[o], n) = w /\ Worth(s, n) = 0 /\ w \in Nat
    <3>1. ASSUME NEW k \in (1..MaxCalls) \ {n} PROVE Worth(ledger'.calls[o], k) = Worth(s, k)
      <4>1. CASE k <= n
        <5>1. k \in 1..n /\ k < n /\ k \in DOMAIN s
          BY <1>1, <2>1, <4>1
        <5>2. s[k].state = "settled"
          BY <1>1, <5>1 DEF OwnerInv
        <5>3. ledger'.calls[o][k] = s[k]
          BY <1>6, <5>1, <5>2
        <5> QED  BY <1>5, <5>3 DEF Worth
      <4>2. CASE ~(k <= n)
        BY <1>5, <4>2 DEF Worth
      <4> QED  BY <4>1, <4>2
    <3>2. Worth(ledger'.calls[o], n) = w
      BY <1>1, <1>3, <1>5, <2>2, <2>3 DEF Worth
    <3>3. Worth(s, n) = 0 /\ w \in Nat
      BY <1>1, <2>1 DEF Worth
    <3> QED  BY <3>1, <3>2, <3>3
  <2>5. Total(WorthOf(ledger'), Base) = Total(WorthOf(ledger), Base) + w
    <3>1. PICK p \in Owners, m \in 1..MaxCalls, d \in Nat : p = o /\ m = n /\ d = w
      BY <2>1, <2>4
    <3>2. /\ \A k \in (1..MaxCalls) \ {m} : Worth(ledger'.calls[p], k) = Worth(ledger.calls[p], k)
          /\ Worth(ledger'.calls[p], m) = Worth(ledger.calls[p], m) + d /\ OnlyOwner(p)
      BY <1>4, <2>4, <3>1
    <3> QED  BY <1>1, <3>1, <3>2, WorthSettled
  <2>6. Due(o) <= w
    <3>1. CASE f
      BY <1>1, <3>1, DueType
    <3>2. CASE ~f
      BY <1>1, <1>3, <3>2 DEF Due
    <3> QED  BY <3>1, <3>2
  <2>7. Due(o) \in Nat /\ Due(o)' \in Nat
    <3>1. usage[o[1]] \in Nat \cup {Missing}
      BY <1>1, BudgetAssumption DEF CellsTyped
    <3> QED  BY <1>1, <1>2, <3>1, DueType DEF Due, Missing
  <2>8. spent'[o] + Due(o) <= spent[o] + Due(o)' + w
    BY <1>1, <1>2, <2>4, <2>6, <2>7
  <2>9. PICK d \in Nat : d = w
    BY <2>4
  <2> HIDE DEF w
  <2> QED  BY <1>2, <1>4, <2>5, <2>8, <2>9, LocalCovered
<1> QED  BY <1>7, <1>8

(* Nothing is spent at the start.                                          *)
LEMMA CoveredInit == Init => Covered
<1> SUFFICES ASSUME Init PROVE Covered
  OBVIOUS
<1>1. CellsInv
  BY CellsInvInit
<1>2. CellsTyped /\ ledger \in Ledgers
  BY <1>1 DEF CellsInv, SpendInv, BudgetInv, Sound
<1>3. Total(spent, Owners) = 0
  <2>1. spent \in [Owners -> Nat] /\ (\A o \in Owners \ {} : spent[o] = 0)
    BY <1>2 DEF CellsTyped, Init
  <2>2. Owners \in SUBSET Owners /\ {} \in SUBSET Owners
    OBVIOUS
  <2>3. Total(spent, {}) = Total(spent, Owners)
    BY <2>1, <2>2, FiniteBase, TotalFilter
  <2> QED  BY <2>3, TotalEmpty
<1>4. Total(WorthOf(ledger), Base) \in Nat
  <2>1. WorthOf(ledger) \in [Base -> Nat] /\ Base \in SUBSET Base
    BY <1>2, WorthType
  <2> QED  BY <2>1, FiniteBase, TotalType
<1>5. Total(DueOf, Owners) \in Nat
  <2>1. DueOf \in [Owners -> Nat] /\ Owners \in SUBSET Owners
    BY <1>2, DueType DEF DueOf
  <2> QED  BY <2>1, FiniteBase, TotalType
<1> QED  BY <1>3, <1>4, <1>5 DEF Covered

(* Every step keeps the cover.                                             *)
LEMMA CoveredNext == CellsInv /\ CellsInv' /\ Covered /\ [Next]_vars => Covered'
<1> SUFFICES ASSUME CellsInv, CellsInv', Covered, [Next]_vars PROVE Covered'
  OBVIOUS
<1> DEFINE Quiet(c) ==
        \/ ReuseReceipt(c) \/ LaunchCell(c) \/ Cancel(c) \/ DeadlineBeforeCall(c)
        \/ AbortCall(c) \/ NextTurn(c) \/ FailAttempt(c) \/ Charge(c)
        \/ AccountingFails(c) \/ Succeed(c) \/ BeginCall(c) \/ Pause(c)
<1>1. ASSUME NEW c \in Cells, Reserve(c), ReserveCall(Owner(c), Cap, FALSE) PROVE Covered'
  BY <1>1, ReserveCovered
<1>2. ASSUME NEW c \in Cells, Settle(c) PROVE Covered'
  BY <1>2, SettleCovered
<1>3. ASSUME NEW o \in Owners, Reconcile(o) PROVE Covered'
  BY <1>3, ReconcileCovered
<1>4. CASE SameCalls
  <2>1. ASSUME NEW c \in Cells, Quiet(c) PROVE Covered'
    BY <1>4, <2>1, QuietCovered
  <2>2. ASSUME NEW c \in Cells, Dispatch(c) \/ Answer(c) PROVE Covered'
    BY <2>2, DispatchCovered, AnswerCovered
  <2>3. ASSUME NEW c \in Cells, Reserve(c) PROVE Covered'
    <3>1. CASE ReserveCall(Owner(c), Cap, FALSE)
      BY <1>1, <2>3, <3>1
    <3>2. CASE pc' = [pc EXCEPT ![c] = "ending"]
      <4>1. flight' = flight /\ spent' = spent /\ usage' = usage /\ run' = run
        BY <2>3 DEF Reserve, loop
      <4>2. \A d \in Cells : pc'[d] = IF d = c THEN "ending" ELSE pc[d]
        BY <3>2 DEF CellsInv, CellsTyped
      <4>3. \A d \in Cells : Steady(d)
        BY <4>1, <4>2 DEF Steady
      <4> QED  BY <1>4, <4>1, <4>3, SteadyKeeps
    <3> QED  BY <2>3, <3>1, <3>2 DEF Reserve, Goto
  <2>4. CASE \/ UNCHANGED vars \/ Interrupt \/ ClockTick
             \/ \E p \in Packages : TeamStep(p) \/ Rerun(p)
    BY <1>4, <2>4, RestCovered
  <2>5. ASSUME NEW p \in Packages, Crash(p) PROVE Covered'
    BY <2>5, CrashCovered
  <2>6. ASSUME NEW c \in Cells, CellStep(c) \/ AccountingFails(c) PROVE Covered'
    BY <1>2, <2>1, <2>2, <2>3, <2>6 DEF CellStep
  <2> HIDE DEF Quiet
  <2> QED  BY <1>3, <2>4, <2>5, <2>6 DEF Next
<1> QED  BY <1>1, <1>2, <1>3, <1>4, CallsStep

(* The cover holds throughout.                                             *)
LEMMA CoveredInvariance == Spec => [](CellsInv /\ Covered)
<1>1. Init => CellsInv /\ Covered
  BY CellsInvInit, CoveredInit
<1>2. CellsInv /\ Covered /\ [Next]_vars => CellsInv' /\ Covered'
  BY CellsInvNext, CoveredNext
<1> QED  BY <1>1, <1>2, PTL DEF Spec

(* What is due of the open calls is within their reservations.             *)
LEMMA DueIsHeld ==
    ASSUME CellsInv PROVE Total(DueOf, Owners) <= Total(HoldOf(ledger), Base)
<1> DEFINE S == {o \in Owners : LastLive(o)}
           f == [o \in S |-> Due(o)]
           h == [o \in S |-> <<o, Len(ledger.calls[o])>>]
<1>1. CellsTyped /\ Sound(ledger) /\ ledger \in Ledgers
  BY DEF CellsInv, SpendInv, BudgetInv, Sound
<1>2. DueOf \in [Owners -> Nat] /\ (\A o \in Owners \ S : DueOf[o] = 0)
  BY <1>1, DueType DEF DueOf, Due
<1>3. HoldOf(ledger) \in [Base -> Nat]
  BY <1>1, Weights
<1>4. S \in SUBSET Owners /\ IsFiniteSet(S) /\ f \in [S -> Nat] /\ (\A o \in S : f[o] = DueOf[o])
  BY <1>1, FiniteBase, FS_Subset, DueType DEF DueOf
<1>5. ASSUME NEW o \in S PROVE h[o] \in Base /\ f[o] <= HoldOf(ledger)[h[o]]
  <2> DEFINE s == ledger.calls[o]
             n == Len(s)
  <2>1. s \in Seq(CallType) /\ n <= MaxCalls /\ OwnerInv(o) /\ s # <<>> /\ s[n].state = "live"
    BY <1>1 DEF Sound, Counts, Ledgers, CellsInv, LastLive
  <2>2. n \in 1..n /\ n \in DOMAIN s /\ n \in 1..MaxCalls
    <3>1. n \in Nat /\ n >= 1 /\ DOMAIN s = 1..n
      BY <2>1
    <3>2. MaxCalls \in Nat
      BY BudgetAssumption
    <3> QED  BY <2>1, <3>1, <3>2
  <2>3. s[n].cap = Cap /\ ~s[n].replay
    BY <2>1, <2>2 DEF OwnerInv
  <2>4. <<o, n>> \in Ids(ledger) /\ Call(ledger, <<o, n>>) = s[n]
    BY <2>2 DEF Ids, Call
  <2>5. <<o, n>> \in Live(ledger) /\ <<o, n>> \in Base
    BY <2>1, <2>2, <2>4 DEF Live, Base
  <2>6. HoldOf(ledger)[<<o, n>>] = Cap
    BY <2>3, <2>4, <2>5 DEF HoldOf
  <2> QED  BY <1>1, <2>5, <2>6, DueType
<1>6. h \in [S -> Base] /\ (\A x, y \in S : h[x] = h[y] => x = y)
  BY <1>5
<1> HIDE DEF S, f, h
<1>7. Total(DueOf, S) = Total(DueOf, Owners)
  <2>1. Owners \in SUBSET Owners
    OBVIOUS
  <2> QED  BY <1>2, <1>4, <2>1, FiniteBase, TotalFilter
<1>8. Total(f, S) = Total(DueOf, S)
  BY <1>4, TotalSame
<1>9. Total(f, S) <= Total(HoldOf(ledger), Base)
  <2>1. \A o \in S : f[o] <= HoldOf(ledger)[h[o]]
    BY <1>5
  <2> QED  BY <1>3, <1>4, <1>6, <2>1, FiniteBase, TotalImage
<1> QED  BY <1>7, <1>8, <1>9

(* What the settled calls count for is known or owed.                      *)
LEMMA WorthIsHeld ==
    ASSUME NEW l \in Ledgers
    PROVE  Total(WorthOf(l), Base) = Total(KnownOf(l), Base) + Total(OweOf(l), Base)
<1>1. /\ KnownOf(l) \in [Base -> Nat] /\ OweOf(l) \in [Base -> Nat] /\ WorthOf(l) \in [Base -> Nat]
  BY Weights, WorthType
<1>2. ASSUME NEW id \in Base PROVE WorthOf(l)[id] = KnownOf(l)[id] + OweOf(l)[id]
  <2> DEFINE s == l.calls[id[1]]
             k == id[2]
  <2>1. Call(l, id) = s[k] /\ WorthOf(l)[id] = Worth(s, k)
    BY DEF Call, WorthOf
  <2>2. id \in Dispatched(l) <=> k <= Len(s) /\ s[k].state = "settled" /\ s[k].dispatched
    BY <2>1 DEF Dispatched, Settled, Ids, Base
  <2>3. KnownOf(l)[id] \in Nat /\ OweOf(l)[id] \in Nat
    BY <1>1
  <2> HIDE DEF s, k
  <2> QED  BY <2>1, <2>2, <2>3 DEF Worth, KnownOf, OweOf
<1>3. PICK u \in [Base -> Nat], v \in [Base -> Nat], w \in [Base -> Nat] :
          u = KnownOf(l) /\ v = OweOf(l) /\ w = WorthOf(l)
  BY <1>1
<1>4. \A id \in Base : w[id] = u[id] + v[id]
  BY <1>2, <1>3
<1>5. Total(w, Base) = Total(u, Base) + Total(v, Base)
  BY <1>4, FiniteBase, TotalSum
<1> QED  BY <1>3, <1>5

(* What the provider has really charged is never more than the document    *)
(* accounts for, settled or still held: a process that dies between the    *)
(* provider's answer and settle_call leaves its reservation open, and      *)
(* reconciling it charges the maximum.                                     *)
THEOREM SpendStaysCovered == Spec => []SpendCovered
<1>1. ASSUME CellsInv, Covered PROVE SpendCovered
  <2> DEFINE l == ledger
             z == IF l.unknown > 0 THEN MaxTokens ELSE 0
  <2>1. l \in Ledgers
    BY <1>1 DEF CellsInv, SpendInv, BudgetInv, Sound
  <2>2. l.tokens \in Nat /\ z \in Nat
    BY <2>1, BudgetAssumption DEF Ledgers
  <2>3. Ids(l) \in SUBSET Base /\ IsFiniteSet(Ids(l)) /\ Base \in SUBSET Base
    BY FiniteBase, FS_Subset DEF Ids, Base
  <2>4. /\ KnownOf(l) \in [Base -> Nat] /\ HoldOf(l) \in [Base -> Nat] /\ OweOf(l) \in [Base -> Nat]
    BY <2>1, Weights
  <2>5. \A id \in Base \ Ids(l) : KnownOf(l)[id] = 0 /\ HoldOf(l)[id] = 0 /\ OweOf(l)[id] = 0
    BY DEF KnownOf, HoldOf, OweOf, Dispatched, Settled, Live
  <2> DEFINE k == Total(KnownOf(l), Base)
             h == Total(HoldOf(l), Base)
             w == Total(OweOf(l), Base)
  <2>6. Total(KnownOf(l), Ids(l)) = k
    BY <2>3, <2>4, <2>5, FiniteBase, TotalFilter
  <2>7. Total(HoldOf(l), Ids(l)) = h
    BY <2>3, <2>4, <2>5, FiniteBase, TotalFilter
  <2>8. Total(OweOf(l), Ids(l)) = w
    BY <2>3, <2>4, <2>5, FiniteBase, TotalFilter
  <2>9. KnownTokens(l) = l.tokens + k /\ ReservedTokens(l) = h /\ LiabilityTokens(l) = z + w
    BY <2>1, <2>3, <2>6, <2>7, <2>8, DocumentTotals
  <2>10. k \in Nat /\ h \in Nat /\ w \in Nat
    BY <2>3, <2>4, FiniteBase, TotalType
  <2>11. HeldTokens(l) = l.tokens + k + h + z + w
    <3> HIDE DEF k, h, w, z, l
    <3> QED  BY <2>2, <2>9, <2>10 DEF HeldTokens
  <2>12. Total(spent, Owners) <= k + w + Total(DueOf, Owners)
    BY <1>1, <2>1, WorthIsHeld DEF Covered
  <2>13. Total(DueOf, Owners) <= h
    BY <1>1, DueIsHeld
  <2>14. Total(DueOf, Owners) \in Nat /\ Total(spent, Owners) \in Nat
    <3>1. DueOf \in [Owners -> Nat] /\ spent \in [Owners -> Nat] /\ Owners \in SUBSET Owners
      BY <1>1, DueType DEF DueOf, CellsInv, CellsTyped
    <3> QED  BY <3>1, FiniteBase, TotalType
  <2>15. Total(spent, Owners) <= HeldTokens(l)
    <3> HIDE DEF k, h, w, z, l
    <3> QED  BY <2>2, <2>10, <2>11, <2>12, <2>13, <2>14
  <2>16. MapThenSumSet(LAMBDA o : spent[o], Owners) = Total(spent, Owners)
    BY FiniteBase, SpentTotal
  <2> QED  BY <2>15, <2>16 DEF SpendCovered
<1> QED  BY <1>1, CoveredInvariance, PTL

-----------------------------------------------------------------------------
(* The loops and the team slots.                                           *)

(* The turn and the attempt are within their limits, and every query of an *)
(* invocation was one turn of one of its attempts.                         *)
Looping(c) ==
    /\ turn[c] \in 1..Turns /\ attempt[c] \in 1..Attempts
    /\ asked[c] <= (attempt[c] - 1) * Turns + turn[c] - 1

(* The teams that have a slot.                                             *)
Running == {p \in Packages : team[p] = "running"}

(* The inductive invariant of the loops and the slots.                     *)
LoopsInv ==
    /\ turn \in [Cells -> Nat] /\ attempt \in [Cells -> Nat] /\ asked \in [Cells -> Nat]
    /\ \A c \in Cells : Looping(c)
    /\ IsFiniteSet(Running) /\ Cardinality(Running) <= Slots

(* The limits of the configuration.                                        *)
LEMMA Limits ==
    ASSUME CellsTyped
    PROVE  /\ Turns \in Nat \ {0} /\ Attempts \in Nat \ {0} /\ Slots \in Nat \ {0}
  BY CellsAssumption DEF CellsTyped, Turns, Attempts, Slots

(* A new attempt may ask as many queries again.                            *)
LEMMA OneMoreAttempt ==
    ASSUME NEW T \in Nat, NEW a \in Nat, NEW t \in 1..T, NEW q \in Nat, q <= (a - 1) * T + t - 1,
           NEW b \in Nat, b = a + 1
    PROVE  q <= (b - 1) * T + 1 - 1
<1>1. (b - 1) * T = (a - 1) * T + T
  OBVIOUS
<1>2. (a - 1) * T \in Int
  OBVIOUS
<1> QED  BY <1>1, <1>2

(* All attempts together ask no more than turns times attempts.            *)
LEMMA QueriesBounded ==
    ASSUME NEW T \in Nat, NEW A \in Nat, NEW a \in Nat, NEW t \in Nat, NEW q \in Nat,
           a \in 1..A, t \in 1..T, q <= (a - 1) * T + t - 1
    PROVE  q \in 0..(T * A)
<1> DEFINE k == A - a
<1>1. k \in Nat /\ A = (a - 1) + 1 + k
  OBVIOUS
<1>2. T * A = (a - 1) * T + T + k * T
  BY <1>1
<1>3. k * T \in Nat /\ (a - 1) * T \in Int
  <2>1. \A x, y \in Nat : x * y \in Nat
    OBVIOUS
  <2> QED  BY <1>1, <2>1
<1> HIDE DEF k
<1> QED  BY <1>2, <1>3

(* The loops start within their limits and no team has a slot.             *)
LEMMA LoopsInit == Init => LoopsInv
<1> SUFFICES ASSUME Init PROVE LoopsInv
  OBVIOUS
<1>1. CellsTyped
  BY CellsTypedInit
<1>2. Turns \in Nat \ {0} /\ Attempts \in Nat \ {0} /\ Slots \in Nat \ {0}
  BY <1>1, Limits
<1>3. Running = {} /\ IsFiniteSet(Running) /\ Cardinality(Running) <= Slots
  <2>1. Running = {}
    BY DEF Init, Running
  <2> QED  BY <1>2, <2>1, FS_EmptySet
<1>4. ASSUME NEW c \in Cells PROVE Looping(c)
  <2>1. turn[c] = 1 /\ attempt[c] = 1 /\ asked[c] = 0
    BY DEF Init
  <2>2. (1 - 1) * Turns = 0
    BY <1>2
  <2> QED  BY <1>2, <2>1, <2>2 DEF Looping
<1> QED  BY <1>3, <1>4 DEF Init, LoopsInv

(* A cell whose loops did not move.                                        *)
SameLoops(c) == turn'[c] = turn[c] /\ attempt'[c] = attempt[c] /\ asked'[c] = asked[c]

(* Loops that did not move are within their limits still.                  *)
LEMMA SameLooping ==
    ASSUME NEW c, Looping(c), SameLoops(c), setting' = setting PROVE Looping(c)'
  BY DEF Looping, SameLoops, Turns, Attempts

(* The configuration of the run stays.                                     *)
LEMMA SettingStays == ASSUME [Next]_vars PROVE setting' = setting
<1>1. ASSUME NEW c \in Cells, CellStep(c) \/ AccountingFails(c) PROVE setting' = setting
  BY <1>1 DEF CellStep, ReuseReceipt, LaunchCell, Cancel, BeginCall, DeadlineBeforeCall, Reserve,
     Dispatch, AbortCall, Answer, Settle, NextTurn, Succeed, FailAttempt, Charge, Pause,
     AccountingFails
<1>2. ASSUME NEW p \in Packages, TeamStep(p) \/ Crash(p) \/ Rerun(p) PROVE setting' = setting
  BY <1>2 DEF TeamStep, AdmitTeam, AcquireTeam, SkipTeam, EndTeam, Crash, Rerun
<1>3. ASSUME NEW o \in Owners, Reconcile(o) PROVE setting' = setting
  BY <1>3 DEF Reconcile, cellVars
<1> QED  BY <1>1, <1>2, <1>3 DEF Next, vars, cellVars, ClockTick, Interrupt

(* The loops of a cell move as run_cell moves them.                        *)
LEMMA LoopingNext ==
    ASSUME CellsTyped, LoopsInv, [Next]_vars, NEW c \in Cells
    PROVE  Looping(c)' /\ turn'[c] \in Nat /\ attempt'[c] \in Nat /\ asked'[c] \in Nat
<1>1. setting' = setting /\ Turns' = Turns /\ Attempts' = Attempts
  BY SettingStays DEF Turns, Attempts
<1>2. /\ Looping(c) /\ turn[c] \in Nat /\ attempt[c] \in Nat /\ asked[c] \in Nat
      /\ Turns \in Nat \ {0} /\ Attempts \in Nat \ {0}
  BY Limits DEF LoopsInv
<1>3. /\ turn[c] \in 1..Turns /\ attempt[c] \in 1..Attempts
      /\ asked[c] <= (attempt[c] - 1) * Turns + turn[c] - 1
  BY <1>2 DEF Looping
<1>4. CASE SameLoops(c)
  BY <1>1, <1>2, <1>4, SameLooping DEF SameLoops
<1>5. CASE /\ turn'[c] = turn[c] + 1 /\ turn[c] < Turns /\ attempt'[c] = attempt[c]
           /\ asked'[c] = asked[c] + 1
  <2>1. (attempt[c] - 1) * Turns \in Int
    BY <1>2
  <2>2. asked[c] + 1 <= (attempt[c] - 1) * Turns + (turn[c] + 1) - 1
    BY <1>2, <1>3, <2>1
  <2> QED  BY <1>1, <1>2, <1>3, <1>5, <2>2 DEF Looping
<1>6. CASE /\ turn'[c] = 1 /\ attempt'[c] = attempt[c] + 1 /\ attempt[c] < Attempts
           /\ asked'[c] = asked[c]
  <2>1. PICK T \in Nat, a \in Nat, t \in Nat, q \in Nat, b \in Nat :
          /\ T = Turns /\ a = attempt[c] /\ t = turn[c] /\ q = asked[c] /\ b = attempt'[c]
    BY <1>2, <1>6
  <2>2. t \in 1..T /\ q <= (a - 1) * T + t - 1 /\ b = a + 1
    BY <1>3, <1>6, <2>1
  <2>3. q <= (b - 1) * T + 1 - 1
    BY <2>2, OneMoreAttempt
  <2>4. asked'[c] <= (attempt'[c] - 1) * Turns + turn'[c] - 1
    BY <1>6, <2>1, <2>3
  <2> QED  BY <1>1, <1>2, <1>3, <1>6, <2>4 DEF Looping
<1>7. CASE asked'[c] = 0 /\ attempt'[c] = attempt[c] /\ turn'[c] = turn[c]
  <2>1. (attempt[c] - 1) * Turns \in Nat
    <3>1. \A x, y \in Nat : x * y \in Nat
      OBVIOUS
    <3>2. attempt[c] - 1 \in Nat
      BY <1>2, <1>3
    <3> QED  BY <1>2, <3>1, <3>2
  <2>2. 0 <= (attempt[c] - 1) * Turns + turn[c] - 1
    BY <1>3, <2>1
  <2> QED  BY <1>1, <1>2, <1>3, <1>7, <2>2 DEF Looping
<1>8. CASE asked'[c] = 0 /\ attempt'[c] = 1 /\ turn'[c] = 1
  <2>1. (1 - 1) * Turns = 0
    BY <1>2
  <2> QED  BY <1>1, <1>2, <1>8, <2>1 DEF Looping
<1>9. \/ SameLoops(c)
      \/ /\ turn'[c] = turn[c] + 1 /\ turn[c] < Turns /\ attempt'[c] = attempt[c]
         /\ asked'[c] = asked[c] + 1
      \/ /\ turn'[c] = 1 /\ attempt'[c] = attempt[c] + 1 /\ attempt[c] < Attempts
         /\ asked'[c] = asked[c]
      \/ asked'[c] = 0 /\ attempt'[c] = attempt[c] /\ turn'[c] = turn[c]
      \/ asked'[c] = 0 /\ attempt'[c] = 1 /\ turn'[c] = 1
  <2> DEFINE G == \/ SameLoops(c)
                  \/ /\ turn'[c] = turn[c] + 1 /\ turn[c] < Turns /\ attempt'[c] = attempt[c]
                     /\ asked'[c] = asked[c] + 1
                  \/ /\ turn'[c] = 1 /\ attempt'[c] = attempt[c] + 1 /\ attempt[c] < Attempts
                     /\ asked'[c] = asked[c]
                  \/ asked'[c] = 0 /\ attempt'[c] = attempt[c] /\ turn'[c] = turn[c]
                  \/ asked'[c] = 0 /\ attempt'[c] = 1 /\ turn'[c] = 1
  <2>1. ASSUME NEW d \in Cells,
               \/ ReuseReceipt(d) \/ LaunchCell(d) \/ Cancel(d) \/ BeginCall(d)
               \/ DeadlineBeforeCall(d) \/ Reserve(d) \/ Dispatch(d) \/ AbortCall(d) \/ Answer(d)
               \/ Settle(d) \/ Succeed(d) \/ Pause(d) \/ AccountingFails(d)
        PROVE  SameLoops(c)
    BY <2>1 DEF ReuseReceipt, LaunchCell, Cancel, BeginCall, DeadlineBeforeCall, Reserve,
       Dispatch, AbortCall, Answer, Settle, Succeed, Pause, AccountingFails, loop, SameLoops
  <2>2. ASSUME NEW d \in Cells, NextTurn(d) PROVE G
    <3>1. CASE d = c
      BY <2>2, <3>1 DEF NextTurn, LoopsInv
    <3>2. CASE d # c
      BY <2>2, <3>2 DEF NextTurn, LoopsInv, SameLoops
    <3> QED  BY <3>1, <3>2
  <2>3. ASSUME NEW d \in Cells, FailAttempt(d) PROVE G
    <3>1. asked' = asked
      BY <2>3 DEF FailAttempt
    <3>2. CASE UNCHANGED <<turn, attempt>>
      BY <3>1, <3>2 DEF SameLoops
    <3>3. CASE /\ attempt[d] < Retries /\ attempt' = [attempt EXCEPT ![d] = @ + 1]
               /\ turn' = [turn EXCEPT ![d] = 1]
      <4>1. CASE d = c
        <5>1. attempt[c] < Attempts
          BY <1>2, <3>3, <4>1 DEF Retries
        <5> QED  BY <3>1, <3>3, <4>1, <5>1 DEF LoopsInv
      <4>2. CASE d # c
        BY <3>1, <3>3, <4>2 DEF LoopsInv, SameLoops
      <4> QED  BY <4>1, <4>2
    <3> QED  BY <2>3, <3>2, <3>3 DEF FailAttempt
  <2>4. ASSUME NEW d \in Cells, Charge(d) PROVE G
    BY <2>4 DEF Charge, loop, LoopsInv, SameLoops
  <2>5. ASSUME NEW p \in Packages, TeamStep(p) \/ Crash(p) \/ Rerun(p) PROVE G
    <3>1. CASE TeamStep(p) \/ Crash(p)
      BY <3>1 DEF TeamStep, AdmitTeam, AcquireTeam, SkipTeam, EndTeam, Crash, loop, SameLoops
    <3>2. CASE Rerun(p)
      BY <3>2 DEF Rerun, SameLoops
    <3> QED  BY <2>5, <3>1, <3>2
  <2>6. CASE UNCHANGED vars \/ Interrupt \/ ClockTick \/ \E o \in Owners : Reconcile(o)
    BY <2>6 DEF vars, cellVars, Interrupt, ClockTick, Reconcile, loop, SameLoops
  <2> HIDE DEF G
  <2>7. ASSUME SameLoops(c) PROVE G
    BY <2>7 DEF G
  <2>8. ASSUME NEW d \in Cells, CellStep(d) \/ AccountingFails(d) PROVE G
    BY <2>1, <2>2, <2>3, <2>4, <2>7, <2>8 DEF CellStep
  <2>9. G
    BY <2>5, <2>6, <2>8 DEF Next, G
  <2> QED  BY <2>9 DEF G
<1> QED  BY <1>4, <1>5, <1>6, <1>7, <1>8, <1>9

(* A team runs only once it has a slot.                                    *)
LEMMA RunningNext ==
    ASSUME CellsTyped, LoopsInv, [Next]_vars
    PROVE  IsFiniteSet(Running') /\ Cardinality(Running') <= Slots'
<1>1. setting' = setting /\ Slots' = Slots
  BY SettingStays DEF Slots
<1>2. /\ IsFiniteSet(Running) /\ Cardinality(Running) <= Slots /\ Cardinality(Running) \in Nat
      /\ Slots \in Nat
  BY Limits, FS_CardinalityType DEF LoopsInv
<1>3. CASE Running' \subseteq Running
  <2>1. IsFiniteSet(Running') /\ Cardinality(Running') <= Cardinality(Running)
    BY <1>2, <1>3, FS_Subset
  <2>2. Cardinality(Running') \in Nat
    BY <2>1, FS_CardinalityType
  <2> QED  BY <1>1, <1>2, <2>1, <2>2
<1>4. ASSUME NEW p \in Packages, AcquireTeam(p)
      PROVE  IsFiniteSet(Running') /\ Cardinality(Running') <= Slots'
  <2>1. /\ Running' = Running \cup {p} /\ p \notin Running /\ Cardinality(Running) < Slots
    BY <1>4 DEF AcquireTeam, Running, CellsTyped
  <2>2. IsFiniteSet(Running \cup {p}) /\ Cardinality(Running \cup {p}) = Cardinality(Running) + 1
    BY <1>2, <2>1, FS_AddElement
  <2> QED  BY <1>1, <1>2, <2>1, <2>2
<1>5. ASSUME NEW p \in Packages, AdmitTeam(p) \/ SkipTeam(p) \/ EndTeam(p) \/ Crash(p) \/ Rerun(p)
      PROVE  Running' \subseteq Running
  BY <1>5 DEF AdmitTeam, SkipTeam, EndTeam, Crash, Rerun, Running, CellsTyped
<1>6. ASSUME NEW c \in Cells, CellStep(c) \/ AccountingFails(c) PROVE team' = team
  BY <1>6 DEF CellStep, ReuseReceipt, LaunchCell, Cancel, BeginCall, DeadlineBeforeCall, Reserve,
     Dispatch, AbortCall, Answer, Settle, NextTurn, Succeed, FailAttempt, Charge, Pause,
     AccountingFails
<1>7. CASE UNCHANGED vars \/ Interrupt \/ ClockTick \/ \E o \in Owners : Reconcile(o)
  <2>1. team' = team
    BY <1>7 DEF vars, cellVars, Interrupt, ClockTick, Reconcile
  <2> QED  BY <1>3, <2>1 DEF Running
<1>8. ASSUME team' = team PROVE Running' \subseteq Running
  BY <1>8 DEF Running
<1> HIDE DEF Running
<1> QED  BY <1>3, <1>4, <1>5, <1>6, <1>7, <1>8 DEF Next, TeamStep

(* Every step keeps the loops and the slots within their limits.           *)
LEMMA LoopsNext == CellsTyped /\ CellsTyped' /\ LoopsInv /\ [Next]_vars => LoopsInv'
<1> SUFFICES ASSUME CellsTyped, CellsTyped', LoopsInv, [Next]_vars PROVE LoopsInv'
  OBVIOUS
<1>1. \A c \in Cells : Looping(c)' /\ turn'[c] \in Nat /\ attempt'[c] \in Nat
  BY LoopingNext
<1>2. IsFiniteSet(Running') /\ Cardinality(Running') <= Slots'
  BY RunningNext
<1>3. /\ turn' = [c \in Cells |-> turn'[c]] /\ attempt' = [c \in Cells |-> attempt'[c]]
  <2>1. /\ turn = [c \in Cells |-> turn[c]] /\ attempt = [c \in Cells |-> attempt[c]]
    BY DEF LoopsInv
  <2>2. ASSUME NEW d \in Cells, CellStep(d) \/ AccountingFails(d)
        PROVE  /\ turn' = [c \in Cells |-> turn'[c]] /\ attempt' = [c \in Cells |-> attempt'[c]]
    BY <2>1, <2>2
       DEF CellStep, ReuseReceipt, LaunchCell, Cancel, BeginCall, DeadlineBeforeCall, Reserve,
           Dispatch, AbortCall, Answer, Settle, NextTurn, Succeed, FailAttempt, Charge, Pause,
           AccountingFails, loop
  <2>3. ASSUME NEW p \in Packages, TeamStep(p) \/ Crash(p) \/ Rerun(p)
        PROVE  /\ turn' = [c \in Cells |-> turn'[c]] /\ attempt' = [c \in Cells |-> attempt'[c]]
    BY <2>1, <2>3 DEF TeamStep, AdmitTeam, AcquireTeam, SkipTeam, EndTeam, Crash, Rerun, loop
  <2>4. ASSUME UNCHANGED vars \/ Interrupt \/ ClockTick \/ \E o \in Owners : Reconcile(o)
        PROVE  turn' = turn /\ attempt' = attempt
    BY <2>4 DEF vars, cellVars, Interrupt, ClockTick, Reconcile, loop
  <2> QED  BY <2>1, <2>2, <2>3, <2>4 DEF Next
<1>4. turn' \in [Cells -> Nat] /\ attempt' \in [Cells -> Nat]
  BY <1>1, <1>3
<1>5. asked' \in [Cells -> Nat]
  BY DEF CellsTyped
<1> QED  BY <1>1, <1>2, <1>4, <1>5 DEF LoopsInv

(* The workers' state keeps its types and limits for every configuration:  *)
(* turns and attempts stay within theirs, a cell asks at most turns times  *)
(* attempts queries per invocation, and no more teams run than there are   *)
(* slots.                                                                  *)
THEOREM WorkersTypeCorrect == Spec => []TypeOK
<1>1. Spec => []LoopsInv
  <2>1. Init => LoopsInv
    BY LoopsInit
  <2>2. CellsTyped /\ CellsTyped' /\ LoopsInv /\ [Next]_vars => LoopsInv'
    BY LoopsNext
  <2> QED  BY <2>1, <2>2, WorkInvariance, PTL DEF Spec
<1>2. ASSUME CellsTyped, LoopsInv, BudgetTypeOK PROVE TypeOK
  <2>1. Turns \in Nat \ {0} /\ Attempts \in Nat \ {0}
    BY <1>2, Limits
  <2>2. ASSUME NEW c \in Cells
        PROVE  /\ turn[c] \in 1..Turns /\ attempt[c] \in 1..Attempts
               /\ asked[c] \in 0..Turns * Attempts
    <3>1. /\ turn[c] \in 1..Turns /\ attempt[c] \in 1..Attempts /\ asked[c] \in Nat
          /\ asked[c] <= (attempt[c] - 1) * Turns + turn[c] - 1
      BY <1>2 DEF LoopsInv, Looping
    <3>0. /\ Turns \in Nat /\ Attempts \in Nat /\ attempt[c] \in Nat /\ turn[c] \in Nat
          /\ asked[c] \in Nat
      BY <1>2, <2>1 DEF LoopsInv
    <3>2. PICK T \in Nat, A \in Nat, a \in Nat, t \in Nat, q \in Nat :
            T = Turns /\ A = Attempts /\ a = attempt[c] /\ t = turn[c] /\ q = asked[c]
      BY <3>0
    <3>3. a \in 1..A /\ t \in 1..T /\ q <= (a - 1) * T + t - 1
      BY <3>1, <3>2
    <3>4. q \in 0..(T * A)
      BY <3>3, QueriesBounded
    <3> QED  BY <3>1, <3>2, <3>4
  <2>3. /\ turn \in [Cells -> 1..Turns] /\ attempt \in [Cells -> 1..Attempts]
        /\ asked \in [Cells -> 0..Turns * Attempts]
    BY <1>2, <2>2 DEF LoopsInv
  <2> QED  BY <1>2, <2>3 DEF TypeOK, CellsTyped, LoopsInv, Labels, Teams, Running
<1>3. Spec => []BudgetTypeOK
  BY WorkersImplementBudget, BudgetTypeCorrect, PTL
<1> QED  BY <1>1, <1>2, <1>3, WorkInvariance, PTL

-----------------------------------------------------------------------------
(* The allocation of the packages over the lanes.                          *)

USE AllocationAssumption DEF Lanes

(* Products distribute over a sum: the facts about shares rest on this. *)
LEMMA Distribute ==
    ASSUME NEW a \in Int, NEW b \in Int, NEW d \in Int
    PROVE  /\ (a + b) * d = a * d + b * d
           /\ (a - b) * d = a * d - b * d
           /\ a * d \in Int
  OBVIOUS

LEMMA Monotone ==
    ASSUME NEW a \in Int, NEW b \in Int, NEW d \in Nat \ {0}, a < b
    PROVE  a * d < b * d
  OBVIOUS

LEMMA Nonnegative ==
    ASSUME NEW a \in Nat, NEW b \in Nat
    PROVE  a * b \in Nat
  OBVIOUS

(* The two shares are natural numbers and together the whole budget. *)
LEMMA SharesAddUp ==
    ASSUME LaneTypeOK
    PROVE  /\ \A l \in Lanes : Share(l) \in Nat
           /\ Share("lead") + Share("hunt") = total * Den
  <1> DEFINE rest == Den - share
  <1>1. share \in Nat /\ rest \in Nat /\ total \in Nat /\ share + rest = Den
    BY DEF LaneTypeOK
  <1>2. share * total \in Nat /\ rest * total \in Nat
    BY <1>1, Nonnegative
  <1>3. (share + rest) * total = share * total + rest * total
    BY <1>1, Distribute
  <1>4. Den * total = total * Den
    BY <1>1
  <1>5. Share("lead") = share * total /\ Share("hunt") = rest * total
    BY DEF Share
  <1> HIDE DEF rest
  <1> QED
    BY <1>1, <1>2, <1>3, <1>4, <1>5

(* The inductive invariant. *)
LaneInv == LaneTypeOK /\ WithinShare

LEMMA LaneInitInv == LaneInit => LaneInv
  <1> SUFFICES ASSUME LaneInit PROVE LaneInv
    OBVIOUS
  <1>1. LaneTypeOK
    BY DEF LaneInit, LaneTypeOK, Launched
  <1>2. WithinShare
    <2> SUFFICES ASSUME NEW l \in Lanes PROVE consumed[l] * Den < Share(l) + Den
      BY DEF WithinShare
    <2>1. consumed[l] * Den = 0
      BY DEF LaneInit
    <2> QED
      BY <1>1, <2>1, SharesAddUp
  <1> QED
    BY <1>1, <1>2 DEF LaneInv

LEMMA LaneLaunchKeeps ==
    ASSUME LaneInv, NEW l \in Lanes, Launch(l)
    PROVE  LaneInv'
  <1>1. LaneTypeOK'
    BY DEF LaneInv, LaneTypeOK, Launch, Chosen, Eligible, Waiting, Launched
  <1>2. WithinShare'
    <2> SUFFICES ASSUME NEW k \in Lanes, Waiting(Other(k))'
                 PROVE  consumed'[k] * Den < Share(k) + Den
      BY DEF WithinShare, Launch, Share
    <2>1. Waiting(Other(k))
      BY DEF Waiting, Launch, LaneInv, LaneTypeOK, Other
    <2>2. consumed[k] \in Nat /\ Share(k) \in Nat
      BY SharesAddUp DEF LaneInv, LaneTypeOK
    <2>3. CASE k = l
      <3>1. consumed[k] * Den < Share(k)
        BY <2>1, <2>3 DEF Launch, Chosen, Eligible
      <3>2. consumed'[k] = consumed[k] + 1
        BY <2>3 DEF Launch, LaneInv, LaneTypeOK
      <3>3. (consumed[k] + 1) * Den = consumed[k] * Den + Den
        BY <2>2, Distribute
      <3> QED
        BY <2>2, <3>1, <3>2, <3>3, Distribute
    <2>4. CASE k # l
      BY <2>1, <2>4 DEF LaneInv, WithinShare, Launch, LaneTypeOK
    <2> QED
      BY <2>3, <2>4
  <1> QED
    BY <1>1, <1>2 DEF LaneInv

LEMMA ReallocateKeeps ==
    ASSUME LaneInv, Reallocate
    PROVE  LaneInv'
  <1>1. LaneTypeOK'
    BY DEF LaneInv, LaneTypeOK, Reallocate, Launched
  <1>2. \A l \in Lanes : Share(l)' \in Nat
    <2> DEFINE rest == Den - share
    <2>1. share \in Nat /\ rest \in Nat /\ claims \in Nat
      BY DEF LaneInv, LaneTypeOK
    <2>2. share * claims \in Nat /\ rest * claims \in Nat
      BY <2>1, Nonnegative
    <2> QED
      BY <2>2 DEF Share, Reallocate
  <1>3. WithinShare'
    <2>1. ASSUME NEW l \in Lanes PROVE (consumed[l] * Den < Share(l) + Den)'
      <3>1. consumed'[l] * Den = 0
        BY DEF Reallocate
      <3> QED
        BY <1>2, <3>1
    <2> QED
      BY <2>1 DEF WithinShare
  <1> QED
    BY <1>1, <1>3 DEF LaneInv

LEMMA LaneNextInv == LaneInv /\ [LaneNext]_laneVars => LaneInv'
  <1> SUFFICES ASSUME LaneInv, [LaneNext]_laneVars PROVE LaneInv'
    OBVIOUS
  <1>1. CASE Reallocate
    BY <1>1, ReallocateKeeps
  <1>2. ASSUME NEW l \in Lanes, Launch(l) PROVE LaneInv'
    BY <1>2, LaneLaunchKeeps
  <1>3. CASE UNCHANGED laneVars
    BY <1>3 DEF LaneInv, LaneTypeOK, WithinShare, Launched, Waiting, Share, laneVars
  <1> QED
    BY <1>1, <1>2, <1>3 DEF LaneNext

LEMMA LaneInvariance == LaneSpec => []LaneInv
  <1>1. LaneInit => LaneInv
    BY LaneInitInv
  <1>2. LaneInv /\ [LaneNext]_laneVars => LaneInv'
    BY LaneNextInv
  <1> QED
    BY <1>1, <1>2, PTL DEF LaneSpec

-----------------------------------------------------------------------------
(* With budget left and both lanes waiting, one is below its share. *)
LEMMA SomeLaneBelow ==
    ASSUME LaneTypeOK, Launched < total
    PROVE  \E l \in Lanes : consumed[l] * Den < Share(l)
  <1>1. consumed["lead"] \in Nat /\ consumed["hunt"] \in Nat /\ total \in Nat
    BY DEF LaneTypeOK
  <1>2. (consumed["lead"] + consumed["hunt"]) * Den < total * Den
    BY <1>1, Monotone DEF Launched
  <1>3. (consumed["lead"] + consumed["hunt"]) * Den
          = consumed["lead"] * Den + consumed["hunt"] * Den
    BY <1>1, Distribute
  <1>4. consumed["lead"] * Den \in Nat /\ consumed["hunt"] * Den \in Nat
    BY <1>1, Nonnegative
  <1>5. Share("lead") \in Nat /\ Share("hunt") \in Nat
    BY SharesAddUp
  <1>6. Share("lead") + Share("hunt") = total * Den
    BY SharesAddUp
  <1>7. consumed["lead"] * Den < Share("lead") \/ consumed["hunt"] * Den < Share("hunt")
    BY <1>2, <1>3, <1>4, <1>5, <1>6
  <1> QED
    BY <1>7

(* The order of the two lanes is total. *)
LEMMA BeforeTotal ==
    ASSUME LaneTypeOK
    PROVE  Before("lead", "hunt") \/ Before("hunt", "lead")
  <1> DEFINE a == consumed["lead"] * Share("hunt")
             b == consumed["hunt"] * Share("lead")
  <1>1. a \in Nat /\ b \in Nat
    BY SharesAddUp, Nonnegative DEF LaneTypeOK
  <1>2. a < b \/ a = b \/ b < a
    BY <1>1
  <1> QED
    BY <1>2 DEF Before

LEMMA StopsOnlyWhenUsedUp == LaneTypeOK => WorkConserving
  <1> SUFFICES ASSUME LaneTypeOK, Done, Launched # total,
                      NEW l \in Lanes, consumed[l] # queue[l]
               PROVE  FALSE
    BY DEF WorkConserving
  <1>1. Launched < total
    BY DEF LaneTypeOK, Launched
  <1>2. Waiting(l)
    BY DEF LaneTypeOK, Waiting
  <1>3. Other(l) \in Lanes /\ Other(Other(l)) = l
    BY DEF Other
  <1>4. \E k \in Lanes : Eligible(k)
    <2>1. CASE ~Waiting(Other(l))
      BY <1>2, <2>1 DEF Eligible
    <2>2. CASE Waiting(Other(l))
      <3>1. PICK k \in Lanes : consumed[k] * Den < Share(k)
        BY <1>1, SomeLaneBelow
      <3>2. Waiting(k)
        BY <1>2, <2>2 DEF Other
      <3> QED
        BY <3>1, <3>2 DEF Eligible
    <2> QED
      BY <2>1, <2>2
  <1>5. \E k \in Lanes : Chosen(k)
    BY <1>1, <1>4, BeforeTotal DEF Chosen, Other
  <1> QED
    BY <1>5 DEF Done

LEMMA WaitingLaneHasShare == LaneInv => ShareHonoured
  <1> SUFFICES ASSUME LaneInv, Done, NEW l \in Lanes, Waiting(l)
               PROVE  (consumed[l] + 1) * Den > Share(l)
    BY DEF ShareHonoured
  <1> DEFINE k == Other(l)
  <1>0. k \in Lanes /\ Other(k) = l
    BY DEF Other
  <1>1. Launched = total
    <2>1. consumed[l] # queue[l]
      BY DEF Waiting, LaneInv, LaneTypeOK
    <2> QED
      BY <2>1, StopsOnlyWhenUsedUp DEF WorkConserving, LaneInv
  <1>2. consumed[k] * Den < Share(k) + Den
    BY <1>0 DEF LaneInv, WithinShare
  <1>3. consumed[l] \in Nat /\ consumed[k] \in Nat
    BY <1>0 DEF LaneInv, LaneTypeOK
  <1>4. consumed[l] + consumed[k] = total
    BY <1>1, <1>3 DEF Launched, Other
  <1>5. Share(l) + Share(k) = total * Den /\ Share(l) \in Nat /\ Share(k) \in Nat
    BY SharesAddUp DEF LaneInv, Other
  <1>6. consumed[l] * Den + consumed[k] * Den = total * Den
    BY <1>3, <1>4, Distribute
  <1>7. (consumed[l] + 1) * Den = consumed[l] * Den + Den
    BY <1>3, Distribute
  <1>8. consumed[l] * Den \in Nat /\ consumed[k] * Den \in Nat
    BY <1>3, Nonnegative
  <1> HIDE DEF k
  <1> QED
    BY <1>2, <1>5, <1>6, <1>7, <1>8

-----------------------------------------------------------------------------
(* The allocation is well typed, no lane launches more than it queued, and   *)
(* the two lanes never exceed budget_team_packages.                          *)
THEOREM AllocationTypeCorrect == LaneSpec => []LaneTypeOK
  <1>1. LaneInv => LaneTypeOK
    BY DEF LaneInv
  <1> QED
    BY <1>1, LaneInvariance, PTL

(* FairShareScheduler is work-conserving: choose() returns None only with    *)
(* the budget or both queues used up.                                        *)
THEOREM AllocationConservesWork == LaneSpec => []WorkConserving
  <1>1. LaneInv => WorkConserving
    BY StopsOnlyWhenUsedUp DEF LaneInv
  <1> QED
    BY <1>1, LaneInvariance, PTL

(* A lane never runs a whole package ahead of its share while the other      *)
(* lane waits.                                                               *)
THEOREM AllocationWithinShare == LaneSpec => []WithinShare
  <1>1. LaneInv => WithinShare
    BY DEF LaneInv
  <1> QED
    BY <1>1, LaneInvariance, PTL

(* A lane left with queued packages got its share, less than one package     *)
(* short.                                                                    *)
THEOREM AllocationHonoursShare == LaneSpec => []ShareHonoured
  <1>1. LaneInv => ShareHonoured
    BY WaitingLaneHasShare
  <1> QED
    BY <1>1, LaneInvariance, PTL
-----------------------------------------------------------------------------
(* The claims dealt out.                                                   *)

(* How many of 0..m-1 are below t.                                         *)
Below(m, t) == IF t <= 0 THEN 0 ELSE IF m <= t THEN m ELSE t

(* The sum of q for each of m packages and one more for those below t.     *)
LEMMA DealtSum ==
    ASSUME NEW n \in Nat, NEW q \in Nat, NEW t \in Int, NEW f \in [0..n - 1 -> Nat],
           \A i \in 0..n - 1 : f[i] = q + IF i < t THEN 1 ELSE 0
    PROVE  Total(f, 0..n - 1) = n * q + Below(n, t)
<1> DEFINE S == 0..n - 1
           Wrong(s, m) == s = 0..m - 1 /\ Total(f, s) # m * q + Below(m, t)
           Bad == {s \in SUBSET S : \E m \in 0..n : Wrong(s, m)}
<1>1. SUFFICES ASSUME Bad # {} PROVE FALSE
  <2>1. ASSUME Total(f, S) # n * q + Below(n, t) PROVE S \in Bad
    <3>1. S \in SUBSET S /\ n \in 0..n /\ Wrong(S, n)
      BY <2>1
    <3> HIDE DEF Wrong, S
    <3> QED  BY <3>1
  <2> QED  BY <2>1
<1>2. IsFiniteSet(S)
  BY FS_Interval
<1>3. PICK s \in Bad : \A u \in Bad : u \subseteq s => u = s
  <2>1. Bad \in SUBSET (SUBSET S)
    OBVIOUS
  <2> HIDE DEF Bad, S
  <2> QED  BY <1>1, <1>2, <2>1, SmallestSubset
<1>4. PICK m \in 0..n : Wrong(s, m)
  BY <1>3
<1>5. s = 0..m - 1 /\ Total(f, s) # m * q + Below(m, t) /\ s \in SUBSET S
  BY <1>3, <1>4
<1>6. m # 0
  <2>1. SUFFICES ASSUME m = 0 PROVE FALSE
    OBVIOUS
  <2>2. s = {}
    BY <1>5, <2>1
  <2>3. Total(f, s) = 0
    BY <2>2, TotalEmpty
  <2>4. m * q = 0 /\ Below(m, t) = 0
    BY <2>1 DEF Below
  <2> QED  BY <1>5, <2>3, <2>4
<1>7. PICK k \in 0..n : k = m - 1
  BY <1>6
<1> DEFINE u == 0..k - 1
<1>8. /\ u \in SUBSET S /\ u \subseteq s /\ u # s /\ u \cup {k} = s /\ k \notin u /\ k \in S
      /\ k \in Nat /\ m = k + 1
  BY <1>5, <1>6, <1>7
<1>9. Total(f, u) = k * q + Below(k, t)
  <2>1. u \notin Bad
    <3> HIDE DEF Bad, u
    <3> QED  BY <1>3, <1>8
  <2>2. ~Wrong(u, k)
    <3> HIDE DEF Wrong, u
    <3> QED  BY <1>8, <2>1
  <2> QED  BY <2>2
<1>10. IsFiniteSet(u)
  BY <1>2, <1>8, FS_Subset
<1> HIDE DEF u, S, Bad, Wrong
<1>11. Total(f, s) = Total(f, u) + f[k]
  <2>1. f \in [S -> Nat]
    BY DEF S
  <2>2. PICK x, v, D, g : x = k /\ v = u /\ D = S /\ g = f
    OBVIOUS
  <2>3. v \in SUBSET D /\ x \in D /\ x \notin v /\ IsFiniteSet(v) /\ g \in [D -> Nat]
    <3>1. u \in SUBSET S /\ k \in S /\ k \notin u
      BY <1>8
    <3> QED  BY <1>10, <2>1, <2>2, <3>1, Zenon
  <2>4. Total(g, v \cup {x}) = Total(g, v) + g[x]
    BY <2>3, TotalAdd, SMTT(30)
  <2> QED  BY <1>8, <2>2, <2>4
<1>12. f[k] = q + IF k < t THEN 1 ELSE 0
  BY <1>8 DEF S
<1>13. m * q = k * q + q /\ k * q \in Int
  <2>1. (k + 1) * q = k * q + 1 * q /\ k * q \in Int
    BY <1>8, Distribute
  <2> QED  BY <1>8, <2>1
<1>14. Below(m, t) = Below(k, t) + (IF k < t THEN 1 ELSE 0) /\ Below(k, t) \in Int
  BY <1>8 DEF Below
<1>15. PICK d \in {0, 1} : d = IF k < t THEN 1 ELSE 0
  OBVIOUS
<1>16. Total(f, s) = (k * q + Below(k, t)) + (q + d)
  BY <1>9, <1>11, <1>12, <1>15
<1>17. Below(m, t) = Below(k, t) + d
  BY <1>14, <1>15
<1>18. PICK x \in Int, y \in Int, z \in Int : x = k * q /\ y = m * q /\ z = Below(k, t)
  BY <1>13, <1>14
<1>19. y = x + q
  BY <1>13, <1>18
<1>20. (x + z) + (q + d) = y + (z + d)
  BY <1>19
<1>21. Total(f, s) = (x + z) + (q + d) /\ m * q + Below(m, t) = y + (z + d)
  BY <1>16, <1>17, <1>18
<1> QED  BY <1>5, <1>20, <1>21

(* The limits of a lane's packages as a function.                          *)
LEMMA DealtTotal ==
    ASSUME NEW l, NEW S, NEW f, IsFiniteSet(S), \A i \in S : f[i] = Limit(l, i)
    PROVE  MapThenSumSet(LAMBDA index : Limit(l, index), S) = Total(f, S)
<1> DEFINE Fold(g) == g = [s \in SUBSET S |->
               IF s = {} THEN 0
               ELSE Limit(l, CHOOSE x \in s : TRUE) + g[s \ {CHOOSE x \in s : TRUE}]]
           iter == CHOOSE g : Fold(g)
<1>1. MapThenSumSet(LAMBDA index : Limit(l, index), S) = iter[S]
  BY Zenon DEF MapThenSumSet, MapThenFoldSet
<1>2. ASSUME NEW s \in SUBSET S, s # {} PROVE f[Pick(s)] = Limit(l, CHOOSE x \in s : TRUE)
  <2>1. Pick(s) \in s
    BY <1>2, PickIn
  <2> QED  BY <2>1 DEF Pick
<1>3. \A g : IsTotal(g, f, S) <=> Fold(g)
  BY <1>2 DEF IsTotal, Pick
<1>4. \E g : Fold(g)
  <2> HIDE DEF Fold
  <2> QED  BY <1>3, TotalExists
<1>5. Fold(iter)
  <2> HIDE DEF Fold
  <2> QED  BY <1>4, Zenon
<1> HIDE DEF Fold, iter
<1>6. IsTotal(iter, f, S)
  BY <1>3, <1>5
<1> QED  BY <1>1, <1>6, TotalIsTotal

(* The quotient and the remainder of the claims over the packages.         *)
LEMMA Division ==
    ASSUME NEW a \in Nat, NEW b \in Nat \ {0}
    PROVE  a \div b \in Nat /\ a % b \in Nat /\ a % b < b /\ a = b * (a \div b) + (a % b)
<1>1. a \div b \in Nat
  OBVIOUS
<1>2. a % b \in Nat /\ a % b < b
  OBVIOUS
<1>3. a = b * (a \div b) + (a % b)
  OBVIOUS
<1> QED  BY <1>1, <1>2, <1>3, Zenon

(* What a lane deals: the quotient to each, and its part of the remainder. *)
LEMMA LaneDeals ==
    ASSUME LaneTypeOK, Launched > 0, NEW l \in Lanes, NEW q, q = claims \div Launched,
           NEW t, t = (claims % Launched) - Offset(l)
    PROVE  /\ Dealt(l) = consumed[l] * q + Below(consumed[l], t)
           /\ \A i \in 0..consumed[l] - 1 : Limit(l, i) >= q
<1>1. /\ consumed[l] \in Nat /\ claims \in Nat /\ Launched \in Nat \ {0}
      /\ Offset(l) \in Nat
  BY DEF LaneTypeOK, Launched, Offset
<1>2. q \in Nat /\ t \in Int /\ claims % Launched \in Nat
  BY <1>1, Division
<1>3. ASSUME NEW i \in Nat PROVE Limit(l, i) = q + IF i < t THEN 1 ELSE 0
  <2>1. i + Offset(l) < claims % Launched <=> i < t
    BY <1>1, <1>2
  <2> QED  BY <2>1 DEF Limit
<1>4. PICK n \in Nat : n = consumed[l]
  BY <1>1
<1> DEFINE f == [i \in 0..n - 1 |-> Limit(l, i)]
<1>5. \A i \in 0..n - 1 : i \in Nat /\ f[i] = Limit(l, i) /\ f[i] = q + IF i < t THEN 1 ELSE 0
  BY <1>3
<1>6. f \in [0..n - 1 -> Nat]
  BY <1>2, <1>3
<1> HIDE DEF f
<1>7. IsFiniteSet(0..n - 1)
  BY FS_Interval
<1>8. Dealt(l) = Total(f, 0..n - 1)
  BY <1>4, <1>5, <1>7, DealtTotal DEF Dealt
<1>9. Total(f, 0..n - 1) = n * q + Below(n, t)
  <2>1. \A i \in 0..n - 1 : f[i] = q + IF i < t THEN 1 ELSE 0
    BY <1>5
  <2> QED  BY <1>2, <1>6, <2>1, DealtSum, ZenonT(60)
<1>10. \A i \in 0..n - 1 : Limit(l, i) >= q
  BY <1>2, <1>5
<1> QED  BY <1>4, <1>8, <1>9, <1>10

LEMMA ClaimsAreDealt == LaneTypeOK => ClaimsDealt
<1> SUFFICES ASSUME LaneTypeOK, Done, Launched > 0
             PROVE  /\ Dealt("lead") + Dealt("hunt") = claims
                    /\ \A l \in Lanes : \A i \in 0..consumed[l] - 1 : Limit(l, i) >= 1
  BY DEF ClaimsDealt
<1>1. PICK a \in Nat, b \in Nat, c \in Nat :
        a = consumed["lead"] /\ b = consumed["hunt"] /\ c = claims
  BY DEF LaneTypeOK
<1>2. Launched = a + b /\ a + b \in Nat \ {0} /\ a + b <= c
  BY <1>1 DEF Launched, Done, OverClaims
<1>3. PICK q \in Nat, r \in Nat : q = c \div (a + b) /\ r = c % (a + b)
  BY <1>2, Division
<1>4. r < a + b /\ c = (a + b) * q + r
  BY <1>2, <1>3, Division
<1>5. (a + b) * q = a * q + b * q /\ a * q \in Int /\ b * q \in Int
  BY Distribute
<1>6. q >= 1
  <2>1. CASE q = 0
    <3>1. (a + b) * q = 0
      BY <2>1
    <3> QED  BY <1>2, <1>4, <3>1
  <2> QED  BY <2>1
<1>7. /\ Dealt("lead") = a * q + Below(a, r)
      /\ \A i \in 0..a - 1 : Limit("lead", i) >= q
  <2>1. q = claims \div Launched /\ r = (claims % Launched) - Offset("lead")
    BY <1>1, <1>2, <1>3 DEF Offset
  <2> QED  BY <1>1, <2>1, LaneDeals
<1>8. /\ Dealt("hunt") = b * q + Below(b, r - a)
      /\ \A i \in 0..b - 1 : Limit("hunt", i) >= q
  <2>1. q = claims \div Launched /\ r - a = (claims % Launched) - Offset("hunt")
    BY <1>1, <1>2, <1>3 DEF Offset
  <2> QED  BY <1>1, <2>1, LaneDeals
<1>9. Below(a, r) + Below(b, r - a) = r /\ Below(a, r) \in Int /\ Below(b, r - a) \in Int
  BY <1>4 DEF Below
<1>10. Dealt("lead") + Dealt("hunt") = claims
  BY <1>1, <1>4, <1>5, <1>7, <1>8, <1>9
<1>11. ASSUME NEW l \in Lanes, NEW i \in 0..consumed[l] - 1 PROVE Limit(l, i) >= 1
  <2>1. Limit(l, i) = q \/ Limit(l, i) = q + 1
    BY <1>1, <1>2, <1>3 DEF Limit
  <2> QED  BY <1>6, <2>1
<1> QED  BY <1>10, <1>11

(* run_lane of the two lanes' processes, which do not talk to each other,  *)
(* deals out max_active_claims exactly, and every launched package may     *)
(* hold a claim.                                                           *)
THEOREM AllocationDealsClaims == LaneSpec => []ClaimsDealt
<1>1. LaneInv => ClaimsDealt
  BY ClaimsAreDealt DEF LaneInv
<1> QED  BY <1>1, LaneInvariance, PTL
=============================================================================
