------------------------ MODULE SharedArtifactsProofs ------------------------
(***************************************************************************)
(* Proofs about SharedArtifacts, for any number of processes, attempts,    *)
(* values and faults: receipts always have their ground, an attempt has    *)
(* one answer, and what a handoff pinned never changes.                    *)
(***************************************************************************)
EXTENDS SharedArtifacts, TLAPS

(* Attempt c is a listed computation of the value v.                       *)
ListedComputation(c, v) ==
    /\ c \in requests
    /\ slot[c].mode = "computed"
    /\ slot[c].val = v

(* A process works for an attempt, and only a process that uses another    *)
(* attempt's computation again has a producer.                             *)
Assigned(p) ==
    /\ pc[p] \in {"idle", "raised"} <=> at[p] = NoAttempt
    /\ pc[p] \in {"idle", "raised", "lookup", "list", "object"} => from[p] = NoAttempt
    /\ pc[p] = "object" => val[p] \in Values

(* What a process is about to put into its slot already has its ground.    *)
SlotGround(p) == pc[p] \in SlotSteps \cup {"verify"} =>
    /\ val[p] \in objects
    /\ from[p] # NoAttempt => ListedComputation(from[p], val[p])

(* The slot holds what the process put there, or what it found there.      *)
SlotHeld(p) ==
    /\ pc[p] \in {"slotUnlink", "verify"} => slot[at[p]] = Receipt(p)
    /\ pc[p] \in RequestSteps => slot[at[p]].mode = "computed" /\ slot[at[p]].val = val[p]
    /\ pc[p] = "requestUnlink" => at[p] \in requests
    /\ pc[p] = "return" =>
         /\ slot[at[p]] # NoReceipt
         /\ slot[at[p]].val = val[p]
         /\ slot[at[p]].mode = "computed" => at[p] \in requests

Local(p) == Assigned(p) /\ SlotGround(p) /\ SlotHeld(p)

(* An answer was given from a receipt, a handoff was made of an answer,    *)
(* and a receipt with a producer is a reused one.                          *)
AnswersHeld ==
    /\ \A a \in Attempts : answers[a] # {} => slot[a] # NoReceipt
    /\ \A a \in frozen : answers[a] # {}
    /\ \A a \in Attempts : slot[a].producer # NoAttempt => slot[a].mode = "reused"

Inv ==
    /\ TypeOK
    /\ \A p \in Procs : Local(p)
    /\ AnswersHeld
    /\ ReceiptsGrounded
    /\ OneAnswer
    /\ ComputedIsListed


-----------------------------------------------------------------------------
(* What one step of a process leaves alone. *)

(* Nothing that was published is withdrawn or replaced.                    *)
StoreGrows ==
    /\ objects \subseteq objects'
    /\ requests \subseteq requests'
    /\ \A a \in Attempts : slot[a] # NoReceipt => slot'[a] = slot[a]

(* Only process p moves.                                                   *)
OnlyMoves(p) == \A q \in Procs \ {p} :
    pc'[q] = pc[q] /\ at'[q] = at[q] /\ val'[q] = val[q] /\ from'[q] = from[q]

(* The published files and the answers stay as they are.                   *)
StoreSame == UNCHANGED <<objects, slot, requests, answers, frozen>>

(* A process that does not move keeps its part of the invariant while the  *)
(* store grows.                                                            *)
LEMMA LocalKept ==
    ASSUME Inv, StoreGrows, NEW q \in Procs,
           pc'[q] = pc[q], at'[q] = at[q], val'[q] = val[q], from'[q] = from[q]
    PROVE  Local(q)'
<1>1. Local(q) /\ TypeOK  BY DEF Inv
<1>2. Assigned(q)'  BY <1>1 DEF Local, Assigned
<1>3. SlotGround(q)'
  <2> SUFFICES ASSUME pc[q] \in SlotSteps \cup {"verify"}
               PROVE  (/\ val[q] \in objects
                       /\ from[q] # NoAttempt => ListedComputation(from[q], val[q]))'
    BY DEF SlotGround
  <2>1. val[q] \in objects /\ (from[q] # NoAttempt => ListedComputation(from[q], val[q]))
    BY <1>1 DEF Local, SlotGround
  <2>2. val'[q] \in objects'  BY <2>1 DEF StoreGrows
  <2>3. from'[q] # NoAttempt => ListedComputation(from[q], val[q])'
    <3> SUFFICES ASSUME from[q] # NoAttempt PROVE ListedComputation(from[q], val[q])'
      OBVIOUS
    <3>1. from[q] \in requests /\ slot[from[q]].mode = "computed" /\ slot[from[q]].val = val[q]
      BY <2>1 DEF ListedComputation
    <3>2. from[q] \in Attempts /\ slot[from[q]] # NoReceipt
      BY <3>1, <1>1 DEF TypeOK, NoReceipt
    <3>3. slot'[from[q]] = slot[from[q]] /\ from[q] \in requests'
      BY <3>1, <3>2 DEF StoreGrows
    <3> QED  BY <3>1, <3>3 DEF ListedComputation
  <2> QED  BY <2>2, <2>3
<1>4. SlotHeld(q)'
  <2> USE DEF Steps, SlotSteps, RequestSteps
  <2>1. CASE pc[q] \in {"slotUnlink", "verify", "return"} \cup RequestSteps
    <3>1. at[q] \in Attempts
      BY <1>1, <2>1 DEF Local, Assigned, TypeOK, Attempts, NoAttempt
    <3>2. slot[at[q]] # NoReceipt
      BY <1>1, <2>1 DEF Local, SlotHeld, Receipt, NoReceipt
    <3>3. slot'[at[q]] = slot[at[q]]  BY <3>1, <3>2 DEF StoreGrows
    <3>4. Receipt(q)' = Receipt(q)  BY DEF Receipt
    <3>5. SlotHeld(q)  BY <1>1 DEF Local
    <3>6. at[q] \in requests => at[q] \in requests'  BY DEF StoreGrows
    <3> QED  BY <3>3, <3>4, <3>5, <3>6 DEF SlotHeld
  <2>2. CASE pc[q] \notin {"slotUnlink", "verify", "return"} \cup RequestSteps
    BY <2>2 DEF SlotHeld
  <2> QED  BY <2>1, <2>2
<1> QED  BY <1>2, <1>3, <1>4 DEF Local

(* So it is enough to look at the process that moves.                      *)
LEMMA LocalsKept ==
    ASSUME Inv, StoreGrows, NEW p \in Procs, OnlyMoves(p), Local(p)'
    PROVE  \A q \in Procs : Local(q)'
<1> SUFFICES ASSUME NEW q \in Procs PROVE Local(q)'
  OBVIOUS
<1>1. CASE q = p  BY <1>1
<1>2. CASE q # p
  <2>1. pc'[q] = pc[q] /\ at'[q] = at[q] /\ val'[q] = val[q] /\ from'[q] = from[q]
    BY <1>2 DEF OnlyMoves
  <2> QED  BY <2>1, LocalKept
<1> QED  BY <1>1, <1>2

(* A step that publishes nothing keeps what is said of the store.          *)
LEMMA StoreKept ==
    ASSUME Inv, StoreSame
    PROVE  StoreGrows /\ AnswersHeld' /\ ReceiptsGrounded' /\ OneAnswer' /\ ComputedIsListed'
<1> USE DEF StoreSame, Inv
<1>1. StoreGrows  BY DEF StoreGrows
<1>2. AnswersHeld'  BY DEF AnswersHeld
<1>3. ReceiptsGrounded'  BY DEF ReceiptsGrounded
<1>4. OneAnswer' /\ ComputedIsListed'  BY DEF OneAnswer, ComputedIsListed
<1> QED  BY <1>1, <1>2, <1>3, <1>4

-----------------------------------------------------------------------------
(* The inductive invariant. *)

LEMMA InitInv == Init => Inv
<1> SUFFICES ASSUME Init PROVE Inv
  OBVIOUS
<1> USE DEF Init
<1>1. TypeOK
  BY SharedBoundsAssumption DEF TypeOK, Steps, NoAttempt
<1>2. ASSUME NEW p \in Procs PROVE Local(p)
  BY DEF Local, Assigned, SlotGround, SlotHeld, SlotSteps, RequestSteps
<1>3. AnswersHeld /\ ReceiptsGrounded /\ OneAnswer /\ ComputedIsListed
  BY DEF AnswersHeld, ReceiptsGrounded, OneAnswer, ComputedIsListed, NoReceipt
<1> QED  BY <1>1, <1>2, <1>3 DEF Inv

(* A process that goes on without publishing.                              *)

LEMMA BeginInv == ASSUME Inv, NEW p \in Procs, NEW a \in Attempts, Begin(p, a) PROVE Inv'
<1> USE DEF Begin, Goto, Reset, local
<1>1. TypeOK /\ Local(p)  BY DEF Inv
<1>2. StoreSame /\ OnlyMoves(p)  BY <1>1 DEF StoreSame, OnlyMoves, TypeOK
<1>3. TypeOK'  BY <1>1, SharedBoundsAssumption DEF TypeOK, Steps, SlotSteps, RequestSteps, NoAttempt, Attempts
<1>4. Assigned(p)'  BY <1>1 DEF Local, Assigned, TypeOK, NoAttempt, Attempts, Steps, SlotSteps, RequestSteps
<1>5. SlotGround(p)'  BY <1>1 DEF Local, SlotGround, Assigned, TypeOK, ListedComputation, SlotSteps, RequestSteps, NoAttempt
<1>6. SlotHeld(p)'  BY <1>1 DEF Local, SlotHeld, TypeOK, RequestSteps, SlotSteps, Receipt, NoReceipt, NoAttempt, Attempts
<1>7. StoreGrows /\ AnswersHeld' /\ ReceiptsGrounded' /\ OneAnswer' /\ ComputedIsListed'
  BY <1>2, StoreKept
<1>8. \A q \in Procs : Local(q)'
  BY <1>2, <1>4, <1>5, <1>6, <1>7, LocalsKept DEF Local
<1> QED  BY <1>3, <1>7, <1>8 DEF Inv

LEMMA LookupOwnInv == ASSUME Inv, NEW p \in Procs, LookupOwn(p) PROVE Inv'
<1> USE DEF LookupOwn, Goto, Reset, local
<1>1. TypeOK /\ Local(p)  BY DEF Inv
<1>2. StoreSame /\ OnlyMoves(p)  BY <1>1 DEF StoreSame, OnlyMoves, TypeOK
<1>3. TypeOK'
  <2>1. at[p] \in Attempts  BY <1>1 DEF Local, Assigned, TypeOK, NoAttempt, Attempts
  <2>2. slot[at[p]].val \in Values  BY <1>1, <2>1 DEF TypeOK, Receipts
  <2> QED  BY <1>1, <2>2 DEF TypeOK, Steps, RequestSteps
<1>4. Assigned(p)'  BY <1>1 DEF Local, Assigned, TypeOK, NoAttempt, Attempts, Steps, SlotSteps, RequestSteps
<1>5. SlotGround(p)'  BY <1>1 DEF Local, SlotGround, Assigned, TypeOK, ListedComputation, SlotSteps, RequestSteps, NoAttempt
<1>6. SlotHeld(p)'  BY <1>1 DEF Local, SlotHeld, TypeOK, RequestSteps, SlotSteps, Receipt, NoReceipt, NoAttempt, Attempts
<1>7. StoreGrows /\ AnswersHeld' /\ ReceiptsGrounded' /\ OneAnswer' /\ ComputedIsListed'
  BY <1>2, StoreKept
<1>8. \A q \in Procs : Local(q)'
  BY <1>2, <1>4, <1>5, <1>6, <1>7, LocalsKept DEF Local
<1> QED  BY <1>3, <1>7, <1>8 DEF Inv

LEMMA LookupOtherInv == ASSUME Inv, NEW p \in Procs, LookupOther(p) PROVE Inv'
<1> USE DEF LookupOther, Goto, Reset, local
<1>1. TypeOK /\ Local(p)  BY DEF Inv
<1>2. StoreSame /\ OnlyMoves(p)  BY <1>1 DEF StoreSame, OnlyMoves, TypeOK
<1>3. TypeOK'  BY <1>1, SharedBoundsAssumption DEF TypeOK, Steps, SlotSteps, RequestSteps, NoAttempt, Attempts
<1>4. Assigned(p)'  BY <1>1 DEF Local, Assigned, TypeOK, NoAttempt, Attempts, Steps, SlotSteps, RequestSteps
<1>5. SlotGround(p)'  BY <1>1 DEF Local, SlotGround, Assigned, TypeOK, ListedComputation, SlotSteps, RequestSteps, NoAttempt
<1>6. SlotHeld(p)'  BY <1>1 DEF Local, SlotHeld, TypeOK, RequestSteps, SlotSteps, Receipt, NoReceipt, NoAttempt, Attempts
<1>7. StoreGrows /\ AnswersHeld' /\ ReceiptsGrounded' /\ OneAnswer' /\ ComputedIsListed'
  BY <1>2, StoreKept
<1>8. \A q \in Procs : Local(q)'
  BY <1>2, <1>4, <1>5, <1>6, <1>7, LocalsKept DEF Local
<1> QED  BY <1>3, <1>7, <1>8 DEF Inv

LEMMA ListHitInv == ASSUME Inv, NEW p \in Procs, ListHit(p) PROVE Inv'
<1> USE DEF ListHit, Goto, Reset, local
<1>1. TypeOK /\ Local(p)  BY DEF Inv
<1>2. StoreSame /\ OnlyMoves(p)  BY <1>1 DEF StoreSame, OnlyMoves, TypeOK
<1>3. TypeOK'
  <2>1. PICK c \in requests : /\ from' = [from EXCEPT ![p] = c]
                             /\ val' = [val EXCEPT ![p] = slot[c].val]
    OBVIOUS
  <2>2. c \in 0..MaxAttempt  BY <1>1, SharedBoundsAssumption DEF TypeOK, Attempts
  <2>3. slot[c].val \in Values \cup {NoValue}
    <3>1. slot[c] \in Receipts \cup {NoReceipt}  BY <1>1 DEF TypeOK
    <3> QED  BY <3>1 DEF Receipts, NoReceipt
  <2> QED  BY <1>1, <2>1, <2>2, <2>3 DEF TypeOK, Steps, SlotSteps
<1>4. Assigned(p)'  BY <1>1 DEF Local, Assigned, TypeOK, NoAttempt, Attempts, Steps, SlotSteps, RequestSteps
<1>5. SlotGround(p)'
  <2>1. PICK c \in requests : /\ from' = [from EXCEPT ![p] = c]
                             /\ val' = [val EXCEPT ![p] = slot[c].val]
    OBVIOUS
  <2>2. c \in Attempts /\ slot[c].mode = "computed"  BY <1>1 DEF Inv, TypeOK, ReceiptsGrounded
  <2>3. slot[c].val \in objects  BY <2>2 DEF Inv, ReceiptsGrounded, NoReceipt
  <2>4. from'[p] = c /\ val'[p] = slot[c].val  BY <1>1, <2>1 DEF TypeOK
  <2> QED  BY <2>2, <2>3, <2>4 DEF SlotGround, ListedComputation
<1>6. SlotHeld(p)'  BY <1>1 DEF Local, SlotHeld, TypeOK, RequestSteps, SlotSteps, Receipt, NoReceipt, NoAttempt, Attempts
<1>7. StoreGrows /\ AnswersHeld' /\ ReceiptsGrounded' /\ OneAnswer' /\ ComputedIsListed'
  BY <1>2, StoreKept
<1>8. \A q \in Procs : Local(q)'
  BY <1>2, <1>4, <1>5, <1>6, <1>7, LocalsKept DEF Local
<1> QED  BY <1>3, <1>7, <1>8 DEF Inv

LEMMA ListMissInv == ASSUME Inv, NEW p \in Procs, NEW v \in Values, ListMiss(p, v) PROVE Inv'
<1> USE DEF ListMiss, Goto, Reset, local
<1>1. TypeOK /\ Local(p)  BY DEF Inv
<1>2. StoreSame /\ OnlyMoves(p)  BY <1>1 DEF StoreSame, OnlyMoves, TypeOK
<1>3. TypeOK'  BY <1>1, SharedBoundsAssumption DEF TypeOK, Steps, SlotSteps, RequestSteps, NoAttempt, Attempts
<1>4. Assigned(p)'  BY <1>1 DEF Local, Assigned, TypeOK, NoAttempt, Attempts, Steps, SlotSteps, RequestSteps
<1>5. SlotGround(p)'  BY <1>1 DEF Local, SlotGround, Assigned, TypeOK, ListedComputation, SlotSteps, RequestSteps, NoAttempt
<1>6. SlotHeld(p)'  BY <1>1 DEF Local, SlotHeld, TypeOK, RequestSteps, SlotSteps, Receipt, NoReceipt, NoAttempt, Attempts
<1>7. StoreGrows /\ AnswersHeld' /\ ReceiptsGrounded' /\ OneAnswer' /\ ComputedIsListed'
  BY <1>2, StoreKept
<1>8. \A q \in Procs : Local(q)'
  BY <1>2, <1>4, <1>5, <1>6, <1>7, LocalsKept DEF Local
<1> QED  BY <1>3, <1>7, <1>8 DEF Inv

LEMMA ListRaisesInv == ASSUME Inv, NEW p \in Procs, ListRaises(p) PROVE Inv'
<1> USE DEF ListRaises, Goto, Reset, local
<1>1. TypeOK /\ Local(p)  BY DEF Inv
<1>2. StoreSame /\ OnlyMoves(p)  BY <1>1 DEF StoreSame, OnlyMoves, TypeOK
<1>3. TypeOK'  BY <1>1, SharedBoundsAssumption DEF TypeOK, Steps, SlotSteps, RequestSteps, NoAttempt, Attempts
<1>4. Assigned(p)'  BY <1>1 DEF Local, Assigned, TypeOK, NoAttempt, Attempts, Steps, SlotSteps, RequestSteps
<1>5. SlotGround(p)'  BY <1>1 DEF Local, SlotGround, Assigned, TypeOK, ListedComputation, SlotSteps, RequestSteps, NoAttempt
<1>6. SlotHeld(p)'  BY <1>1 DEF Local, SlotHeld, TypeOK, RequestSteps, SlotSteps, Receipt, NoReceipt, NoAttempt, Attempts
<1>7. StoreGrows /\ AnswersHeld' /\ ReceiptsGrounded' /\ OneAnswer' /\ ComputedIsListed'
  BY <1>2, StoreKept
<1>8. \A q \in Procs : Local(q)'
  BY <1>2, <1>4, <1>5, <1>6, <1>7, LocalsKept DEF Local
<1> QED  BY <1>3, <1>7, <1>8 DEF Inv

LEMMA MakeTempInv == ASSUME Inv, NEW p \in Procs, MakeTemp(p) PROVE Inv'
<1> USE DEF MakeTemp, Goto, Reset, local
<1>1. TypeOK /\ Local(p)  BY DEF Inv
<1>2. StoreSame /\ OnlyMoves(p)  BY <1>1 DEF StoreSame, OnlyMoves, TypeOK
<1>3. TypeOK'  BY <1>1, SharedBoundsAssumption DEF TypeOK, Steps, SlotSteps, RequestSteps, NoAttempt, Attempts
<1>4. Assigned(p)'  BY <1>1 DEF Local, Assigned, TypeOK, NoAttempt, Attempts, Steps, SlotSteps, RequestSteps
<1>5. SlotGround(p)'  BY <1>1 DEF Local, SlotGround, Assigned, TypeOK, ListedComputation, SlotSteps, RequestSteps, NoAttempt
<1>6. SlotHeld(p)'  BY <1>1 DEF Local, SlotHeld, TypeOK, RequestSteps, SlotSteps, Receipt, NoReceipt, NoAttempt, Attempts
<1>7. StoreGrows /\ AnswersHeld' /\ ReceiptsGrounded' /\ OneAnswer' /\ ComputedIsListed'
  BY <1>2, StoreKept
<1>8. \A q \in Procs : Local(q)'
  BY <1>2, <1>4, <1>5, <1>6, <1>7, LocalsKept DEF Local
<1> QED  BY <1>3, <1>7, <1>8 DEF Inv

LEMMA SlotConflictInv == ASSUME Inv, NEW p \in Procs, SlotConflict(p) PROVE Inv'
<1> USE DEF SlotConflict, Goto, Reset, local
<1>1. TypeOK /\ Local(p)  BY DEF Inv
<1>2. StoreSame /\ OnlyMoves(p)  BY <1>1 DEF StoreSame, OnlyMoves, TypeOK
<1>3. TypeOK'  BY <1>1, SharedBoundsAssumption DEF TypeOK, Steps, SlotSteps, RequestSteps, NoAttempt, Attempts
<1>4. Assigned(p)'  BY <1>1 DEF Local, Assigned, TypeOK, NoAttempt, Attempts, Steps, SlotSteps, RequestSteps
<1>5. SlotGround(p)'  BY <1>1 DEF Local, SlotGround, Assigned, TypeOK, ListedComputation, SlotSteps, RequestSteps, NoAttempt
<1>6. SlotHeld(p)'  BY <1>1 DEF Local, SlotHeld, TypeOK, RequestSteps, SlotSteps, Receipt, NoReceipt, NoAttempt, Attempts
<1>7. StoreGrows /\ AnswersHeld' /\ ReceiptsGrounded' /\ OneAnswer' /\ ComputedIsListed'
  BY <1>2, StoreKept
<1>8. \A q \in Procs : Local(q)'
  BY <1>2, <1>4, <1>5, <1>6, <1>7, LocalsKept DEF Local
<1> QED  BY <1>3, <1>7, <1>8 DEF Inv

LEMMA UnlinkSlotInv == ASSUME Inv, NEW p \in Procs, UnlinkSlot(p) PROVE Inv'
<1> USE DEF UnlinkSlot, Goto, Reset, local
<1>1. TypeOK /\ Local(p)  BY DEF Inv
<1>2. StoreSame /\ OnlyMoves(p)  BY <1>1 DEF StoreSame, OnlyMoves, TypeOK
<1>3. TypeOK'  BY <1>1, SharedBoundsAssumption DEF TypeOK, Steps, SlotSteps, RequestSteps, NoAttempt, Attempts
<1>4. Assigned(p)'  BY <1>1 DEF Local, Assigned, TypeOK, NoAttempt, Attempts, Steps, SlotSteps, RequestSteps
<1>5. SlotGround(p)'  BY <1>1 DEF Local, SlotGround, Assigned, TypeOK, ListedComputation, SlotSteps, RequestSteps, NoAttempt
<1>6. SlotHeld(p)'  BY <1>1 DEF Local, SlotHeld, TypeOK, RequestSteps, SlotSteps, Receipt, NoReceipt, NoAttempt, Attempts
<1>7. StoreGrows /\ AnswersHeld' /\ ReceiptsGrounded' /\ OneAnswer' /\ ComputedIsListed'
  BY <1>2, StoreKept
<1>8. \A q \in Procs : Local(q)'
  BY <1>2, <1>4, <1>5, <1>6, <1>7, LocalsKept DEF Local
<1> QED  BY <1>3, <1>7, <1>8 DEF Inv

LEMMA VerifyReceiptInv == ASSUME Inv, NEW p \in Procs, VerifyReceipt(p) PROVE Inv'
<1> USE DEF VerifyReceipt, Goto, Reset, local
<1>1. TypeOK /\ Local(p)  BY DEF Inv
<1>2. StoreSame /\ OnlyMoves(p)  BY <1>1 DEF StoreSame, OnlyMoves, TypeOK
<1>3. TypeOK'  BY <1>1, SharedBoundsAssumption DEF TypeOK, Steps, SlotSteps, RequestSteps, NoAttempt, Attempts
<1>4. Assigned(p)'  BY <1>1 DEF Local, Assigned, TypeOK, NoAttempt, Attempts, Steps, SlotSteps, RequestSteps
<1>5. SlotGround(p)'  BY <1>1 DEF Local, SlotGround, Assigned, TypeOK, ListedComputation, SlotSteps, RequestSteps, NoAttempt
<1>6. SlotHeld(p)'  BY <1>1 DEF Local, SlotHeld, TypeOK, RequestSteps, SlotSteps, Receipt, NoReceipt, NoAttempt, Attempts
<1>7. StoreGrows /\ AnswersHeld' /\ ReceiptsGrounded' /\ OneAnswer' /\ ComputedIsListed'
  BY <1>2, StoreKept
<1>8. \A q \in Procs : Local(q)'
  BY <1>2, <1>4, <1>5, <1>6, <1>7, LocalsKept DEF Local
<1> QED  BY <1>3, <1>7, <1>8 DEF Inv

LEMMA UnlinkRequestInv == ASSUME Inv, NEW p \in Procs, UnlinkRequest(p) PROVE Inv'
<1> USE DEF UnlinkRequest, Goto, Reset, local
<1>1. TypeOK /\ Local(p)  BY DEF Inv
<1>2. StoreSame /\ OnlyMoves(p)  BY <1>1 DEF StoreSame, OnlyMoves, TypeOK
<1>3. TypeOK'  BY <1>1, SharedBoundsAssumption DEF TypeOK, Steps, SlotSteps, RequestSteps, NoAttempt, Attempts
<1>4. Assigned(p)'  BY <1>1 DEF Local, Assigned, TypeOK, NoAttempt, Attempts, Steps, SlotSteps, RequestSteps
<1>5. SlotGround(p)'  BY <1>1 DEF Local, SlotGround, Assigned, TypeOK, ListedComputation, SlotSteps, RequestSteps, NoAttempt
<1>6. SlotHeld(p)'  BY <1>1 DEF Local, SlotHeld, TypeOK, RequestSteps, SlotSteps, Receipt, NoReceipt, NoAttempt, Attempts
<1>7. StoreGrows /\ AnswersHeld' /\ ReceiptsGrounded' /\ OneAnswer' /\ ComputedIsListed'
  BY <1>2, StoreKept
<1>8. \A q \in Procs : Local(q)'
  BY <1>2, <1>4, <1>5, <1>6, <1>7, LocalsKept DEF Local
<1> QED  BY <1>3, <1>7, <1>8 DEF Inv

LEMMA RaiseInv == ASSUME Inv, NEW p \in Procs, Raise(p) PROVE Inv'
<1> USE DEF Raise, Goto, Reset, local
<1>1. TypeOK /\ Local(p)  BY DEF Inv
<1>2. StoreSame /\ OnlyMoves(p)  BY <1>1 DEF StoreSame, OnlyMoves, TypeOK
<1>3. TypeOK'  BY <1>1, SharedBoundsAssumption DEF TypeOK, Steps, SlotSteps, RequestSteps, NoAttempt, Attempts
<1>4. Assigned(p)'  BY <1>1 DEF Local, Assigned, TypeOK, NoAttempt, Attempts, Steps, SlotSteps, RequestSteps
<1>5. SlotGround(p)'  BY <1>1 DEF Local, SlotGround, Assigned, TypeOK, ListedComputation, SlotSteps, RequestSteps, NoAttempt
<1>6. SlotHeld(p)'  BY <1>1 DEF Local, SlotHeld, TypeOK, RequestSteps, SlotSteps, Receipt, NoReceipt, NoAttempt, Attempts
<1>7. StoreGrows /\ AnswersHeld' /\ ReceiptsGrounded' /\ OneAnswer' /\ ComputedIsListed'
  BY <1>2, StoreKept
<1>8. \A q \in Procs : Local(q)'
  BY <1>2, <1>4, <1>5, <1>6, <1>7, LocalsKept DEF Local
<1> QED  BY <1>3, <1>7, <1>8 DEF Inv

LEMMA CrashInv == ASSUME Inv, NEW p \in Procs, Crash(p) PROVE Inv'
<1> USE DEF Crash, Goto, Reset, local
<1>1. TypeOK /\ Local(p)  BY DEF Inv
<1>2. StoreSame /\ OnlyMoves(p)  BY <1>1 DEF StoreSame, OnlyMoves, TypeOK
<1>3. TypeOK'
  <2>1. at[p] \in Attempts  BY <1>1 DEF Local, Assigned, TypeOK, NoAttempt, Attempts
  <2>2. TempOf(p) \subseteq Directories  BY <2>1 DEF TempOf, Directories
  <2>3. faults' \in 0..MaxFaults  BY <1>1, SharedBoundsAssumption DEF TypeOK
  <2>4. stale' \subseteq Directories  BY <1>1, <2>2 DEF TypeOK
  <2> QED  BY <1>1, <2>3, <2>4, SharedBoundsAssumption DEF TypeOK, Steps, NoAttempt
<1>4. Assigned(p)'  BY <1>1 DEF Local, Assigned, TypeOK, NoAttempt, Attempts, Steps, SlotSteps, RequestSteps
<1>5. SlotGround(p)'  BY <1>1 DEF Local, SlotGround, Assigned, TypeOK, ListedComputation, SlotSteps, RequestSteps, NoAttempt
<1>6. SlotHeld(p)'  BY <1>1 DEF Local, SlotHeld, TypeOK, RequestSteps, SlotSteps, Receipt, NoReceipt, NoAttempt, Attempts
<1>7. StoreGrows /\ AnswersHeld' /\ ReceiptsGrounded' /\ OneAnswer' /\ ComputedIsListed'
  BY <1>2, StoreKept
<1>8. \A q \in Procs : Local(q)'
  BY <1>2, <1>4, <1>5, <1>6, <1>7, LocalsKept DEF Local
<1> QED  BY <1>3, <1>7, <1>8 DEF Inv

-----------------------------------------------------------------------------
(* The steps that publish. *)

LEMMA PutObjectInv == ASSUME Inv, NEW p \in Procs, PutObject(p) PROVE Inv'
<1> USE DEF PutObject, Goto
<1>1. TypeOK /\ Local(p)  BY DEF Inv
<1>2. StoreGrows /\ OnlyMoves(p)  BY <1>1 DEF StoreGrows, OnlyMoves, TypeOK
<1>3. val[p] \in Values /\ from[p] = NoAttempt  BY <1>1 DEF Local, Assigned
<1>4. TypeOK'  BY <1>1, <1>3 DEF TypeOK, Steps, SlotSteps
<1>5. Local(p)'
  BY <1>1, <1>3 DEF Local, Assigned, SlotGround, SlotHeld, TypeOK, RequestSteps
<1>6. AnswersHeld' /\ OneAnswer' /\ ComputedIsListed'
  BY DEF Inv, AnswersHeld, OneAnswer, ComputedIsListed
<1>7. ReceiptsGrounded'  BY DEF Inv, ReceiptsGrounded
<1>8. \A q \in Procs : Local(q)'  BY <1>2, <1>5, LocalsKept
<1> QED  BY <1>4, <1>6, <1>7, <1>8 DEF Inv

(* The link is exclusive: a slot that holds a receipt keeps it.            *)
LEMMA LinkSlotInv == ASSUME Inv, NEW p \in Procs, LinkSlot(p) PROVE Inv'
<1> USE DEF LinkSlot, Goto
<1>1. TypeOK /\ Local(p)  BY DEF Inv
<1>2. at[p] \in Attempts
  BY <1>1 DEF Local, Assigned, TypeOK, NoAttempt, Attempts
<1>3. /\ val[p] \in objects
      /\ from[p] # NoAttempt => ListedComputation(from[p], val[p])
  BY <1>1 DEF Local, SlotGround, SlotSteps
<1>4. Receipt(p) \in Receipts /\ Receipt(p) # NoReceipt
  BY <1>1, <1>3 DEF TypeOK, Receipt, Receipts, NoReceipt
<1>5. /\ slot'[at[p]] = Receipt(p)
      /\ \A a \in Attempts : a # at[p] => slot'[a] = slot[a]
  BY <1>1, <1>2 DEF TypeOK
<1>6. StoreGrows /\ OnlyMoves(p)
  BY <1>1, <1>5 DEF StoreGrows, OnlyMoves, TypeOK
<1>7. TypeOK'  BY <1>1, <1>4 DEF TypeOK, Steps, SlotSteps
<1>8. Local(p)'
  <2>1. Assigned(p)'  BY <1>1 DEF Local, Assigned, TypeOK
  <2>2. SlotGround(p)'
    <3>1. ASSUME from[p] # NoAttempt PROVE ListedComputation(from[p], val[p])'
      <4>1. from[p] \in Attempts /\ slot[from[p]] # NoReceipt
        BY <1>1, <1>3, <3>1 DEF ListedComputation, TypeOK, NoReceipt
      <4> QED  BY <1>3, <1>6, <3>1, <4>1 DEF StoreGrows, ListedComputation
    <3> QED  BY <1>3, <3>1 DEF SlotGround
  <2>3. SlotHeld(p)'  BY <1>1, <1>5 DEF SlotHeld, Receipt, RequestSteps, TypeOK
  <2> QED  BY <2>1, <2>2, <2>3 DEF Local
<1>9. AnswersHeld'
  <2>1. \A a \in Attempts : answers[a] # {} => slot'[a] # NoReceipt
    BY <1>4, <1>5 DEF Inv, AnswersHeld
  <2>2. \A a \in Attempts : slot'[a].producer # NoAttempt => slot'[a].mode = "reused"
    BY <1>5 DEF Inv, AnswersHeld, Receipt
  <2> QED  BY <2>1, <2>2 DEF Inv, AnswersHeld
<1>10. ReceiptsGrounded'
  <2>1. ASSUME NEW a \in Attempts, slot'[a] # NoReceipt
        PROVE  /\ slot'[a].val \in objects'
               /\ slot'[a].mode = "reused" => ListedComputation(slot'[a].producer, slot'[a].val)
    <3>1. CASE a = at[p]  BY <1>3, <1>5, <3>1 DEF Receipt
    <3>2. CASE a # at[p]
      BY <1>5, <2>1, <3>2 DEF Inv, ReceiptsGrounded, ListedComputation
    <3> QED  BY <3>1, <3>2
  <2>2. ASSUME NEW c, NEW v, ListedComputation(c, v) PROVE ListedComputation(c, v)'
    <3>1. c \in Attempts /\ slot[c] # NoReceipt
      BY <1>1, <2>2 DEF ListedComputation, TypeOK, NoReceipt
    <3> QED  BY <1>6, <2>2, <3>1 DEF StoreGrows, ListedComputation
  <2>3. ASSUME NEW a \in requests' PROVE slot'[a].mode = "computed"
    <3>1. ListedComputation(a, slot[a].val)
      BY <2>3 DEF Inv, ReceiptsGrounded, ListedComputation
    <3> QED  BY <2>2, <3>1 DEF ListedComputation
  <2>4. ASSUME NEW a \in Attempts, slot'[a] # NoReceipt, slot'[a].mode = "reused"
        PROVE  ListedComputation(slot[a].producer, slot[a].val)'
    <3>1. ListedComputation(slot'[a].producer, slot'[a].val)  BY <2>1, <2>4
    <3> QED  BY <2>2, <3>1 DEF ListedComputation
  <2> QED  BY <2>1, <2>3, <2>4 DEF ReceiptsGrounded, ListedComputation
<1>11. OneAnswer' /\ ComputedIsListed'
  <2> SUFFICES ASSUME NEW a \in Attempts, answers[a] # {}
               PROVE  /\ answers[a] = {slot'[a].val}
                      /\ slot'[a].mode = "computed" => a \in requests'
    BY DEF OneAnswer, ComputedIsListed
  <2>1. slot'[a] = slot[a]  BY <1>6 DEF Inv, AnswersHeld, StoreGrows
  <2> QED  BY <2>1 DEF Inv, OneAnswer, ComputedIsListed
<1>12. \A q \in Procs : Local(q)'  BY <1>6, <1>8, LocalsKept
<1> QED  BY <1>7, <1>9, <1>10, <1>11, <1>12 DEF Inv

LEMMA LinkRequestInv == ASSUME Inv, NEW p \in Procs, LinkRequest(p) PROVE Inv'
<1> USE DEF LinkRequest, Goto
<1>1. TypeOK /\ Local(p)  BY DEF Inv
<1>2. at[p] \in Attempts /\ slot[at[p]].mode = "computed"
  BY <1>1 DEF Local, Assigned, SlotHeld, TypeOK, NoAttempt, Attempts, RequestSteps
<1>3. StoreGrows /\ OnlyMoves(p)  BY <1>1 DEF StoreGrows, OnlyMoves, TypeOK
<1>4. TypeOK'  BY <1>1, <1>2 DEF TypeOK, Steps, RequestSteps
<1>5. Local(p)'
  BY <1>1 DEF Local, Assigned, SlotGround, SlotHeld, SlotSteps, RequestSteps, TypeOK
<1>6. AnswersHeld' /\ OneAnswer' /\ ComputedIsListed'
  BY DEF Inv, AnswersHeld, OneAnswer, ComputedIsListed
<1>7. ReceiptsGrounded'  BY <1>2 DEF Inv, ReceiptsGrounded
<1>8. \A q \in Procs : Local(q)'  BY <1>3, <1>5, LocalsKept
<1> QED  BY <1>4, <1>6, <1>7, <1>8 DEF Inv

(* The value an operation returns is the one in its attempt's receipt.     *)
LEMMA ReturnInv == ASSUME Inv, NEW p \in Procs, Return(p) PROVE Inv'
<1> USE DEF Return, Reset, Goto
<1>1. TypeOK /\ Local(p)  BY DEF Inv
<1>2. at[p] \in Attempts
  BY <1>1 DEF Local, Assigned, TypeOK, NoAttempt, Attempts
<1>3. /\ slot[at[p]] # NoReceipt
      /\ slot[at[p]].val = val[p]
      /\ slot[at[p]].mode = "computed" => at[p] \in requests
  BY <1>1 DEF Local, SlotHeld
<1>4. val[p] \in Values  BY <1>1, <1>2, <1>3 DEF TypeOK, Receipts
<1>5. StoreGrows /\ OnlyMoves(p)  BY <1>1 DEF StoreGrows, OnlyMoves, TypeOK
<1>6. /\ answers'[at[p]] = answers[at[p]] \cup {val[p]}
      /\ \A a \in Attempts : a # at[p] => answers'[a] = answers[a]
  BY <1>1, <1>2 DEF TypeOK
<1>7. TypeOK'
  <2>1. answers' \in [Attempts -> SUBSET Values]  BY <1>1, <1>2, <1>4 DEF TypeOK
  <2> QED  BY <1>1, <2>1, SharedBoundsAssumption DEF TypeOK, Steps, NoAttempt
<1>8. Local(p)'
  BY <1>1 DEF Local, Assigned, SlotGround, SlotHeld, SlotSteps, RequestSteps, TypeOK
<1>9. AnswersHeld'
  <2>1. \A a \in Attempts : answers'[a] # {} => slot[a] # NoReceipt
    BY <1>3, <1>6 DEF Inv, AnswersHeld
  <2>2. \A a \in frozen : answers'[a] # {}
    BY <1>1, <1>6 DEF Inv, AnswersHeld, TypeOK
  <2> QED  BY <2>1, <2>2 DEF Inv, AnswersHeld
<1>10. ReceiptsGrounded'  BY DEF Inv, ReceiptsGrounded
<1>11. OneAnswer'
  <2> SUFFICES ASSUME NEW a \in Attempts, answers'[a] # {} PROVE answers'[a] = {slot[a].val}
    BY DEF OneAnswer
  <2>1. CASE a = at[p]  BY <1>3, <1>6, <2>1 DEF Inv, OneAnswer
  <2>2. CASE a # at[p]  BY <1>6, <2>2 DEF Inv, OneAnswer
  <2> QED  BY <2>1, <2>2
<1>12. ComputedIsListed'  BY <1>3, <1>6 DEF Inv, ComputedIsListed
<1>13. \A q \in Procs : Local(q)'  BY <1>5, <1>8, LocalsKept
<1> QED  BY <1>7, <1>9, <1>10, <1>11, <1>12, <1>13 DEF Inv

LEMMA FreezeInv == ASSUME Inv, NEW a \in Attempts, Freeze(a) PROVE Inv'
<1> USE DEF Freeze, local, Inv
<1>1. TypeOK'  BY DEF TypeOK
<1>2. AnswersHeld'  BY DEF AnswersHeld
<1>3. ReceiptsGrounded'  BY DEF ReceiptsGrounded
<1>4. OneAnswer' /\ ComputedIsListed'  BY DEF OneAnswer, ComputedIsListed
<1>5. StoreGrows  BY DEF StoreGrows
<1>6. ASSUME NEW q \in Procs PROVE Local(q)'  BY <1>5, LocalKept
<1> QED  BY <1>1, <1>2, <1>3, <1>4, <1>6

LEMMA NextInv == Inv /\ [Next]_vars => Inv'
<1> SUFFICES ASSUME Inv, [Next]_vars PROVE Inv'
  OBVIOUS
<1>1. CASE UNCHANGED vars
  <2>1. StoreSame  BY <1>1 DEF vars, StoreSame
  <2>2. TypeOK'  BY <1>1 DEF vars, Inv, TypeOK
  <2>3. StoreGrows /\ AnswersHeld' /\ ReceiptsGrounded' /\ OneAnswer' /\ ComputedIsListed'
    BY <2>1, StoreKept
  <2>4. ASSUME NEW q \in Procs PROVE Local(q)'  BY <1>1, <2>3, LocalKept DEF vars
  <2> QED  BY <2>2, <2>3, <2>4 DEF Inv
<1>2. ASSUME NEW p \in Procs, Publish(p) PROVE Inv'
  BY <1>2, LookupOwnInv, LookupOtherInv, ListHitInv, ListRaisesInv, ListMissInv, PutObjectInv,
     MakeTempInv, LinkSlotInv, SlotConflictInv, UnlinkSlotInv, VerifyReceiptInv, LinkRequestInv,
     UnlinkRequestInv, ReturnInv DEF Publish
<1>3. ASSUME NEW p \in Procs, Raise(p) \/ Crash(p) \/ \E a \in Attempts : Begin(p, a)
      PROVE  Inv'
  BY <1>3, RaiseInv, CrashInv, BeginInv
<1>4. ASSUME NEW a \in Attempts, Freeze(a) PROVE Inv'
  BY <1>4, FreezeInv
<1> QED  BY <1>1, <1>2, <1>3, <1>4 DEF Next

(* The inductive invariant holds in every reachable state.                 *)
LEMMA Correct == Spec => []Inv
<1> QED  BY InitInv, NextInv, PTL DEF Spec

-----------------------------------------------------------------------------

(* Every variable keeps its type: a receipt is absent or complete, and no  *)
(* process works for an attempt that is not one of the run's.              *)
THEOREM TypeCorrect == Spec => []TypeOK
<1>1. Inv => TypeOK  BY DEF Inv
<1> QED  BY <1>1, Correct, PTL

(* Wherever processes die, every receipt has its bytes in the object store *)
(* and a reused receipt names a listed computation of the same value.      *)
THEOREM Grounded == Spec => []ReceiptsGrounded
<1>1. Inv => ReceiptsGrounded  BY DEF Inv
<1> QED  BY <1>1, Correct, PTL

(* All operations of an attempt are given the value of its one receipt.    *)
THEOREM AnswersAgree == Spec => []OneAnswer
<1>1. Inv => OneAnswer  BY DEF Inv
<1> QED  BY <1>1, Correct, PTL

(* A computation that was returned can be found in the request directory.  *)
THEOREM ReturnedIsListed == Spec => []ComputedIsListed
<1>1. Inv => ComputedIsListed  BY DEF Inv
<1> QED  BY <1>1, Correct, PTL

(* A receipt is written once: no step replaces or removes one.             *)
LEMMA ReceiptsStay == ASSUME Inv, [Next]_vars
                      PROVE  \A a \in Attempts : slot[a] # NoReceipt => slot'[a] = slot[a]
<1>1. ASSUME NEW p \in Procs, LinkSlot(p)
      PROVE  \A a \in Attempts : slot[a] # NoReceipt => slot'[a] = slot[a]
  BY <1>1 DEF LinkSlot, Inv, TypeOK
<1>2. CASE UNCHANGED slot  BY <1>2
<1>3. UNCHANGED slot \/ \E p \in Procs : LinkSlot(p)
  BY DEF Next, Publish, vars, Begin, LookupOwn, LookupOther, ListHit, ListRaises, ListMiss,
         PutObject, MakeTemp, SlotConflict, UnlinkSlot, VerifyReceipt, LinkRequest,
         UnlinkRequest, Return, Raise, Crash, Freeze
<1> QED  BY <1>1, <1>2, <1>3

(* What a handoff pinned, the receipt and its producer's, never changes,   *)
(* whatever other operations, late or dying, do afterwards.                *)
THEOREM HandoffStable == Spec => FrozenStable
<1>1. ASSUME Inv, [Next]_vars, NEW a \in frozen
      PROVE  /\ slot'[a] = slot[a]
             /\ slot[a].producer # NoAttempt =>
                  slot'[slot[a].producer] = slot[slot[a].producer]
  <2>1. a \in Attempts /\ slot[a] # NoReceipt  BY <1>1 DEF Inv, TypeOK, AnswersHeld
  <2>2. slot'[a] = slot[a]  BY <1>1, <2>1, ReceiptsStay
  <2>3. ASSUME slot[a].producer # NoAttempt
        PROVE  slot'[slot[a].producer] = slot[slot[a].producer]
    <3>1. slot[a].mode = "reused"  BY <1>1, <2>1, <2>3 DEF Inv, AnswersHeld
    <3>2. slot[a].producer \in Attempts /\ slot[slot[a].producer] # NoReceipt
      BY <1>1, <2>1, <3>1 DEF Inv, TypeOK, ReceiptsGrounded, NoReceipt
    <3> QED  BY <1>1, <3>2, ReceiptsStay
  <2> QED  BY <2>2, <2>3
<1>2. Inv /\ [Next]_vars => [\A a \in frozen :
         /\ slot'[a] = slot[a]
         /\ slot[a].producer # NoAttempt =>
              slot'[slot[a].producer] = slot[slot[a].producer]]_vars
  BY <1>1
<1> QED  BY <1>2, Correct, PTL DEF Spec, FrozenStable

=============================================================================
