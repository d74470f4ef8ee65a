--------------------------- MODULE SharedArtifacts ---------------------------
(***************************************************************************)
(* Shared immutable artifacts of one run (storage/shared.py): the object   *)
(* store, the receipt of each attempt for one request (a namespace and a   *)
(* fingerprint), and the request directory through which attempts find the *)
(* computations of others.                                                 *)
(*                                                                         *)
(* An immutable file is published in three steps (immutable_bytes): a      *)
(* complete temporary file beside it, an exclusive link, and the removal   *)
(* of the temporary file.  A process that dies in between leaves the       *)
(* temporary file in the directory for ever.  Objects are named by their   *)
(* content and their directory is never listed here, so that publication   *)
(* is one step.                                                            *)
(***************************************************************************)
EXTENDS Naturals, FiniteSets

CONSTANTS
    Procs,       \* processes that publish or look up
    MaxAttempt,  \* attempts of the run that make the request
    Values,      \* results a computation of the request may give
    MaxFaults,   \* bound on process deaths and failing writes
    NoValue      \* no result

ASSUME SharedValuesAssumption == NoValue \notin Values
ASSUME SharedBoundsAssumption == MaxAttempt \in Nat /\ MaxFaults \in Nat

(* Attempts are numbered in the order of their receipts' digests, which is *)
(* the order a lookup considers them in; they may start in any order.      *)
Attempts == 1..MaxAttempt
NoAttempt == 0

VARIABLES
    objects,   \* values stored under data/shared/objects
    slot,      \* per attempt: its receipt for the request
    requests,  \* attempts whose computed receipt the request directory names
    stale,     \* directories that hold a dead process's temporary file
    answers,   \* per attempt: values its operations were given
    frozen,    \* attempts whose receipts were collected for a handoff
    pc,        \* per process: next step
    at,        \* per process: its attempt
    val,       \* per process: the value it publishes
    from,      \* per process: the producer it uses again
    faults

local == <<pc, at, val, from>>
vars == <<objects, slot, requests, stale, answers, frozen, pc, at, val, from, faults>>

Receipts == [mode : {"computed", "reused"}, val : Values, producer : 0..MaxAttempt]
NoReceipt == [mode |-> "none", val |-> NoValue, producer |-> NoAttempt]

SlotSteps == {"slotTemp", "slotLink", "slotUnlink"}
RequestSteps == {"requestTemp", "requestLink", "requestUnlink"}
Steps == {"idle", "lookup", "list", "object", "verify", "return", "raised"}
            \cup SlotSteps \cup RequestSteps

(* Directories whose entries are listed: the request's, and each attempt's *)
(* receipt directory, named by the attempt.                                *)
RequestDirectory == 0
Directories == {RequestDirectory} \cup Attempts

TypeOK ==
    /\ objects \subseteq Values
    /\ slot \in [Attempts -> Receipts \cup {NoReceipt}]
    /\ requests \subseteq Attempts
    /\ stale \subseteq Directories
    /\ answers \in [Attempts -> SUBSET Values]
    /\ frozen \subseteq Attempts
    /\ pc \in [Procs -> Steps]
    /\ at \in [Procs -> 0..MaxAttempt]
    /\ val \in [Procs -> Values \cup {NoValue}]
    /\ from \in [Procs -> 0..MaxAttempt]
    /\ faults \in 0..MaxFaults

Init ==
    /\ objects = {}
    /\ slot = [a \in Attempts |-> NoReceipt]
    /\ requests = {}
    /\ stale = {}
    /\ answers = [a \in Attempts |-> {}]
    /\ frozen = {}
    /\ pc = [p \in Procs |-> "idle"]
    /\ at = [p \in Procs |-> NoAttempt]
    /\ val = [p \in Procs |-> NoValue]
    /\ from = [p \in Procs |-> NoAttempt]
    /\ faults = 0

Goto(p, step) == pc' = [pc EXCEPT ![p] = step]

Reset(p, step) ==
    /\ Goto(p, step)
    /\ at' = [at EXCEPT ![p] = NoAttempt]
    /\ val' = [val EXCEPT ![p] = NoValue]
    /\ from' = [from EXCEPT ![p] = NoAttempt]

(* The directory in which a process has a temporary file.                  *)
TempOf(p) ==
    CASE pc[p] \in {"slotLink", "slotUnlink"} -> {at[p]}
      [] pc[p] \in {"requestLink", "requestUnlink"} -> {RequestDirectory}
      [] OTHER -> {}

TempIn(d) == d \in stale \/ \E p \in Procs : d \in TempOf(p)

-----------------------------------------------------------------------------
(* lookup. *)

Begin(p, a) ==
    /\ pc[p] \in {"idle", "raised"}
    /\ a \notin frozen
    /\ Goto(p, "lookup")
    /\ at' = [at EXCEPT ![p] = a]
    /\ UNCHANGED <<objects, slot, requests, stale, answers, frozen, val, from, faults>>

(* Mutation: an interrupted publication is not completed.                  *)
LookupOwnOnly(p) ==
    /\ pc[p] = "lookup"
    /\ slot[at[p]] # NoReceipt
    /\ val' = [val EXCEPT ![p] = slot[at[p]].val]
    /\ Goto(p, "return")
    /\ UNCHANGED <<objects, slot, requests, stale, answers, frozen, at, from, faults>>

(* The attempt already has its receipt.  A computed one is registered once *)
(* more, which completes an interrupted publication.                       *)
LookupOwn(p) ==
    /\ pc[p] = "lookup"
    /\ slot[at[p]] # NoReceipt
    /\ val' = [val EXCEPT ![p] = slot[at[p]].val]
    /\ Goto(p, IF slot[at[p]].mode = "computed" THEN "requestTemp" ELSE "return")
    /\ UNCHANGED <<objects, slot, requests, stale, answers, frozen, at, from, faults>>

LookupOther(p) ==
    /\ pc[p] = "lookup"
    /\ slot[at[p]] = NoReceipt
    /\ Goto(p, "list")
    /\ UNCHANGED <<objects, slot, requests, stale, answers, frozen, at, val, from, faults>>

(* Every entry of the request directory must be a reference to a computed  *)
(* receipt.  The first in digest order is used again.                      *)
ListHit(p) ==
    /\ pc[p] = "list"
    /\ ~TempIn(RequestDirectory)
    /\ \E c \in requests :
         /\ \A d \in requests : c <= d
         /\ from' = [from EXCEPT ![p] = c]
         /\ val' = [val EXCEPT ![p] = slot[c].val]
    /\ Goto(p, "slotTemp")
    /\ UNCHANGED <<objects, slot, requests, stale, answers, frozen, at, faults>>

(* Nothing was computed yet: the caller computes some value.               *)
ListMiss(p, v) ==
    /\ pc[p] = "list"
    /\ ~TempIn(RequestDirectory)
    /\ requests = {}
    /\ val' = [val EXCEPT ![p] = v]
    /\ Goto(p, "object")
    /\ UNCHANGED <<objects, slot, requests, stale, answers, frozen, at, from, faults>>

(* verify_request refuses any other entry, a temporary file included.      *)
ListRaises(p) ==
    /\ pc[p] = "list"
    /\ TempIn(RequestDirectory)
    /\ Reset(p, "raised")
    /\ UNCHANGED <<objects, slot, requests, stale, answers, frozen, faults>>

-----------------------------------------------------------------------------
(* put_bytes and computed. *)

(* Mutation: the receipt is published before the bytes.                    *)
PutObjectLate(p) ==
    /\ pc[p] = "object"
    /\ Goto(p, "slotTemp")
    /\ UNCHANGED <<objects, slot, requests, stale, answers, frozen, at, val, from, faults>>

PutObject(p) ==
    /\ pc[p] = "object"
    /\ objects' = objects \cup {val[p]}
    /\ Goto(p, "slotTemp")
    /\ UNCHANGED <<slot, requests, stale, answers, frozen, at, val, from, faults>>

MakeTemp(p) ==
    /\ pc[p] \in {"slotTemp", "requestTemp"}
    /\ Goto(p, IF pc[p] = "slotTemp" THEN "slotLink" ELSE "requestLink")
    /\ UNCHANGED <<objects, slot, requests, stale, answers, frozen, at, val, from, faults>>

(* The receipt this process publishes in its attempt's slot.               *)
Receipt(p) ==
    [mode |-> IF from[p] = NoAttempt THEN "computed" ELSE "reused",
     val |-> val[p], producer |-> from[p]]

(* Mutation: the receipt in the slot is replaced.                          *)
LinkSlotReplacing(p) ==
    /\ pc[p] = "slotLink"
    /\ slot' = [slot EXCEPT ![at[p]] = Receipt(p)]
    /\ Goto(p, "slotUnlink")
    /\ UNCHANGED <<objects, requests, stale, answers, frozen, at, val, from, faults>>

LinkSlot(p) ==
    /\ pc[p] = "slotLink"
    /\ slot[at[p]] \in {NoReceipt, Receipt(p)}
    /\ slot' = [slot EXCEPT ![at[p]] = Receipt(p)]
    /\ Goto(p, "slotUnlink")
    /\ UNCHANGED <<objects, requests, stale, answers, frozen, at, val, from, faults>>

(* Another operation of the attempt has published a different receipt; the *)
(* temporary file is removed and the conflict raised.                      *)
SlotConflict(p) ==
    /\ pc[p] = "slotLink"
    /\ slot[at[p]] \notin {NoReceipt, Receipt(p)}
    /\ Reset(p, "raised")
    /\ UNCHANGED <<objects, slot, requests, stale, answers, frozen, faults>>

UnlinkSlot(p) ==
    /\ pc[p] = "slotUnlink"
    /\ Goto(p, "verify")
    /\ UNCHANGED <<objects, slot, requests, stale, answers, frozen, at, val, from, faults>>

(* verify_receipt: the object, and the producing receipt of a reused one.  *)
VerifyReceipt(p) ==
    /\ pc[p] = "verify"
    /\ val[p] \in objects
    /\ Goto(p, IF from[p] = NoAttempt THEN "requestTemp" ELSE "return")
    /\ UNCHANGED <<objects, slot, requests, stale, answers, frozen, at, val, from, faults>>

LinkRequest(p) ==
    /\ pc[p] = "requestLink"
    /\ requests' = requests \cup {at[p]}
    /\ Goto(p, "requestUnlink")
    /\ UNCHANGED <<objects, slot, stale, answers, frozen, at, val, from, faults>>

UnlinkRequest(p) ==
    /\ pc[p] = "requestUnlink"
    /\ Goto(p, "return")
    /\ UNCHANGED <<objects, slot, requests, stale, answers, frozen, at, val, from, faults>>

Return(p) ==
    /\ pc[p] = "return"
    /\ answers' = [answers EXCEPT ![at[p]] = @ \cup {val[p]}]
    /\ Reset(p, "idle")
    /\ UNCHANGED <<objects, slot, requests, stale, frozen, faults>>

(* An error in a publication step; the temporary file is removed.          *)
Raise(p) ==
    /\ pc[p] \in {"object", "slotTemp", "slotLink", "requestTemp", "requestLink"}
    /\ faults < MaxFaults
    /\ faults' = faults + 1
    /\ Reset(p, "raised")
    /\ UNCHANGED <<objects, slot, requests, stale, answers, frozen>>

Crash(p) ==
    /\ pc[p] \notin {"idle", "raised"}
    /\ faults < MaxFaults
    /\ faults' = faults + 1
    /\ stale' = stale \cup TempOf(p)
    /\ Reset(p, "idle")
    /\ UNCHANGED <<objects, slot, requests, answers, frozen>>

-----------------------------------------------------------------------------
(* attempt_artifacts at publication, once the attempt's operations have    *)
(* returned: every entry of the receipt directory must be a receipt; the   *)
(* closure is pinned.                                                      *)

Freeze(a) ==
    /\ a \notin frozen
    /\ \A p \in Procs : at[p] # a
    /\ ~TempIn(a)
    /\ answers[a] # {}
    /\ frozen' = frozen \cup {a}
    /\ UNCHANGED <<objects, slot, requests, stale, answers, local, faults>>

Publish(p) ==
    \/ LookupOwn(p) \/ LookupOther(p) \/ ListHit(p) \/ ListRaises(p)
    \/ (\E v \in Values : ListMiss(p, v))
    \/ PutObject(p) \/ MakeTemp(p) \/ LinkSlot(p) \/ SlotConflict(p)
    \/ UnlinkSlot(p) \/ VerifyReceipt(p) \/ LinkRequest(p)
    \/ UnlinkRequest(p) \/ Return(p)

Next ==
    \/ \E p \in Procs : Publish(p) \/ Raise(p) \/ Crash(p) \/ (\E a \in Attempts : Begin(p, a))
    \/ \E a \in Attempts : Freeze(a)

Spec == Init /\ [][Next]_vars

-----------------------------------------------------------------------------
(* Properties. *)

(* A crash between any two links never leaves provenance without ground:   *)
(* every receipt has its bytes, a reused receipt names an attempt that     *)
(* computed the same value, and the request directory names only computed  *)
(* receipts.                                                               *)
ReceiptsGrounded ==
    /\ \A a \in Attempts : slot[a] # NoReceipt =>
         /\ slot[a].val \in objects
         /\ slot[a].mode = "reused" =>
              /\ slot[a].producer \in requests
              /\ slot[slot[a].producer].mode = "computed"
              /\ slot[slot[a].producer].val = slot[a].val
    /\ \A a \in requests : slot[a].mode = "computed"

(* All operations of one attempt that make the same request are given the  *)
(* same value, the one in the attempt's receipt: "the attempt's receipt    *)
(* never changes when later computations publish another result".          *)
OneAnswer == \A a \in Attempts :
    answers[a] # {} => answers[a] = {slot[a].val}

(* What a published attempt pinned stays as it was pinned: no late step of *)
(* any process changes its receipt or its producer's.                      *)
FrozenStable == [][\A a \in frozen :
    /\ slot'[a] = slot[a]
    /\ slot[a].producer # NoAttempt => slot'[slot[a].producer] = slot[slot[a].producer]]_vars

(* A computation whose operation returned can be found by the other        *)
(* attempts, also when an earlier try died between receipt and request.    *)
ComputedIsListed == \A a \in Attempts :
    (answers[a] # {} /\ slot[a].mode = "computed") => a \in requests

(* A lookup is never refused because of what the request directory holds:  *)
(* it "contain[s] immutable references to computed receipts".              *)
LookupNeverRefused == \A p \in Procs :
    pc[p] = "list" => ~TempIn(RequestDirectory)

=============================================================================
