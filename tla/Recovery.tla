------------------------------ MODULE Recovery ------------------------------
(***************************************************************************)
(* Recovery codes: issuing a batch, redeeming a code, the pool of Argon2id *)
(* slots both share, and the janitor's sweep of spent codes                *)
(* (handleRecoveryIssue and handleRecoveryConsume of internal/api,         *)
(* acquireKDF, internal/store/sqlite/recovery.go).                         *)
(*                                                                         *)
(* Each request is a process that runs one handler once; a step is a store *)
(* call or an operation on the pool.  A batch is named by the request that *)
(* issued it.  The throttle in front of the handlers is module Throttle.   *)
(***************************************************************************)
EXTENDS Integers, FiniteSets

CONSTANTS
    Reqs,
    Subjects,
    CodeCount,  \* recovery.code_count
    KdfSlots    \* capacity of the pool

ASSUME RecoveryAssumption ==
    /\ CodeCount \in Nat \ {0}
    /\ KdfSlots \in Nat \ {0}
    /\ IsFiniteSet(Reqs)

NoReq == "none"

Code == Reqs \X (1..CodeCount)

NoCode == <<>>

BatchOf(c) == c[1]

VARIABLES
    rows,      \* recovery_codes: "absent", "unused" or "used", by code
    req,       \* the requests
    slots,     \* slots taken from the pool
    latest,    \* history: the batch issued last to each subject
    redeemed   \* history: the redemptions that succeeded

vars == <<rows, req, slots, latest, redeemed>>

Stage == {"idle", "lookup", "wait", "hash", "replace", "consume", "done"}

Request ==
    [stage : Stage, kind : {"issue", "consume"}, subject : Subjects,
     rec : Code \cup {NoCode}]   \* the row the handler read

OwnerOf(c) == req[BatchOf(c)].subject

Init ==
    /\ rows = [c \in Code |-> "absent"]
    /\ req \in [Reqs -> {[stage |-> "idle", kind |-> k, subject |-> s,
                          rec |-> NoCode] :
                            k \in {"issue", "consume"}, s \in Subjects}]
    /\ slots = 0
    /\ latest = [s \in Subjects |-> NoReq]
    /\ redeemed = {}

Goto(r, stage) == req' = [req EXCEPT ![r].stage = stage]

\* The request is authenticated, resolved and let through by the throttle.
Start(r) ==
    /\ req[r].stage = "idle"
    /\ Goto(r, IF req[r].kind = "issue" THEN "wait" ELSE "lookup")
    /\ UNCHANGED <<rows, slots, latest, redeemed>>

\* GetRecoveryCodeBySelector and the refusals that follow it: no such selector
\* any more, a code of another subject, a code already used.
Readable(r, c) == rows[c] = "unused" /\ OwnerOf(c) = req[r].subject

Lookup(r) ==
    /\ req[r].stage = "lookup"
    /\ \/ \E c \in Code : /\ Readable(r, c)
                          /\ req' = [req EXCEPT ![r].rec = c, ![r].stage = "wait"]
       \/ \E c \in Code : /\ rows[c] # "absent" /\ ~Readable(r, c)
                          /\ req' = [req EXCEPT ![r].rec = c, ![r].stage = "done"]
       \/ Goto(r, "done")
    /\ UNCHANGED <<rows, slots, latest, redeemed>>

\* Mutant of Acquire: the pool is not consulted.
AcquireUnbounded(r) ==
    /\ req[r].stage = "wait"
    /\ slots' = slots + 1
    /\ Goto(r, "hash")
    /\ UNCHANGED <<rows, latest, redeemed>>

\* acquireKDFWithin: a slot, or the request is cancelled or out of patience.
Acquire(r) ==
    /\ req[r].stage = "wait"
    /\ slots < KdfSlots
    /\ slots' = slots + 1
    /\ Goto(r, "hash")
    /\ UNCHANGED <<rows, latest, redeemed>>

GiveUp(r) ==
    /\ req[r].stage = "wait"
    /\ Goto(r, "done")
    /\ UNCHANGED <<rows, slots, latest, redeemed>>

\* Mutant of Hash: a mismatch returns without giving the slot back.
HashLeaks(r) ==
    /\ req[r].stage = "hash"
    /\ \/ Goto(r, "done") /\ UNCHANGED slots
       \/ /\ slots' = slots - 1
          /\ Goto(r, IF req[r].kind = "issue" THEN "replace" ELSE "consume")
    /\ UNCHANGED <<rows, latest, redeemed>>

\* The evaluation ends and the slot is given back, before its result is looked
\* at.  It may be a fault, a mismatch, or what the handler needs to go on.
Hash(r) ==
    /\ req[r].stage = "hash"
    /\ slots' = slots - 1
    /\ \E next \in {"done", IF req[r].kind = "issue" THEN "replace" ELSE "consume"} :
         Goto(r, next)
    /\ UNCHANGED <<rows, latest, redeemed>>

\* Mutant of Replace: the earlier batch is left in place.
ReplaceBeside(r) ==
    /\ req[r].stage = "replace"
    /\ rows' = [c \in Code |-> IF BatchOf(c) = r THEN "unused" ELSE rows[c]]
    /\ latest' = [latest EXCEPT ![req[r].subject] = r]
    /\ Goto(r, "done")
    /\ UNCHANGED <<slots, redeemed>>

\* ReplaceRecoveryCodes: the unused codes of the subject's other batches are
\* deleted and the new batch inserted, in one transaction.
Replace(r) ==
    /\ req[r].stage = "replace"
    /\ rows' = [c \in Code |->
                  IF BatchOf(c) = r THEN "unused"
                  ELSE IF rows[c] = "unused" /\ OwnerOf(c) = req[r].subject
                  THEN "absent" ELSE rows[c]]
    /\ latest' = [latest EXCEPT ![req[r].subject] = r]
    /\ Goto(r, "done")
    /\ UNCHANGED <<slots, redeemed>>

\* Mutants of Consumable: what was read is trusted; only a code already marked
\* used is refused, so a deleted row is not.
ConsumableAsRead(c) == TRUE

ConsumableUnlessUsed(c) == rows[c] # "used"

\* ConsumeRecoveryCode: used and deleted rows both refuse; the assertion follows.
Consumable(c) == rows[c] = "unused"

Consume(r) ==
    /\ req[r].stage = "consume"
    /\ \/ /\ Consumable(req[r].rec)
          /\ rows' = [rows EXCEPT ![req[r].rec] = "used"]
          /\ redeemed' = redeemed \cup {[by |-> r, code |-> req[r].rec]}
       \/ /\ ~Consumable(req[r].rec)
          /\ UNCHANGED <<rows, redeemed>>
    /\ Goto(r, "done")
    /\ UNCHANGED <<slots, latest>>

\* DeleteConsumedRecoveryCodes: a spent code past its retention goes.
Sweep ==
    /\ \E c \in Code : rows[c] = "used" /\ rows' = [rows EXCEPT ![c] = "absent"]
    /\ UNCHANGED <<req, slots, latest, redeemed>>

Step(r) ==
    \/ Start(r) \/ Lookup(r) \/ Acquire(r) \/ GiveUp(r) \/ Hash(r)
    \/ Replace(r) \/ Consume(r)

Next == Sweep \/ \E r \in Reqs : Step(r)

\* A handler that has started runs to its end: an evaluation terminates and the
\* store answers.
Fairness == \A r \in Reqs : WF_vars(req[r].stage # "idle" /\ Step(r))

Spec == Init /\ [][Next]_vars

FairSpec == Spec /\ Fairness

-----------------------------------------------------------------------------
(* Properties.                                                             *)

\* Every variable keeps its type.
TypeOK ==
    /\ rows \in [Code -> {"absent", "unused", "used"}]
    /\ req \in [Reqs -> Request]
    /\ slots \in 0..KdfSlots
    /\ latest \in [Subjects -> Reqs \cup {NoReq}]
    /\ redeemed \subseteq [by : Reqs, code : Code]

\* A code is redeemed once, whichever requests race for it and whenever the
\* janitor forgets that it was spent (ConsumeRecoveryCode).
CodeSingleUse ==
    \A a, b \in redeemed : a.code = b.code => a = b

\* Once a new batch has been issued, no code of an earlier batch is redeemed, not
\* even by a request that had already read it and compared its verifier; nor is one
\* that was redeemed before.  And a code that has been spent, replaced or swept away
\* never becomes redeemable again, whoever issues (handleRecoveryConsume,
\* ConsumeRecoveryCode, ReplaceRecoveryCodes).
RetiredStaysDead ==
    [][/\ \A x \in redeemed' \ redeemed :
            /\ BatchOf(x.code) = latest[OwnerOf(x.code)]
            /\ \A y \in redeemed : y.code # x.code
       /\ \A c \in Code :
            req[BatchOf(c)].stage = "done" /\ rows[c] # "unused" => rows'[c] # "unused"]_vars

\* A redemption that succeeds is by a request for the subject the code was issued to.
OnlyByHolder == \A x \in redeemed : OwnerOf(x.code) = req[x.by].subject

\* The unused codes of a subject all belong to the batch issued last, so two
\* requests issuing at once leave one live batch and not a mixture.
OneLiveBatch ==
    \A c \in Code : rows[c] = "unused" => BatchOf(c) = latest[OwnerOf(c)]

\* One sheet is live, each of its codes works once and for its own subject, within
\* the pool's slots (ReplaceRecoveryCodes, ConsumeRecoveryCode, acquireKDF).
CodesAreSound == TypeOK /\ CodeSingleUse /\ OneLiveBatch /\ OnlyByHolder

\* Every slot is given back: once the requests have run, the pool is free again.
SlotsReturned == []<>(slots = 0)
=============================================================================
