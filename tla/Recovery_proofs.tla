--------------------------- MODULE Recovery_proofs ---------------------------
(***************************************************************************)
(* Machine-checked proofs about Recovery, for every finite set of          *)
(* requests, every set of subjects, any number of codes on a sheet and any *)
(* size of the pool.                                                       *)
(***************************************************************************)
EXTENDS Recovery, FiniteSetTheorems, TLAPS

-----------------------------------------------------------------------------
(* The inductive invariant.                                                *)

\* The requests that hold a slot of the pool.
Hashing == {r \in Reqs : req[r].stage = "hash"}

\* What a slot count stands for: nothing else could say that giving one back
\* leaves a count that is not negative.
SlotsInv == slots = Cardinality(Hashing)

\* What a request remembers: one that is past its lookup redeems a code of its own
\* subject, and only an issue replaces.
LocalInv ==
    \A r \in Reqs :
        /\ req[r].stage = "replace" => req[r].kind = "issue"
        /\ req[r].stage = "consume" => req[r].kind = "consume"
        /\ req[r].kind = "consume" /\ req[r].stage \in {"wait", "hash", "consume"} =>
             /\ req[r].rec \in Code
             /\ OwnerOf(req[r].rec) = req[r].subject

\* A code that is, or ever was, in the table is of a batch whose request is over, so
\* it cannot be inserted again; and a redeemed code is not unused.
HistoryInv ==
    /\ \A c \in Code : rows[c] # "absent" => req[BatchOf(c)].stage = "done"
    /\ \A x \in redeemed : /\ rows[x.code] # "unused"
                           /\ req[BatchOf(x.code)].stage = "done"

RecoveryInv ==
    /\ TypeOK
    /\ SlotsInv
    /\ LocalInv
    /\ HistoryInv
    /\ CodeSingleUse
    /\ OneLiveBatch

-----------------------------------------------------------------------------
(* Lemmas.                                                                 *)

\* A code names the request that issued its batch.
LEMMA BatchType ==
    ASSUME NEW c \in Code
    PROVE  BatchOf(c) \in Reqs
BY DEF Code, BatchOf

\* A step of a request that neither takes nor gives back a slot.
LEMMA SlotsUntouched ==
    ASSUME SlotsInv, NEW r \in Reqs, req \in [Reqs -> Request], slots' = slots,
           req[r].stage # "hash", req' \in [Reqs -> Request], req'[r].stage # "hash",
           \A q \in Reqs \ {r} : req'[q] = req[q]
    PROVE  SlotsInv'
<1>1. Hashing' = Hashing
  BY DEF Hashing
<1> QED BY <1>1 DEF SlotsInv

\* A request takes a slot.
LEMMA SlotTaken ==
    ASSUME SlotsInv, NEW r \in Reqs, req[r].stage # "hash", slots' = slots + 1,
           req'[r].stage = "hash", \A q \in Reqs \ {r} : req'[q] = req[q]
    PROVE  SlotsInv'
<1>1. Hashing' = Hashing \cup {r} /\ r \notin Hashing
  BY DEF Hashing
<1>2. IsFiniteSet(Hashing)
  BY RecoveryAssumption, FS_Subset DEF Hashing
<1> QED
  BY <1>1, <1>2, FS_AddElement DEF SlotsInv

\* A request gives its slot back, and there was one to give back.
LEMMA SlotReturned ==
    ASSUME SlotsInv, NEW r \in Reqs, req[r].stage = "hash", slots' = slots - 1,
           req'[r].stage # "hash", \A q \in Reqs \ {r} : req'[q] = req[q]
    PROVE  SlotsInv' /\ slots \in Nat /\ slots # 0
<1>1. Hashing' = Hashing \ {r} /\ r \in Hashing
  BY DEF Hashing
<1>2. IsFiniteSet(Hashing)
  BY RecoveryAssumption, FS_Subset DEF Hashing
<1>3. Cardinality(Hashing) \in Nat /\ Cardinality(Hashing) # 0
  BY <1>1, <1>2, FS_CardinalityType, FS_EmptySet
<1> QED
  BY <1>1, <1>2, <1>3, FS_RemoveElement DEF SlotsInv

\* A step that touches no code and nobody's batch: the histories stand.
LEMMA RowsUntouched ==
    ASSUME RecoveryInv, req' \in [Reqs -> Request],
           UNCHANGED <<rows, latest, redeemed>>,
           \A q \in Reqs : /\ req'[q].subject = req[q].subject
                           /\ req[q].stage = "done" => req'[q].stage = "done"
    PROVE  HistoryInv' /\ CodeSingleUse' /\ OneLiveBatch'
<1>1. \A c \in Code : BatchOf(c) \in Reqs
  BY BatchType
<1>2. \A x \in redeemed : BatchOf(x.code) \in Reqs
  BY <1>1 DEF RecoveryInv, TypeOK
<1> QED
  BY <1>1, <1>2 DEF RecoveryInv, HistoryInv, CodeSingleUse, OneLiveBatch, OwnerOf

-----------------------------------------------------------------------------
(* The invariant holds.                                                    *)

\* No code exists, no request has started and the pool is free.
LEMMA RecoveryInit == Init => RecoveryInv
<1> SUFFICES ASSUME Init PROVE RecoveryInv
  OBVIOUS
<1>1. req \in [Reqs -> Request] /\ \A r \in Reqs : req[r].stage = "idle"
  BY DEF Init, Request, Stage
<1>2. Hashing = {}
  BY <1>1 DEF Hashing
<1>3. SlotsInv
  BY <1>2, FS_EmptySet DEF SlotsInv, Init
<1>4. TypeOK
  BY <1>1, RecoveryAssumption DEF Init, TypeOK
<1> QED
  BY <1>1, <1>3, <1>4
     DEF Init, RecoveryInv, LocalInv, HistoryInv, CodeSingleUse, OneLiveBatch

\* Moving on one request keeps the requests typed, and tells what became of them.
LEMMA GotoEffect ==
    ASSUME req \in [Reqs -> Request], NEW r \in Reqs, NEW stage \in Stage, Goto(r, stage)
    PROVE  /\ req' \in [Reqs -> Request]
           /\ req'[r].stage = stage
           /\ req'[r].kind = req[r].kind /\ req'[r].subject = req[r].subject
           /\ req'[r].rec = req[r].rec
           /\ \A q \in Reqs \ {r} : req'[q] = req[q]
BY DEF Goto, Request

\* Every step of a request or of the sweep keeps the invariant.
LEMMA RecoveryStep == RecoveryInv /\ [Next]_vars => RecoveryInv'
<1> SUFFICES ASSUME RecoveryInv, [Next]_vars PROVE RecoveryInv'
  OBVIOUS
<1> USE DEF Stage
<1>t. /\ TypeOK /\ rows \in [Code -> {"absent", "unused", "used"}]
      /\ req \in [Reqs -> Request] /\ slots \in 0..KdfSlots
      /\ KdfSlots \in Nat
  BY RecoveryAssumption DEF RecoveryInv, TypeOK
<1>b. \A c \in Code : BatchOf(c) \in Reqs
  BY BatchType
<1>1. ASSUME NEW r \in Reqs, Start(r) PROVE RecoveryInv'
  <2>1. PICK stage \in {"wait", "lookup"} :
          Goto(r, stage) /\ (stage = "wait" <=> req[r].kind = "issue")
    BY <1>1 DEF Start
  <2>2. /\ req' \in [Reqs -> Request] /\ req'[r].stage = stage
        /\ req'[r].kind = req[r].kind /\ req'[r].subject = req[r].subject
        /\ \A q \in Reqs \ {r} : req'[q] = req[q]
    BY <1>t, <2>1, GotoEffect
  <2>3. SlotsInv'
    BY <1>1, <1>t, <2>2, SlotsUntouched DEF Start, RecoveryInv
  <2>4. LocalInv'
    BY <1>b, <2>1, <2>2 DEF RecoveryInv, LocalInv, OwnerOf
  <2>5. HistoryInv' /\ CodeSingleUse' /\ OneLiveBatch'
    BY <1>1, <2>2, RowsUntouched DEF Start
  <2> QED BY <1>1, <1>t, <2>2, <2>3, <2>4, <2>5 DEF Start, RecoveryInv, TypeOK
<1>2. ASSUME NEW r \in Reqs, Lookup(r) PROVE RecoveryInv'
  <2>1. /\ req' \in [Reqs -> Request]
        /\ req'[r].kind = req[r].kind /\ req'[r].subject = req[r].subject
        /\ \A q \in Reqs \ {r} : req'[q] = req[q]
        /\ \/ req'[r].stage = "done"
           \/ /\ req'[r].stage = "wait" /\ req'[r].rec \in Code
              /\ OwnerOf(req'[r].rec) = req[r].subject
    <3>1. ASSUME NEW c \in Code, NEW stage \in {"wait", "done"},
                 req' = [req EXCEPT ![r].rec = c, ![r].stage = stage]
          PROVE  /\ req' \in [Reqs -> Request]
                 /\ req'[r].kind = req[r].kind /\ req'[r].subject = req[r].subject
                 /\ \A q \in Reqs \ {r} : req'[q] = req[q]
                 /\ req'[r].stage = stage /\ req'[r].rec = c
      BY <1>t, <3>1 DEF Request
    <3>2. CASE \E c \in Code : /\ Readable(r, c)
                               /\ req' = [req EXCEPT ![r].rec = c, ![r].stage = "wait"]
      BY <3>1, <3>2 DEF Readable
    <3>3. CASE \E c \in Code : req' = [req EXCEPT ![r].rec = c, ![r].stage = "done"]
      BY <3>1, <3>3
    <3>4. CASE Goto(r, "done")
      BY <1>t, <3>4, GotoEffect
    <3> QED BY <1>2, <3>2, <3>3, <3>4 DEF Lookup
  <2>2. \A q \in Reqs : req'[q].subject = req[q].subject
    BY <2>1
  <2>3. SlotsInv'
    BY <1>2, <1>t, <2>1, SlotsUntouched DEF Lookup, RecoveryInv
  <2>4. LocalInv'
    BY <1>b, <2>1, <2>2 DEF RecoveryInv, LocalInv, OwnerOf
  <2>5. HistoryInv' /\ CodeSingleUse' /\ OneLiveBatch'
    BY <1>2, <2>1, RowsUntouched DEF Lookup
  <2> QED BY <1>2, <1>t, <2>1, <2>3, <2>4, <2>5 DEF Lookup, RecoveryInv, TypeOK
<1>3. ASSUME NEW r \in Reqs, Acquire(r) PROVE RecoveryInv'
  <2>1. /\ req' \in [Reqs -> Request] /\ req'[r].stage = "hash"
        /\ req'[r].kind = req[r].kind /\ req'[r].subject = req[r].subject
        /\ req'[r].rec = req[r].rec /\ \A q \in Reqs \ {r} : req'[q] = req[q]
    BY <1>3, <1>t, GotoEffect DEF Acquire
  <2>2. SlotsInv' /\ slots' \in 0..KdfSlots
    BY <1>3, <1>t, <2>1, SlotTaken DEF Acquire, RecoveryInv
  <2>3. LocalInv'
    BY <1>3, <1>b, <2>1 DEF Acquire, RecoveryInv, LocalInv, OwnerOf
  <2>4. HistoryInv' /\ CodeSingleUse' /\ OneLiveBatch'
    BY <1>3, <2>1, RowsUntouched DEF Acquire
  <2> QED BY <1>3, <1>t, <2>1, <2>2, <2>3, <2>4 DEF Acquire, RecoveryInv, TypeOK
<1>4. ASSUME NEW r \in Reqs, GiveUp(r) PROVE RecoveryInv'
  <2>1. /\ req' \in [Reqs -> Request] /\ req'[r].stage = "done"
        /\ req'[r].subject = req[r].subject
        /\ \A q \in Reqs \ {r} : req'[q] = req[q]
    BY <1>4, <1>t, GotoEffect DEF GiveUp
  <2>2. SlotsInv'
    BY <1>4, <1>t, <2>1, SlotsUntouched DEF GiveUp, RecoveryInv
  <2>3. LocalInv'
    BY <1>4, <1>b, <2>1 DEF GiveUp, RecoveryInv, LocalInv, OwnerOf
  <2>4. HistoryInv' /\ CodeSingleUse' /\ OneLiveBatch'
    BY <1>4, <2>1, RowsUntouched DEF GiveUp
  <2> QED BY <1>4, <1>t, <2>1, <2>2, <2>3, <2>4 DEF GiveUp, RecoveryInv, TypeOK
<1>5. ASSUME NEW r \in Reqs, Hash(r) PROVE RecoveryInv'
  <2>1. PICK stage \in {"done", "replace", "consume"} :
          /\ Goto(r, stage)
          /\ stage = "replace" => req[r].kind = "issue"
          /\ stage = "consume" => req[r].kind = "consume"
    BY <1>5, <1>t DEF Hash, Request
  <2>2. /\ req' \in [Reqs -> Request] /\ req'[r].stage = stage
        /\ req'[r].kind = req[r].kind /\ req'[r].subject = req[r].subject
        /\ req'[r].rec = req[r].rec /\ \A q \in Reqs \ {r} : req'[q] = req[q]
    BY <1>t, <2>1, GotoEffect
  <2>3. SlotsInv' /\ slots' \in 0..KdfSlots
    BY <1>5, <1>t, <2>2, SlotReturned DEF Hash, RecoveryInv
  <2>4. LocalInv'
    BY <1>5, <1>b, <2>1, <2>2 DEF Hash, RecoveryInv, LocalInv, OwnerOf
  <2>5. HistoryInv' /\ CodeSingleUse' /\ OneLiveBatch'
    BY <1>5, <2>2, RowsUntouched DEF Hash
  <2> QED BY <1>5, <1>t, <2>2, <2>3, <2>4, <2>5 DEF Hash, RecoveryInv, TypeOK
<1>6. ASSUME NEW r \in Reqs, Replace(r) PROVE RecoveryInv'
  <2>1. /\ req' \in [Reqs -> Request] /\ req'[r].stage = "done"
        /\ req'[r].kind = req[r].kind /\ req'[r].subject = req[r].subject
        /\ \A q \in Reqs \ {r} : req'[q] = req[q]
    BY <1>6, <1>t, GotoEffect DEF Replace
  <2>2. \A c \in Code : OwnerOf(c)' = OwnerOf(c)
    BY <1>b, <2>1 DEF OwnerOf
  <2>3. TypeOK'
    BY <1>6, <1>t, <2>1 DEF Replace, TypeOK, Request
  <2>4. SlotsInv'
    BY <1>6, <1>t, <2>1, SlotsUntouched DEF Replace, RecoveryInv
  <2>5. LocalInv'
    BY <1>6, <1>b, <2>1, <2>2 DEF Replace, RecoveryInv, LocalInv, OwnerOf
  <2>6. HistoryInv'
    <3>1. ASSUME NEW c \in Code, rows'[c] # "absent"
          PROVE  req'[BatchOf(c)].stage = "done"
      BY <1>6, <1>b, <2>1, <3>1 DEF Replace, RecoveryInv, HistoryInv
    <3>2. ASSUME NEW x \in redeemed
          PROVE  rows'[x.code] # "unused" /\ req'[BatchOf(x.code)].stage = "done"
      <4>1. /\ x.code \in Code /\ BatchOf(x.code) \in Reqs
            /\ rows[x.code] # "unused" /\ req[BatchOf(x.code)].stage = "done"
        BY <1>b DEF RecoveryInv, TypeOK, HistoryInv
      <4> QED BY <1>6, <2>1, <4>1 DEF Replace
    <3> QED BY <1>6, <3>1, <3>2 DEF Replace, HistoryInv
  <2>7. CodeSingleUse'
    BY <1>6 DEF Replace, RecoveryInv, CodeSingleUse
  <2>8. OneLiveBatch'
    <3> SUFFICES ASSUME NEW c \in Code, rows'[c] = "unused"
                 PROVE  BatchOf(c) = latest'[OwnerOf(c)']
      BY DEF OneLiveBatch
    <3>1. OwnerOf(c) \in Subjects /\ req[r].subject \in Subjects
      BY <1>b, <1>t DEF OwnerOf, Request
    <3>2. CASE BatchOf(c) = r
      BY <1>6, <2>2, <3>1, <3>2 DEF Replace, OwnerOf, RecoveryInv, TypeOK
    <3>3. CASE BatchOf(c) # r
      BY <1>6, <2>2, <3>1, <3>3 DEF Replace, RecoveryInv, TypeOK, OneLiveBatch
    <3> QED BY <3>2, <3>3
  <2> QED BY <2>3, <2>4, <2>5, <2>6, <2>7, <2>8 DEF RecoveryInv
<1>7. ASSUME NEW r \in Reqs, Consume(r) PROVE RecoveryInv'
  <2>1. /\ req' \in [Reqs -> Request] /\ req'[r].stage = "done"
        /\ req'[r].kind = req[r].kind /\ req'[r].subject = req[r].subject
        /\ \A q \in Reqs \ {r} : req'[q] = req[q]
    BY <1>7, <1>t, GotoEffect DEF Consume
  <2>2. \A c \in Code : OwnerOf(c)' = OwnerOf(c)
    BY <1>b, <2>1 DEF OwnerOf
  <2>3. req[r].rec \in Code
    BY <1>7 DEF Consume, RecoveryInv, LocalInv
  <2>4. SlotsInv'
    BY <1>7, <1>t, <2>1, SlotsUntouched DEF Consume, RecoveryInv
  <2>5. LocalInv'
    BY <1>7, <1>b, <2>1, <2>2 DEF Consume, RecoveryInv, LocalInv, OwnerOf
  <2>6. CASE ~Consumable(req[r].rec)
    <3>1. HistoryInv' /\ CodeSingleUse' /\ OneLiveBatch'
      BY <1>7, <2>1, <2>6, RowsUntouched DEF Consume
    <3> QED BY <1>7, <2>1, <2>4, <2>5, <2>6, <3>1 DEF Consume, RecoveryInv, TypeOK
  <2>7. CASE Consumable(req[r].rec)
    <3> DEFINE x == [by |-> r, code |-> req[r].rec]
    <3>1. /\ rows' = [rows EXCEPT ![req[r].rec] = "used"]
          /\ redeemed' = redeemed \cup {x} /\ rows[req[r].rec] = "unused"
          /\ slots' = slots /\ latest' = latest
      BY <1>7, <2>7 DEF Consume, Consumable
    <3>2. TypeOK'
      BY <1>t, <2>1, <2>3, <3>1 DEF TypeOK
    <3>3. HistoryInv'
      <4>1. ASSUME NEW c \in Code, rows'[c] # "absent"
            PROVE  req'[BatchOf(c)].stage = "done"
        BY <1>b, <1>t, <2>1, <3>1, <4>1 DEF RecoveryInv, HistoryInv
      <4>2. ASSUME NEW y \in redeemed'
            PROVE  rows'[y.code] # "unused" /\ req'[BatchOf(y.code)].stage = "done"
        <5>1. CASE y = x
          <6>1. y.code = req[r].rec
            BY <5>1
          <6>2. req[BatchOf(req[r].rec)].stage = "done"
            BY <2>3, <3>1 DEF RecoveryInv, HistoryInv
          <6> QED BY <1>b, <1>t, <2>1, <2>3, <3>1, <6>1, <6>2
        <5>2. CASE y \in redeemed
          <6>1. /\ y.code \in Code /\ rows[y.code] # "unused"
                /\ req[BatchOf(y.code)].stage = "done"
            BY <5>2 DEF RecoveryInv, TypeOK, HistoryInv
          <6> QED BY <1>b, <1>t, <2>1, <3>1, <6>1
        <5> QED BY <3>1, <5>1, <5>2
      <4> QED BY <4>1, <4>2 DEF HistoryInv
    <3>4. CodeSingleUse'
      <4>1. \A y \in redeemed : y.code # req[r].rec
        BY <3>1 DEF RecoveryInv, HistoryInv
      <4> QED BY <3>1, <4>1 DEF RecoveryInv, CodeSingleUse
    <3>5. OneLiveBatch'
      BY <1>t, <2>2, <2>3, <3>1 DEF RecoveryInv, OneLiveBatch
    <3> QED BY <2>4, <2>5, <3>2, <3>3, <3>4, <3>5 DEF RecoveryInv
  <2> QED BY <2>6, <2>7
<1>8. ASSUME Sweep PROVE RecoveryInv'
  <2>1. PICK d \in Code : rows[d] = "used" /\ rows' = [rows EXCEPT ![d] = "absent"]
    BY <1>8 DEF Sweep
  <2>2. UNCHANGED <<req, slots, latest, redeemed>>
    BY <1>8 DEF Sweep
  <2>3. TypeOK'
    BY <2>1, <2>2 DEF RecoveryInv, TypeOK
  <2>4. SlotsInv' /\ LocalInv' /\ CodeSingleUse'
    BY <2>2 DEF RecoveryInv, SlotsInv, Hashing, LocalInv, CodeSingleUse, OwnerOf
  <2>5. HistoryInv'
    <3>1. \A x \in redeemed : x.code \in Code
      BY DEF RecoveryInv, TypeOK
    <3> QED BY <1>t, <2>1, <2>2, <3>1 DEF RecoveryInv, HistoryInv
  <2>6. OneLiveBatch'
    BY <1>t, <2>1, <2>2 DEF RecoveryInv, OneLiveBatch, OwnerOf
  <2> QED BY <2>3, <2>4, <2>5, <2>6 DEF RecoveryInv
<1>9. CASE UNCHANGED vars
  BY <1>9 DEF vars, RecoveryInv, TypeOK, SlotsInv, Hashing, LocalInv, HistoryInv,
              CodeSingleUse, OneLiveBatch, OwnerOf
<1> QED
  BY <1>1, <1>2, <1>3, <1>4, <1>5, <1>6, <1>7, <1>8, <1>9 DEF Next, Step

-----------------------------------------------------------------------------
(* What follows.                                                           *)

\* A request keeps its subject, and one that consumes does so with a code of its own.
LEMMA HolderKept ==
    ASSUME RecoveryInv, OnlyByHolder, [Next]_vars
    PROVE  OnlyByHolder'
<1>t. /\ req \in [Reqs -> Request] /\ redeemed \subseteq [by : Reqs, code : Code]
  BY DEF RecoveryInv, TypeOK
<1>1. \A q \in Reqs : req'[q].subject = req[q].subject
  <2>1. ASSUME NEW r \in Reqs, NEW stage, Goto(r, stage)
        PROVE  \A q \in Reqs : req'[q].subject = req[q].subject
    BY <1>t, <2>1 DEF Goto, Request
  <2>2. ASSUME NEW r \in Reqs, NEW c, NEW stage,
               req' = [req EXCEPT ![r].rec = c, ![r].stage = stage]
        PROVE  \A q \in Reqs : req'[q].subject = req[q].subject
    BY <1>t, <2>2 DEF Request
  <2>3. ASSUME NEW r \in Reqs, Step(r) PROVE \A q \in Reqs : req'[q].subject = req[q].subject
    BY <2>1, <2>2, <2>3, Zenon DEF Step, Start, Lookup, Acquire, GiveUp, Hash, Replace, Consume
  <2>4. CASE UNCHANGED req
    BY <2>4
  <2> QED BY <2>3, <2>4 DEF Next, Sweep, vars
<1>2. \A c \in Code : OwnerOf(c)' = OwnerOf(c)
  BY <1>1, BatchType DEF OwnerOf
<1>3. ASSUME NEW x \in redeemed', x \notin redeemed
      PROVE  x.by \in Reqs /\ x.code \in Code /\ OwnerOf(x.code) = req[x.by].subject
  <2>1. PICK r \in Reqs : Consume(r)
    BY <1>3 DEF Next, Step, Start, Lookup, Acquire, GiveUp, Hash, Replace, Sweep, vars
  <2>2. x = [by |-> r, code |-> req[r].rec]
    BY <1>3, <2>1 DEF Consume
  <2>3. req[r].rec \in Code /\ OwnerOf(req[r].rec) = req[r].subject
    BY <2>1 DEF Consume, RecoveryInv, LocalInv
  <2> QED BY <2>2, <2>3
<1>4. ASSUME NEW x \in redeemed PROVE x.by \in Reqs /\ x.code \in Code
  BY <1>t
<1> QED BY <1>1, <1>2, <1>3, <1>4 DEF OnlyByHolder

\* One sheet of a subject is live, each of its codes works once and only for the subject
\* it was issued to, for any number of requests issuing and redeeming at once, and the
\* pool never hands out more slots than it has (ReplaceRecoveryCodes,
\* ConsumeRecoveryCode, acquireKDF).
THEOREM CodesStaySound == Spec => []CodesAreSound
<1>1. RecoveryInv /\ OnlyByHolder => CodesAreSound
  BY DEF RecoveryInv, CodesAreSound
<1>2. Init => OnlyByHolder
  BY DEF Init, OnlyByHolder
<1>3. RecoveryInv /\ OnlyByHolder /\ [Next]_vars => OnlyByHolder'
  BY HolderKept
<1> QED BY <1>1, <1>2, <1>3, RecoveryInit, RecoveryStep, PTL DEF Spec

\* A redemption that succeeds is of the sheet issued last and of a code never redeemed
\* before, whatever was issued since the request read the row; and a code that is spent,
\* replaced or swept away never becomes redeemable again (handleRecoveryConsume,
\* ReplaceRecoveryCodes).
THEOREM RetiredNeverRedeemed == Spec => RetiredStaysDead
<1>1. ASSUME RecoveryInv, [Next]_vars
      PROVE  [/\ \A x \in redeemed' \ redeemed :
                   /\ BatchOf(x.code) = latest[OwnerOf(x.code)]
                   /\ \A y \in redeemed : y.code # x.code
              /\ \A c \in Code :
                   req[BatchOf(c)].stage = "done" /\ rows[c] # "unused"
                     => rows'[c] # "unused"]_vars
  <2>1. ASSUME NEW x \in redeemed' \ redeemed
        PROVE  /\ BatchOf(x.code) = latest[OwnerOf(x.code)]
               /\ \A y \in redeemed : y.code # x.code
    <3>1. PICK r \in Reqs : Consume(r)
      BY <1>1, <2>1 DEF Next, Step, Start, Lookup, Acquire, GiveUp, Hash, Replace, Sweep, vars
    <3>2. x = [by |-> r, code |-> req[r].rec] /\ rows[req[r].rec] = "unused"
      BY <2>1, <3>1 DEF Consume, Consumable
    <3>3. req[r].rec \in Code
      BY <1>1, <3>1 DEF Consume, RecoveryInv, LocalInv
    <3>4. BatchOf(req[r].rec) = latest[OwnerOf(req[r].rec)]
      BY <1>1, <3>2, <3>3 DEF RecoveryInv, OneLiveBatch
    <3>5. \A y \in redeemed : rows[y.code] # "unused"
      BY <1>1 DEF RecoveryInv, HistoryInv
    <3> QED BY <3>2, <3>4, <3>5
  <2>2. ASSUME NEW c \in Code, req[BatchOf(c)].stage = "done", rows[c] # "unused"
        PROVE  rows'[c] # "unused"
    <3>1. rows \in [Code -> {"absent", "unused", "used"}]
      BY <1>1 DEF RecoveryInv, TypeOK
    <3>2. ASSUME NEW r \in Reqs, Step(r) PROVE rows'[c] # "unused"
      <4>1. CASE Replace(r)
        BY <2>2, <4>1 DEF Replace
      <4>2. CASE Consume(r)
        BY <2>2, <3>1, <4>2 DEF Consume
      <4>3. CASE rows' = rows
        BY <2>2, <4>3
      <4> QED BY <3>2, <4>1, <4>2, <4>3 DEF Step, Start, Lookup, Acquire, GiveUp, Hash
    <3>3. CASE Sweep
      BY <2>2, <3>1, <3>3 DEF Sweep
    <3>4. CASE UNCHANGED vars
      BY <2>2, <3>4 DEF vars
    <3> QED BY <1>1, <3>2, <3>3, <3>4 DEF Next
  <2> QED BY <2>1, <2>2
<1> QED
  BY <1>1, RecoveryInit, RecoveryStep, PTL DEF Spec, RetiredStaysDead
=============================================================================
