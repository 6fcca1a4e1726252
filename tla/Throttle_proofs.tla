-------------------------- MODULE Throttle_proofs --------------------------
(***************************************************************************)
(* Machine-checked proofs about Throttle, for every set of requests,       *)
(* subjects, networks and factors and every value of the limits.           *)
(***************************************************************************)
EXTENDS Throttle, FiniteSetTheorems, TLAPS

(* Rows stay rows under the statements of the store.                       *)

\* An absent bucket is a row of the table's type.
LEMMA NoRowType == NoRow \in Row
BY DEF NoRow, Row

\* Hit returns a row, present, that never loses a block.
LEMMA HitRowType ==
    ASSUME NEW row \in Row, NEW now \in Nat, NEW failure \in BOOLEAN,
           NEW owner \in BOOLEAN
    PROVE  /\ HitRow(row, now, failure, owner) \in Row
           /\ HitRow(row, now, failure, owner).present
           /\ HitRow(row, now, failure, owner).blockedUntil = row.blockedUntil
BY WindowAssumption DEF HitRow, Rolls, Row

\* Block returns a row with the given lockout.
LEMMA BlockRowType ==
    ASSUME NEW row \in Row, NEW until \in Nat, NEW now \in Nat
    PROVE  /\ BlockRow(row, until, now) \in Row
           /\ BlockRow(row, until, now).blockedUntil = until
BY DEF BlockRow, Row

\* The keys of a request name buckets.
LEMMA KeyType ==
    ASSUME TypeOK, NEW r \in Reqs
    PROVE  /\ Key(r) \in SubjectBucket /\ Key(r) \in Bucket
           /\ HasNetwork(r) => NetKey(r) \in NetworkBucket /\ NetKey(r) \in Bucket
<1>1. /\ req[r].subject \in Subjects /\ req[r].factor \in Factors
      /\ req[r].network \in Networks \cup {NoNetwork}
  BY DEF TypeOK, Request
<1> QED
  BY <1>1 DEF Key, SubjectKey, SubjectBucket, Bucket, HasNetwork, NetKey,
              NetworkKey, NetworkBucket

\* What a verdict does keeps the table typed.
LEMMA ApplyVerdictType ==
    ASSUME TypeOK, NEW b \in Bucket, NEW now \in Nat, NEW verdict,
           ApplyVerdict(b, verdict, now)
    PROVE  /\ rows' \in [Bucket -> Row]
           /\ granted' \in [Bucket -> SUBSET Reqs]
<1>1. now + LockoutDuration \in Nat /\ clock \in Nat /\ rows[b] \in Row
  BY LimitAssumption DEF TypeOK
<1>2. BlockRow(rows[b], now + LockoutDuration, clock) \in Row
  BY <1>1, BlockRowType
<1> QED
  BY <1>2, NoRowType DEF ApplyVerdict, TypeOK

\* Moving a request to another stage, or returning, keeps the requests typed.
LEMMA GotoType ==
    ASSUME TypeOK, NEW r \in Reqs, NEW stage \in Stage,
           Goto(r, stage) \/ Return(r, stage)
    PROVE  req' \in [Reqs -> Request]
BY NoRowType DEF TypeOK, Request, Goto, Return

\* Handing a request its reservation keeps the requests typed.
LEMMA GrantType ==
    ASSUME TypeOK, NEW r \in Reqs, NEW row \in Row
    PROVE  [req EXCEPT ![r].st = row, ![r].held = TRUE, ![r].stage = "evaluate"]
             \in [Reqs -> Request]
<1>1. req \in [Reqs -> Request] /\ req[r] \in Request
  BY DEF TypeOK
<1>2. [req[r] EXCEPT !.st = row] \in Request
  BY <1>1 DEF Request
<1>3. ASSUME NEW q \in Request
      PROVE  [q EXCEPT !.held = TRUE, !.stage = "evaluate"] \in Request
  BY DEF Request, Stage
<1> QED
  BY <1>1, <1>2, <1>3

-----------------------------------------------------------------------------
(* Type correctness.                                                       *)

\* The initial state is typed: no bucket has a row and every request is idle.
LEMMA InitTypeOK == Init => TypeOK
<1> SUFFICES ASSUME Init PROVE TypeOK
  OBVIOUS
<1>1. rows \in [Bucket -> Row] /\ granted \in [Bucket -> SUBSET Reqs]
  BY NoRowType DEF Init
<1>2. req \in [Reqs -> Request]
  <2> SUFFICES ASSUME NEW r \in Reqs PROVE req[r] \in Request
    BY DEF Init
  <2>1. PICK s \in Subjects, n \in Networks \cup {NoNetwork}, f \in Factors :
           req[r] = [stage |-> "idle", subject |-> s, network |-> n,
                     factor |-> f, now |-> 0, netNow |-> 0, held |-> FALSE,
                     wrong |-> FALSE, counted |-> FALSE, st |-> NoRow,
                     netSt |-> NoRow]
    BY DEF Init
  <2> QED BY <2>1, NoRowType DEF Request, Stage
<1> QED
  BY <1>1, <1>2, BoundAssumption DEF Init, TypeOK

\* Every step of the limiter, its callers and the janitor keeps the types.
LEMMA NextTypeOK == TypeOK /\ [Next]_vars => TypeOK'
<1> SUFFICES ASSUME TypeOK, [Next]_vars PROVE TypeOK'
  OBVIOUS
<1> USE DEF Stage
<1>1. ASSUME NEW r \in Reqs, Arrive(r) PROVE TypeOK'
  <2>1. req' \in [Reqs -> Request]
    BY <1>1, GotoType, SMTT(30) DEF Arrive, TypeOK, Request
  <2> QED BY <1>1, <2>1 DEF Arrive, TypeOK
<1>2. ASSUME NEW r \in Reqs, CheckNetwork(r) PROVE TypeOK'
  <2>1. req' \in [Reqs -> Request]
    BY <1>2, GotoType, SMTT(30) DEF CheckNetwork, TypeOK, Request
  <2> QED BY <1>2, <2>1 DEF CheckNetwork, TypeOK
<1>3. ASSUME NEW r \in Reqs, Reserve(r) PROVE TypeOK'
  <2> DEFINE b  == Key(r)
             st == HitRow(rows[b], req[r].now, TRUE, TRUE)
  <2>1. b \in Bucket /\ rows[b] \in Row /\ req[r].now \in Nat
    BY KeyType DEF TypeOK, Request
  <2>2. st \in Row
    BY <2>1, HitRowType
  <2> HIDE DEF st
  <2>3. rows' \in [Bucket -> Row]
    BY <1>3, <2>1, <2>2 DEF Reserve, TypeOK, st
  <2>4. req' \in [Reqs -> Request]
    <3>1. CASE JudgeReserved(b, st, req[r].now) = "grant"
      <4>1. req' = [req EXCEPT ![r].st = st, ![r].held = TRUE,
                              ![r].stage = "evaluate"]
        BY <1>3, <3>1 DEF Reserve, st
      <4> QED BY <2>2, <4>1, GrantType
    <3>2. CASE JudgeReserved(b, st, req[r].now) # "grant"
      BY <1>3, <3>2, GotoType DEF Reserve, st
    <3> QED BY <3>1, <3>2
  <2>5. granted' \in [Bucket -> SUBSET Reqs]
    BY <1>3, <2>1 DEF Reserve, TypeOK, GrantedAfterHit
  <2> QED BY <1>3, <2>3, <2>4, <2>5 DEF Reserve, TypeOK
<1>4. ASSUME NEW r \in Reqs, Overrun(r) PROVE TypeOK'
  <2>1. /\ Key(r) \in Bucket /\ rows[Key(r)] \in Row /\ clock \in Nat
        /\ req[r].now + LockoutDuration \in Nat
    BY KeyType, LimitAssumption DEF TypeOK, Request
  <2>2. rows' \in [Bucket -> Row]
    BY <1>4, <2>1, BlockRowType DEF Overrun, TypeOK
  <2>3. req' \in [Reqs -> Request]
    BY <1>4, GotoType DEF Overrun
  <2> QED BY <1>4, <2>2, <2>3 DEF Overrun, TypeOK
<1>5. ASSUME NEW r \in Reqs, Abandon(r) PROVE TypeOK'
  <2>1. req' \in [Reqs -> Request]
    BY <1>5, GotoType DEF Abandon
  <2> QED BY <1>5, <2>1 DEF Abandon, TypeOK
<1>6. ASSUME NEW r \in Reqs, NEW wrong \in BOOLEAN, NEW counted \in BOOLEAN,
             Evaluate(r, wrong, counted)
      PROVE  TypeOK'
  <2>1. req' \in [Reqs -> Request]
    BY <1>6, SMTT(30) DEF Evaluate, TypeOK, Request
  <2> QED BY <1>6, <2>1 DEF Evaluate, TypeOK
<1>7. ASSUME NEW r \in Reqs, HitSubject(r) PROVE TypeOK'
  <2> DEFINE b  == Key(r)
             st == HitRow(rows[b], req[r].now, req[r].wrong, TRUE)
  <2>1. /\ b \in Bucket /\ rows[b] \in Row /\ req[r].now \in Nat
        /\ req[r].wrong \in BOOLEAN
    BY KeyType DEF TypeOK, Request
  <2>2. st \in Row
    BY <2>1, HitRowType
  <2> HIDE DEF st
  <2>3. rows' \in [Bucket -> Row]
    BY <1>7, <2>1, <2>2 DEF HitSubject, TypeOK, st
  <2>4. req' \in [Reqs -> Request]
    BY <1>7, <2>2, SMTT(30) DEF HitSubject, TypeOK, Request, st
  <2>5. granted' \in [Bucket -> SUBSET Reqs]
    BY <1>7, <2>1 DEF HitSubject, TypeOK, GrantedAfterHit
  <2> QED BY <1>7, <2>3, <2>4, <2>5 DEF HitSubject, TypeOK
<1>8. ASSUME NEW r \in Reqs, HitNetwork(r) PROVE TypeOK'
  <2> DEFINE b  == NetKey(r)
             st == HitRow(rows[b], req[r].netNow, req[r].wrong, FALSE)
  <2>1. CASE HasNetwork(r)
    <3>1. /\ b \in Bucket /\ rows[b] \in Row /\ req[r].netNow \in Nat
          /\ req[r].wrong \in BOOLEAN
      BY <2>1, KeyType DEF TypeOK, Request
    <3>2. st \in Row
      BY <3>1, HitRowType
    <3> HIDE DEF st
    <3>3. rows' \in [Bucket -> Row]
      BY <1>8, <2>1, <3>1, <3>2 DEF HitNetwork, TypeOK, st
    <3>4. req' \in [Reqs -> Request]
      BY <1>8, <2>1, <3>2, SMTT(30) DEF HitNetwork, TypeOK, Request, st
    <3> QED BY <1>8, <3>3, <3>4 DEF HitNetwork, TypeOK
  <2>2. CASE ~HasNetwork(r)
    <3>1. req' \in [Reqs -> Request]
      BY <1>8, <2>2, GotoType DEF HitNetwork
    <3> QED BY <1>8, <2>2, <3>1 DEF HitNetwork, TypeOK
  <2> QED BY <2>1, <2>2
<1>9. ASSUME NEW r \in Reqs, JudgeSubject(r) PROVE TypeOK'
  <2>1. Key(r) \in Bucket /\ req[r].now \in Nat
    BY KeyType DEF TypeOK, Request
  <2>2. rows' \in [Bucket -> Row] /\ granted' \in [Bucket -> SUBSET Reqs]
    BY <1>9, <2>1, ApplyVerdictType DEF JudgeSubject
  <2>3. req' \in [Reqs -> Request]
    BY <1>9, GotoType DEF JudgeSubject
  <2> QED BY <1>9, <2>2, <2>3 DEF JudgeSubject, TypeOK
<1>10. ASSUME NEW r \in Reqs, JudgeNetwork(r) PROVE TypeOK'
  <2>1. HasNetwork(r) => NetKey(r) \in Bucket /\ req[r].netNow \in Nat
    BY KeyType DEF TypeOK, Request
  <2>2. rows' \in [Bucket -> Row] /\ granted' \in [Bucket -> SUBSET Reqs]
    <3>1. CASE HasNetwork(r)
      BY <1>10, <2>1, <3>1, ApplyVerdictType DEF JudgeNetwork
    <3>2. CASE ~HasNetwork(r)
      BY <1>10, <3>2 DEF JudgeNetwork, TypeOK
    <3> QED BY <3>1, <3>2
  <2>3. req' \in [Reqs -> Request]
    BY <1>10, GotoType DEF JudgeNetwork
  <2> QED BY <1>10, <2>2, <2>3 DEF JudgeNetwork, TypeOK
<1>11. ASSUME NEW r \in Reqs, StoreFault(r) PROVE TypeOK'
  <2>1. req' \in [Reqs -> Request]
    BY <1>11, GotoType, SMTT(30) DEF StoreFault, TypeOK, Request
  <2>2. faults' \in 0..MaxFaults
    BY <1>11, BoundAssumption DEF StoreFault, TypeOK
  <2> QED BY <1>11, <2>1, <2>2 DEF StoreFault, TypeOK
<1>12. ASSUME NEW s \in Subjects, UnlockBegin(s) PROVE TypeOK'
  <2>1. unlocks' \in 0..MaxUnlocks
    BY <1>12, BoundAssumption DEF UnlockBegin, TypeOK
  <2>2. unlock' \subseteq SubjectBucket \cup {SweepCall(x) : x \in Subjects}
    BY <1>12 DEF UnlockBegin, SubjectBucket, SubjectKey
  <2> QED BY <1>12, <2>1, <2>2 DEF UnlockBegin, TypeOK
<1>13. ASSUME NEW s \in Subjects, UnlockSweep(s) PROVE TypeOK'
  BY <1>13, NoRowType DEF UnlockSweep, TypeOK
<1>14. ASSUME NEW b \in SubjectBucket, UnlockDelete(b) PROVE TypeOK'
  <2>1. b \in Bucket
    BY DEF Bucket
  <2> QED BY <1>14, <2>1, NoRowType DEF UnlockDelete, TypeOK
<1>15. ASSUME Sweep PROVE TypeOK'
  BY <1>15, NoRowType DEF Sweep, TypeOK
<1>16. ASSUME Tick PROVE TypeOK'
  BY <1>16 DEF Tick, TypeOK
<1>17. CASE UNCHANGED vars
  BY <1>17 DEF vars, TypeOK
<1> QED
  BY <1>1, <1>2, <1>3, <1>4, <1>5, <1>6, <1>7, <1>8, <1>9, <1>10, <1>11,
     <1>12, <1>13, <1>14, <1>15, <1>16, <1>17 DEF Next

\* The specification never leaves its types (TypeOK of Throttle).
THEOREM TypeCorrect == Spec => []TypeOK
BY InitTypeOK, NextTypeOK, PTL DEF Spec

-----------------------------------------------------------------------------
(***************************************************************************)
(* The guess budget.  GuessBudget is not inductive: what bounds the        *)
(* reservations granted in a window is the failure count of the row, which *)
(* every reservation raises before it is judged.                           *)
(***************************************************************************)
BucketBudget(b) ==
    /\ ~rows[b].present => rows[b].failures = 0
    /\ Cardinality(granted[b]) <= rows[b].failures
    /\ Cardinality(granted[b]) <= MaxFailuresPerSubject

BudgetInv == TypeOK /\ \A b \in SubjectBucket : BucketBudget(b)

\* A set of requests is finite, and one more request adds at most one.
LEMMA RequestSets ==
    ASSUME NEW S \in SUBSET Reqs, NEW r \in Reqs
    PROVE  /\ IsFiniteSet(S) /\ Cardinality(S) \in Nat
           /\ Cardinality(S \cup {r}) \in Nat
           /\ Cardinality(S \cup {r}) <= Cardinality(S) + 1
<1>1. IsFiniteSet(S)
  BY ReqsAssumption, FS_Subset
<1>2. Cardinality(S) \in Nat
  BY <1>1, FS_CardinalityType
<1> QED
  BY <1>1, <1>2, FS_AddElement

\* After a Hit the window holds fewer reservations than failures, by the one
\* failure just counted.
LEMMA HitCounts ==
    ASSUME BudgetInv, NEW b \in SubjectBucket, NEW now \in Nat,
           NEW failure \in BOOLEAN, NEW owner \in BOOLEAN
    PROVE  LET st == HitRow(rows[b], now, failure, owner)
               g  == GrantedAfterHit(b, now)
           IN  /\ st.present /\ st.failures \in Nat
               /\ g \in SUBSET Reqs
               /\ Cardinality(g) <= st.failures
               /\ failure => Cardinality(g) + 1 <= st.failures
               /\ Cardinality(g) <= MaxFailuresPerSubject
<1>1. /\ rows[b] \in Row /\ granted[b] \in SUBSET Reqs /\ BucketBudget(b)
  BY DEF BudgetInv, TypeOK, Bucket
<1>2. CASE Rolls(rows[b], now)
  <2>1. /\ GrantedAfterHit(b, now) = {} /\ Cardinality({}) = 0
    BY <1>2, FS_EmptySet DEF GrantedAfterHit
  <2> QED BY <1>2, <2>1, LimitAssumption DEF HitRow
<1>3. CASE ~Rolls(rows[b], now)
  <2>1. /\ GrantedAfterHit(b, now) = granted[b]
        /\ IsFiniteSet(granted[b])
    BY <1>1, <1>3, ReqsAssumption, FS_Subset DEF GrantedAfterHit
  <2>2. Cardinality(granted[b]) \in Nat
    BY <2>1, FS_CardinalityType
  <2> QED BY <1>1, <1>3, <2>1, <2>2 DEF HitRow, BucketBudget, Row
<1> QED BY <1>2, <1>3

\* Blocking a row neither adds a reservation nor loses a failure.
LEMMA BlockKeeps ==
    ASSUME BudgetInv, NEW b \in SubjectBucket, NEW until, NEW now,
           rows'[b] = BlockRow(rows[b], until, now), granted'[b] = granted[b]
    PROVE  BucketBudget(b)'
<1>1. rows[b] \in Row /\ BucketBudget(b)
  BY DEF BudgetInv, TypeOK, Bucket
<1> QED BY <1>1 DEF BucketBudget, BlockRow, Row

\* A deleted row has no reservations.
LEMMA DeleteKeeps ==
    ASSUME NEW b \in SubjectBucket, rows'[b] = NoRow, granted'[b] = {}
    PROVE  BucketBudget(b)'
BY FS_EmptySet, LimitAssumption DEF BucketBudget, NoRow

\* What a verdict does keeps every bucket's budget.
LEMMA VerdictKeeps ==
    ASSUME BudgetInv, NEW b \in Bucket, NEW now \in Nat, NEW verdict,
           ApplyVerdict(b, verdict, now), NEW c \in SubjectBucket
    PROVE  BucketBudget(c)'
<1>1. rows \in [Bucket -> Row] /\ granted \in [Bucket -> SUBSET Reqs]
      /\ BucketBudget(c)
  BY DEF BudgetInv, TypeOK, Bucket
<1>2. CASE c # b \/ verdict \notin {"lock", "clear"}
  <2>1. rows'[c] = rows[c] /\ granted'[c] = granted[c]
    BY <1>1, <1>2 DEF ApplyVerdict
  <2> QED BY <1>1, <2>1 DEF BucketBudget
<1>3. CASE c = b /\ verdict = "lock"
  <2>1. /\ rows'[b] = BlockRow(rows[b], now + LockoutDuration, clock)
        /\ granted'[b] = granted[b]
    BY <1>1, <1>3 DEF ApplyVerdict
  <2> QED BY <1>3, <2>1, BlockKeeps
<1>4. CASE c = b /\ verdict = "clear"
  <2>1. rows'[b] = NoRow /\ granted'[b] = {}
    BY <1>1, <1>4 DEF ApplyVerdict
  <2> QED BY <1>4, <2>1, DeleteKeeps
<1> QED BY <1>2, <1>3, <1>4

\* A bucket a step leaves alone keeps its budget.
LEMMA UntouchedKeeps ==
    ASSUME BudgetInv, NEW b \in SubjectBucket, rows'[b] = rows[b],
           granted'[b] = granted[b]
    PROVE  BucketBudget(b)'
BY DEF BudgetInv, BucketBudget

\* Nothing is reserved in the initial state.
LEMMA InitBudget == Init => BudgetInv
BY InitTypeOK, FS_EmptySet, LimitAssumption
   DEF Init, BudgetInv, BucketBudget, NoRow, Bucket

\* Every step keeps each bucket's budget: reservations never outnumber the
\* failures counted in the window, nor the limit.
LEMMA NextBudget == BudgetInv /\ [Next]_vars => BudgetInv'
<1> SUFFICES ASSUME BudgetInv, [Next]_vars, NEW c \in SubjectBucket
             PROVE  BucketBudget(c)'
  BY NextTypeOK DEF BudgetInv
<1>t. /\ TypeOK /\ rows \in [Bucket -> Row]
      /\ granted \in [Bucket -> SUBSET Reqs] /\ clock \in Nat
  BY DEF BudgetInv, TypeOK, Bucket
<1>1. ASSUME NEW r \in Reqs,
             Arrive(r) \/ CheckNetwork(r) \/ Abandon(r) \/ StoreFault(r)
               \/ \E wrong, counted \in BOOLEAN : Evaluate(r, wrong, counted)
      PROVE  BucketBudget(c)'
  BY <1>1, UntouchedKeeps
     DEF Arrive, CheckNetwork, Abandon, StoreFault, Evaluate
<1>2. ASSUME NEW r \in Reqs, Reserve(r) PROVE BucketBudget(c)'
  <2> DEFINE b  == Key(r)
             st == HitRow(rows[b], req[r].now, TRUE, TRUE)
             g  == GrantedAfterHit(b, req[r].now)
             verdict == JudgeReserved(b, st, req[r].now)
  <2>1. b \in Bucket /\ b \in SubjectBucket /\ req[r].now \in Nat
    BY <1>t, KeyType DEF TypeOK, Request
  <2>2. CASE c # b
    BY <1>2, <2>2, <1>t, UntouchedKeeps DEF Reserve, Bucket
  <2>3. CASE c = b
    <3>1. /\ rows'[b] = st
          /\ granted'[b] = g \cup (IF verdict = "grant" THEN {r} ELSE {})
      BY <1>2, <2>1, <1>t DEF Reserve
    <3>2. /\ st.present /\ st.failures \in Nat /\ g \in SUBSET Reqs
          /\ Cardinality(g) + 1 <= st.failures
          /\ Cardinality(g) <= st.failures
          /\ Cardinality(g) <= MaxFailuresPerSubject
      BY <2>1, HitCounts
    <3> HIDE DEF st, g
    <3>3. CASE verdict = "grant"
      <4>1. st.failures <= MaxFailuresPerSubject
        BY <2>1, <3>3 DEF JudgeReserved, Limit, SubjectBucket
      <4>2. granted'[b] = g \cup {r}
        BY <3>1, <3>3
      <4>3. /\ Cardinality(g) \in Nat /\ Cardinality(g \cup {r}) \in Nat
            /\ Cardinality(g \cup {r}) <= Cardinality(g) + 1
        BY <3>2, RequestSets
      <4> QED BY <2>3, <3>1, <3>2, <4>1, <4>2, <4>3, LimitAssumption
              DEF BucketBudget
    <3>4. CASE verdict # "grant"
      <4>1. granted'[b] = g
        BY <3>1, <3>4
      <4> QED BY <2>3, <3>1, <3>2, <4>1 DEF BucketBudget
    <3> QED BY <3>3, <3>4
  <2> QED BY <2>2, <2>3
<1>3. ASSUME NEW r \in Reqs, Overrun(r) PROVE BucketBudget(c)'
  <2>1. Key(r) \in Bucket
    BY <1>t, KeyType
  <2> QED BY <1>3, <2>1, <1>t, UntouchedKeeps, BlockKeeps DEF Overrun
<1>4. ASSUME NEW r \in Reqs, HitSubject(r) PROVE BucketBudget(c)'
  <2> DEFINE b  == Key(r)
             st == HitRow(rows[b], req[r].now, req[r].wrong, TRUE)
             g  == GrantedAfterHit(b, req[r].now)
  <2>1. /\ b \in Bucket /\ b \in SubjectBucket
        /\ req[r].now \in Nat /\ req[r].wrong \in BOOLEAN
    BY <1>t, KeyType DEF TypeOK, Request
  <2>2. CASE c # b
    BY <1>4, <2>2, <1>t, UntouchedKeeps DEF HitSubject, Bucket
  <2>3. CASE c = b
    <3>1. rows'[b] = st /\ granted'[b] = g
      BY <1>4, <2>1, <1>t DEF HitSubject
    <3>2. /\ st.present /\ Cardinality(g) <= st.failures
          /\ Cardinality(g) <= MaxFailuresPerSubject
      BY <2>1, HitCounts
    <3> HIDE DEF st, g
    <3> QED BY <2>3, <3>1, <3>2 DEF BucketBudget
  <2> QED BY <2>2, <2>3
<1>5. ASSUME NEW r \in Reqs, HitNetwork(r) PROVE BucketBudget(c)'
  <2>1. HasNetwork(r) => NetKey(r) \in NetworkBucket
    BY <1>t, KeyType
  <2>2. HasNetwork(r) => c # NetKey(r)
    BY <2>1 DEF NetworkBucket, SubjectBucket
  <2>3. rows'[c] = rows[c] /\ granted'[c] = granted[c]
    BY <1>5, <2>2, <1>t DEF HitNetwork, Bucket
  <2> QED BY <2>3, UntouchedKeeps
<1>6. ASSUME NEW r \in Reqs, JudgeSubject(r) PROVE BucketBudget(c)'
  <2>1. Key(r) \in Bucket /\ req[r].now \in Nat
    BY <1>t, KeyType DEF TypeOK, Request
  <2> QED BY <1>6, <2>1, VerdictKeeps DEF JudgeSubject
<1>7. ASSUME NEW r \in Reqs, JudgeNetwork(r) PROVE BucketBudget(c)'
  <2>1. CASE HasNetwork(r)
    <3>1. NetKey(r) \in Bucket /\ req[r].netNow \in Nat
      BY <1>t, <2>1, KeyType DEF TypeOK, Request
    <3> QED BY <1>7, <2>1, <3>1, VerdictKeeps DEF JudgeNetwork
  <2>2. CASE ~HasNetwork(r)
    BY <1>7, <2>2, UntouchedKeeps DEF JudgeNetwork
  <2> QED BY <2>1, <2>2
<1>8. ASSUME NEW b \in SubjectBucket, UnlockDelete(b) PROVE BucketBudget(c)'
  <2>1. b \in Bucket /\ c \in Bucket
    BY DEF Bucket
  <2>2. CASE c = b
    BY <1>8, <1>t, <2>1, <2>2, DeleteKeeps DEF UnlockDelete
  <2>3. CASE c # b
    BY <1>8, <1>t, <2>1, <2>3, UntouchedKeeps DEF UnlockDelete
  <2> QED BY <2>2, <2>3
<1>9. ASSUME Sweep \/ \E s \in Subjects : UnlockSweep(s)
      PROVE  BucketBudget(c)'
  <2>1. c \in Bucket
    BY DEF Bucket
  <2>2. \/ rows'[c] = NoRow /\ granted'[c] = {}
        \/ rows'[c] = rows[c] /\ granted'[c] = granted[c]
    BY <1>9, <2>1, <1>t DEF Sweep, UnlockSweep
  <2> QED BY <2>2, DeleteKeeps, UntouchedKeeps
<1>10. ASSUME Tick \/ (\E s \in Subjects : UnlockBegin(s)) \/ UNCHANGED vars
       PROVE  BucketBudget(c)'
  BY <1>10, UntouchedKeeps DEF Tick, UnlockBegin, vars
<1> QED
  BY <1>1, <1>2, <1>3, <1>4, <1>5, <1>6, <1>7, <1>8, <1>9, <1>10 DEF Next

\* For every number of parallel requests and every budget, no counting window of
\* a subject's bucket sees more reserved guesses evaluated than
\* max_failures_per_subject (Limiter.Reserve, judgeReserved).
THEOREM GuessBudgetHolds == Spec => []GuessBudget
<1>1. BudgetInv => GuessBudget
  <2>1. CodeBucket \subseteq SubjectBucket
    BY DEF CodeBucket, SubjectBucket, CodeFactors
  <2> QED BY <2>1 DEF BudgetInv, BucketBudget, GuessBudget
<1> QED BY <1>1, InitBudget, NextBudget, PTL DEF Spec

-----------------------------------------------------------------------------
(***************************************************************************)
(* Lockouts.  LockoutsAreRight is not inductive.  That a lockout is        *)
(* bounded depends on the readings at which the requests under way will    *)
(* lock: none is a window or more past the start of the window it has      *)
(* counted in.  That an exhausted budget is locked depends on who owes the *)
(* lock: at a code, the request refused as the one past the budget; at a   *)
(* network, a wrong attempt that counted and has not judged the network    *)
(* yet.  A handler under way uses a reading no older than Latency.         *)
(***************************************************************************)

\* The clock readings of a request under way are recent.
ReadingsRecent(r) ==
    /\ Active(r) => req[r].now <= clock /\ clock <= req[r].now + Latency
    /\ Settling(r) => req[r].now <= req[r].netNow /\ req[r].netNow <= clock

\* A reservation is held from the grant to the end of its settlement, and where the
\* store answers, a code is never evaluated without one.
ReservationInv(r) ==
    /\ req[r].held => req[r].stage \in
         {"evaluate", "hitNetwork", "judgeNetwork", "judgeSubject"}
    /\ req[r].stage \in {"hitSubject", "judgeSubject"} =>
         req[r].held \/ req[r].counted
    /\ (faults = 0 /\ req[r].factor \in CodeFactors
          /\ (req[r].stage = "evaluate" \/ Settling(r))) => req[r].held

\* The request has counted in its subject's bucket at the reading it holds.
HasCounted(r) ==
    \/ req[r].stage = "overrun"
    \/ req[r].held
    \/ /\ req[r].stage \in {"hitNetwork", "judgeSubject", "judgeNetwork"}
       /\ req[r].counted

\* The reading falls in the window the row counts in, or before it.
NotPast(b, now) == rows[b].present => now < rows[b].windowStart + Window

ReadingsInWindow(r) ==
    /\ HasCounted(r) => NotPast(Key(r), req[r].now)
    /\ (HasNetwork(r) /\ (req[r].stage = "judgeNetwork"
                            \/ (req[r].stage = "judgeSubject" /\ ~req[r].held)))
         => NotPast(NetKey(r), req[r].netNow)

\* A bucket without a row counts nothing, and a lockout ends in time.
LockoutInTime(b) ==
    /\ ~rows[b].present => rows[b].failures = 0 /\ rows[b].blockedUntil = 0
    /\ rows[b].blockedUntil > 0 =>
         rows[b].blockedUntil < rows[b].windowStart + Window + LockoutDuration

\* The request has run the network over its budget and has yet to lock it.
OwesNetworkLock(r, b) ==
    /\ \/ req[r].stage = "judgeNetwork"
       \/ req[r].stage = "judgeSubject" /\ ~req[r].held
    /\ HasNetwork(r) /\ NetKey(r) = b
    /\ req[r].wrong
    /\ req[r].netSt.failures >= Limit(b)
    /\ ~Blocked(req[r].netSt, req[r].netNow)

CodeLocked(b) ==
    rows[b].failures > Limit(b) =>
      \/ rows[b].blockedUntil > 0
      \/ \E r \in Reqs : req[r].stage = "overrun" /\ Key(r) = b

NetworkLocked(b) ==
    rows[b].failures >= Limit(b) =>
      \/ rows[b].blockedUntil > 0
      \/ \E r \in Reqs : OwesNetworkLock(r, b)

ReadingsInv ==
    \A r \in Reqs : ReadingsRecent(r) /\ ReservationInv(r) /\ ReadingsInWindow(r)

LocksInv ==
    /\ \A b \in Bucket : LockoutInTime(b)
    /\ faults = 0 => /\ \A b \in CodeBucket : CodeLocked(b)
                     /\ \A b \in NetworkBucket : NetworkLocked(b)

LockoutInv == TypeOK /\ ReadingsInv /\ LocksInv

\* What one step may do to the row of a bucket: nothing, a deletion, a Hit at a
\* recent reading, or a Block from one that is not past the row's window.
Statement(b) ==
    \/ rows'[b] = rows[b]
    \/ rows'[b] = NoRow
    \/ \E now \in Nat, failure, owner \in BOOLEAN :
         /\ now <= clock /\ clock <= now + Latency
         /\ rows'[b] = HitRow(rows[b], now, failure, owner)
    \/ \E now \in Nat :
         /\ now <= clock /\ clock <= now + Latency /\ NotPast(b, now)
         /\ rows'[b] = BlockRow(rows[b], now + LockoutDuration, clock)

\* A reading that is not past a row's window stays so: a window that opens, opens
\* at a recent reading.
LEMMA NotPastKept ==
    ASSUME TypeOK, NEW b \in Bucket, Statement(b), NEW n \in Nat, n <= clock,
           NotPast(b, n)
    PROVE  rows'[b].present => n < rows'[b].windowStart + Window
<1>1. rows[b] \in Row /\ clock \in Nat
  BY DEF TypeOK
<1>2. CASE rows'[b] = rows[b] \/ rows'[b] = NoRow
  BY <1>2 DEF NotPast, NoRow
<1>3. ASSUME NEW now \in Nat, NEW failure \in BOOLEAN, NEW owner \in BOOLEAN,
             clock <= now + Latency,
             rows'[b] = HitRow(rows[b], now, failure, owner)
      PROVE  n < rows'[b].windowStart + Window
  BY <1>1, <1>3, WindowAssumption, BoundAssumption DEF HitRow, Rolls, Row, NotPast
<1>4. ASSUME NEW now \in Nat,
             rows'[b] = BlockRow(rows[b], now + LockoutDuration, clock)
      PROVE  n < rows'[b].windowStart + Window
  BY <1>1, <1>4, WindowAssumption DEF BlockRow, Row, NotPast
<1> QED
  BY <1>2, <1>3, <1>4 DEF Statement

\* No statement prolongs a lockout past its bound, and a deleted row holds none.
LEMMA LockoutInTimeKept ==
    ASSUME TypeOK, NEW b \in Bucket, LockoutInTime(b), Statement(b)
    PROVE  LockoutInTime(b)'
<1>1. rows[b] \in Row /\ clock \in Nat
  BY DEF TypeOK
<1>2. CASE rows'[b] = rows[b] \/ rows'[b] = NoRow
  BY <1>2 DEF LockoutInTime, NoRow
<1>3. ASSUME NEW now \in Nat, NEW failure \in BOOLEAN, NEW owner \in BOOLEAN,
             rows'[b] = HitRow(rows[b], now, failure, owner)
      PROVE  LockoutInTime(b)'
  BY <1>1, <1>3, WindowAssumption, LimitAssumption
     DEF HitRow, Rolls, Row, LockoutInTime
<1>4. ASSUME NEW now \in Nat, now <= clock, NotPast(b, now),
             rows'[b] = BlockRow(rows[b], now + LockoutDuration, clock)
      PROVE  LockoutInTime(b)'
  BY <1>1, <1>4, WindowAssumption, LimitAssumption
     DEF BlockRow, Row, NotPast, LockoutInTime
<1> QED
  BY <1>2, <1>3, <1>4 DEF Statement

\* A Hit at a reading leaves that reading inside the window of the row.
LEMMA HitNotPast ==
    ASSUME NEW row \in Row, NEW now \in Nat, NEW failure \in BOOLEAN,
           NEW owner \in BOOLEAN
    PROVE  now < HitRow(row, now, failure, owner).windowStart + Window
BY WindowAssumption DEF HitRow, Rolls, Row

\* A request under way reads the clock in the past, and recently.
LEMMA RecentReading ==
    ASSUME TypeOK, ReadingsInv, NEW r \in Reqs, Active(r)
    PROVE  /\ req[r].now \in Nat /\ req[r].now <= clock
           /\ clock <= req[r].now + Latency
           /\ Settling(r) => /\ req[r].netNow \in Nat /\ req[r].netNow <= clock
                             /\ clock <= req[r].netNow + Latency
<1>1. req[r] \in Request /\ clock \in Nat /\ ReadingsRecent(r)
  BY DEF TypeOK, ReadingsInv
<1> QED BY <1>1, BoundAssumption DEF Request, ReadingsRecent

\* A verdict given at a reading inside the bucket's window is a statement.
LEMMA VerdictStatement ==
    ASSUME TypeOK, NEW b \in Bucket, NEW now \in Nat, now <= clock,
           clock <= now + Latency, NotPast(b, now), NEW verdict, ApplyVerdict(b, verdict, now), NEW c \in Bucket
    PROVE  Statement(c)
<1>1. rows \in [Bucket -> Row]
  BY DEF TypeOK
<1>2. CASE verdict = "lock"
  BY <1>1, <1>2 DEF ApplyVerdict, Statement
<1>3. CASE verdict # "lock"
  BY <1>1, <1>3 DEF ApplyVerdict, Statement
<1> QED BY <1>2, <1>3

\* Every step is a statement on each row.
LEMMA StepStatement ==
    ASSUME TypeOK, ReadingsInv, Next, NEW c \in Bucket
    PROVE  Statement(c)
<1>t. rows \in [Bucket -> Row] /\ clock \in Nat
  BY DEF TypeOK
<1>1. ASSUME NEW r \in Reqs,
             Arrive(r) \/ CheckNetwork(r) \/ Abandon(r) \/ StoreFault(r)
               \/ \E wrong, counted \in BOOLEAN : Evaluate(r, wrong, counted)
      PROVE  Statement(c)
  BY <1>1 DEF Arrive, CheckNetwork, Abandon, StoreFault, Evaluate, Statement
<1>2. ASSUME NEW r \in Reqs, Reserve(r) PROVE Statement(c)
  <2>1. Active(r)
    BY <1>2 DEF Reserve, Active
  <2>2. Key(r) \in Bucket
    BY KeyType
  <2>3. rows'[c] = rows[c] \/ rows'[c] = HitRow(rows[c], req[r].now, TRUE, TRUE)
    BY <1>2, <2>2, <1>t DEF Reserve
  <2> QED BY <2>1, <2>3, RecentReading DEF Statement
<1>3. ASSUME NEW r \in Reqs, Overrun(r) PROVE Statement(c)
  <2>1. Active(r) /\ HasCounted(r)
    BY <1>3 DEF Overrun, Active, HasCounted
  <2>2. Key(r) \in Bucket
    BY KeyType
  <2>3. NotPast(Key(r), req[r].now)
    BY <2>1 DEF ReadingsInv, ReadingsInWindow
  <2>4. rows' = [rows EXCEPT ![Key(r)] =
                  BlockRow(rows[Key(r)], req[r].now + LockoutDuration, clock)]
    BY <1>3 DEF Overrun
  <2>5. req[r].now \in Nat /\ req[r].now <= clock /\ clock <= req[r].now + Latency
    BY <2>1, RecentReading
  <2>6. CASE c = Key(r)
    BY <2>2, <2>3, <2>4, <2>5, <2>6, <1>t DEF Statement
  <2>7. CASE c # Key(r)
    BY <2>4, <2>7, <1>t DEF Statement
  <2> QED BY <2>6, <2>7
<1>4. ASSUME NEW r \in Reqs, HitSubject(r) PROVE Statement(c)
  <2>1. Active(r)
    BY <1>4 DEF HitSubject, Active
  <2>2. Key(r) \in Bucket /\ req[r].wrong \in BOOLEAN
    BY KeyType DEF TypeOK, Request
  <2>3. \/ rows'[c] = rows[c]
        \/ rows'[c] = HitRow(rows[c], req[r].now, req[r].wrong, TRUE)
    BY <1>4, <2>2, <1>t DEF HitSubject
  <2> QED BY <2>1, <2>2, <2>3, RecentReading DEF Statement
<1>5. ASSUME NEW r \in Reqs, HitNetwork(r) PROVE Statement(c)
  <2>1. Active(r) /\ Settling(r)
    BY <1>5 DEF HitNetwork, Active, Settling
  <2>2. req[r].wrong \in BOOLEAN
    BY DEF TypeOK, Request
  <2>3. \/ rows'[c] = rows[c]
        \/ rows'[c] = HitRow(rows[c], req[r].netNow, req[r].wrong, FALSE)
    BY <1>5, KeyType, <1>t DEF HitNetwork
  <2> QED BY <2>1, <2>2, <2>3, RecentReading DEF Statement
<1>6. ASSUME NEW r \in Reqs, JudgeSubject(r) PROVE Statement(c)
  <2>1. Active(r) /\ HasCounted(r)
    BY <1>6 DEF JudgeSubject, Active, HasCounted, ReadingsInv, ReservationInv
  <2>2. Key(r) \in Bucket /\ NotPast(Key(r), req[r].now)
    BY <2>1, KeyType DEF ReadingsInv, ReadingsInWindow
  <2>3. ApplyVerdict(Key(r), SettleVerdict(r), req[r].now)
    BY <1>6 DEF JudgeSubject
  <2>4. req[r].now \in Nat /\ req[r].now <= clock /\ clock <= req[r].now + Latency
    BY <2>1, RecentReading
  <2> QED BY <2>2, <2>3, <2>4, VerdictStatement
<1>7. ASSUME NEW r \in Reqs, JudgeNetwork(r) PROVE Statement(c)
  <2>1. CASE HasNetwork(r)
    <3>1. Active(r) /\ Settling(r)
      BY <1>7 DEF JudgeNetwork, Active, Settling
    <3>2. NetKey(r) \in Bucket /\ NotPast(NetKey(r), req[r].netNow)
      BY <1>7, <2>1, KeyType DEF JudgeNetwork, ReadingsInv, ReadingsInWindow
    <3>3. ApplyVerdict(NetKey(r),
             Judge(NetKey(r), req[r].netSt, req[r].netNow, req[r].wrong),
             req[r].netNow)
      BY <1>7, <2>1 DEF JudgeNetwork
    <3>4. /\ req[r].netNow \in Nat /\ req[r].netNow <= clock
          /\ clock <= req[r].netNow + Latency
      BY <3>1, RecentReading
    <3> QED BY <3>2, <3>3, <3>4, VerdictStatement
  <2>2. CASE ~HasNetwork(r)
    BY <1>7, <2>2 DEF JudgeNetwork, Statement
  <2> QED BY <2>1, <2>2
<1>8. ASSUME \/ Sweep
             \/ \E s \in Subjects : UnlockSweep(s) \/ UnlockBegin(s)
             \/ \E b \in SubjectBucket : UnlockDelete(b)
             \/ Tick
      PROVE  Statement(c)
  BY <1>8, <1>t DEF Sweep, UnlockSweep, UnlockBegin, UnlockDelete, Tick, Statement
<1> QED
  BY <1>1, <1>2, <1>3, <1>4, <1>5, <1>6, <1>7, <1>8 DEF Next

ReadingInv(r) == ReadingsRecent(r) /\ ReservationInv(r) /\ ReadingsInWindow(r)

\* A request the step does not serve keeps its readings, whatever became of the rows.
LEMMA BystanderKept ==
    ASSUME TypeOK, ReadingsInv, Next, NEW q \in Reqs, req'[q] = req[q],
           clock' = clock, faults' = 0 => faults = 0
    PROVE  ReadingInv(q)'
<1>1. /\ req[q] \in Request /\ clock \in Nat /\ ReadingInv(q)
      /\ Key(q) \in Bucket /\ (HasNetwork(q) => NetKey(q) \in Bucket)
  BY KeyType DEF TypeOK, ReadingsInv, ReadingInv
<1>2. ReadingsRecent(q)'
  BY <1>1 DEF ReadingInv, ReadingsRecent, Active, Settling
<1>3. ReservationInv(q)'
  BY <1>1 DEF ReadingInv, ReservationInv, Active, Settling
<1>4. /\ HasCounted(q)' = HasCounted(q) /\ Key(q)' = Key(q)
      /\ HasNetwork(q)' = HasNetwork(q) /\ NetKey(q)' = NetKey(q)
  BY DEF HasCounted, Key, HasNetwork, NetKey
<1>5. HasCounted(q) => NotPast(Key(q), req[q].now)'
  <2> SUFFICES ASSUME HasCounted(q) PROVE NotPast(Key(q), req[q].now)'
    OBVIOUS
  <2>1. Active(q) /\ NotPast(Key(q), req[q].now)
    BY <1>1 DEF ReadingInv, ReservationInv, ReadingsInWindow, HasCounted, Active
  <2>2. req[q].now \in Nat /\ req[q].now <= clock /\ Statement(Key(q))
    BY <1>1, <2>1, RecentReading, StepStatement
  <2> QED BY <1>1, <1>4, <2>1, <2>2, NotPastKept DEF NotPast
<1>6. (HasNetwork(q) /\ (req[q].stage = "judgeNetwork"
                           \/ (req[q].stage = "judgeSubject" /\ ~req[q].held)))
        => NotPast(NetKey(q), req[q].netNow)'
  <2> SUFFICES ASSUME HasNetwork(q),
                      \/ req[q].stage = "judgeNetwork"
                      \/ req[q].stage = "judgeSubject" /\ ~req[q].held
               PROVE  NotPast(NetKey(q), req[q].netNow)'
    OBVIOUS
  <2>1. Active(q) /\ Settling(q) /\ NotPast(NetKey(q), req[q].netNow)
    BY <1>1 DEF ReadingInv, ReadingsInWindow, Active, Settling
  <2>2. req[q].netNow \in Nat /\ req[q].netNow <= clock /\ Statement(NetKey(q))
    BY <1>1, <2>1, RecentReading, StepStatement
  <2> QED BY <1>1, <1>4, <2>1, <2>2, NotPastKept DEF NotPast
<1>7. ReadingsInWindow(q)'
  BY <1>4, <1>5, <1>6 DEF ReadingsInWindow
<1> QED BY <1>2, <1>3, <1>7 DEF ReadingInv

\* A handler that has returned holds no reading.
LEMMA ReturnedHoldsNothing ==
    ASSUME TypeOK, NEW r \in Reqs, NEW stage \in {"refused", "done"}, Return(r, stage)
    PROVE  ReadingInv(r)'
<1>1. req'[r].stage = stage /\ req'[r].held = FALSE
  BY DEF TypeOK, Request, Return
<1> QED BY <1>1 DEF ReadingInv, ReadingsRecent, ReservationInv, ReadingsInWindow,
                    Active, Settling, HasCounted

\* A request that moves on with its readings keeps what is said of its subject's row.
LEMMA CountedKept ==
    ASSUME TypeOK, ReadingsInv, Next, NEW r \in Reqs, HasCounted(r),
           Key(r)' = Key(r), req'[r].now = req[r].now
    PROVE  NotPast(Key(r), req[r].now)'
<1>1. Active(r) /\ NotPast(Key(r), req[r].now) /\ Key(r) \in Bucket
  BY KeyType DEF ReadingsInv, ReservationInv, ReadingsInWindow, HasCounted, Active
<1>2. req[r].now \in Nat /\ req[r].now <= clock /\ Statement(Key(r))
  BY <1>1, RecentReading, StepStatement
<1> QED BY <1>1, <1>2, NotPastKept DEF NotPast

\* The steps that serve a request.
Serves(r) ==
    \/ Arrive(r) \/ CheckNetwork(r) \/ Reserve(r) \/ Overrun(r) \/ Abandon(r)
    \/ \E wrong, counted \in BOOLEAN : Evaluate(r, wrong, counted)
    \/ HitSubject(r) \/ HitNetwork(r) \/ JudgeSubject(r) \/ JudgeNetwork(r)
    \/ StoreFault(r)

\* Serving one request leaves the others where they are.
LEMMA ServesOne ==
    ASSUME TypeOK, NEW r \in Reqs, Serves(r), NEW q \in Reqs, q # r
    PROVE  req'[q] = req[q]
BY DEF TypeOK, Serves, Arrive, CheckNetwork, Reserve, Overrun, Abandon, Evaluate,
       HitSubject, HitNetwork, JudgeSubject, JudgeNetwork, StoreFault, Goto, Return

\* The step of a request keeps its own readings.
LEMMA ServedKept ==
    ASSUME TypeOK, ReadingsInv, Next, NEW r \in Reqs, Serves(r)
    PROVE  ReadingInv(r)'
<1>t. /\ req \in [Reqs -> Request] /\ req[r] \in Request /\ clock \in Nat
      /\ rows \in [Bucket -> Row] /\ faults \in Nat
      /\ ReadingsRecent(r) /\ ReservationInv(r) /\ ReadingsInWindow(r)
      /\ Key(r) \in Bucket /\ (HasNetwork(r) => NetKey(r) \in Bucket)
  BY KeyType, BoundAssumption DEF TypeOK, ReadingsInv
<1>l. Latency \in Nat
  BY BoundAssumption
<1>1. CASE Arrive(r)
  <2>1. CASE Return(r, "refused")
    BY <2>1, ReturnedHoldsNothing
  <2>2. CASE req' = [req EXCEPT ![r].now = clock, ![r].stage = "checkNetwork"]
    <3>1. /\ req'[r].now = clock /\ req'[r].stage = "checkNetwork" /\ clock' = clock
          /\ req'[r].held = FALSE
      BY <1>1, <1>t, <2>2 DEF Arrive, Request, ReservationInv
    <3> QED BY <3>1, <1>t, <1>l DEF ReadingInv, ReadingsRecent, ReservationInv,
                    ReadingsInWindow, Active, Settling, HasCounted
  <2> QED BY <1>1, <2>1, <2>2 DEF Arrive
<1>2. CASE CheckNetwork(r)
  <2>1. CASE Return(r, "refused")
    BY <2>1, ReturnedHoldsNothing
  <2>2. CASE ~Return(r, "refused")
    <3>1. /\ req'[r].now = clock /\ clock' = clock /\ req'[r].held = FALSE
          /\ req'[r].stage = IF req[r].factor \in CodeFactors
                             THEN "reserve" ELSE "evaluate"
          /\ req'[r].factor = req[r].factor
      BY <1>2, <1>t, <2>2 DEF CheckNetwork, Request, ReservationInv
    <3> QED BY <3>1, <1>t, <1>l DEF ReadingInv, ReadingsRecent, ReservationInv,
                    ReadingsInWindow, Active, Settling, HasCounted
  <2> QED BY <2>1, <2>2
<1>3. CASE Reserve(r)
  <2> DEFINE st == HitRow(rows[Key(r)], req[r].now, TRUE, TRUE)
  <2>1. CASE Return(r, "refused")
    BY <2>1, ReturnedHoldsNothing
  <2>2. CASE ~Return(r, "refused")
    <3>1. /\ rows'[Key(r)] = st /\ clock' = clock /\ req[r].stage = "reserve"
      BY <1>3, <1>t DEF Reserve
    <3>2. /\ req[r].now < st.windowStart + Window
      BY <1>t, HitNotPast DEF Request
    <3> HIDE DEF st
    <3>e. \/ req' = [req EXCEPT ![r].st = st, ![r].held = TRUE,
                                ![r].stage = "evaluate"]
          \/ req' = [req EXCEPT ![r].stage = "overrun"]
      BY <1>3, <2>2 DEF Reserve, Goto, st
    <3>3. /\ req'[r].now = req[r].now /\ Key(r)' = Key(r)
          /\ \/ req'[r].stage = "evaluate" /\ req'[r].held
             \/ req'[r].stage = "overrun" /\ req'[r].held = req[r].held
      BY <1>t, <3>e DEF Request, Key
    <3>4. NotPast(Key(r), req[r].now)'
      BY <3>1, <3>2, <3>3 DEF NotPast
    <3>5. ReadingsRecent(r)'
      BY <3>1, <3>3, <1>t DEF ReadingsRecent, Active, Settling
    <3>6. ReservationInv(r)'
      BY <3>1, <3>3, <1>t DEF ReservationInv, Settling
    <3>7. ReadingsInWindow(r)'
      BY <3>3, <3>4 DEF ReadingsInWindow
    <3> QED BY <3>5, <3>6, <3>7 DEF ReadingInv
  <2> QED BY <2>1, <2>2
<1>4. CASE Overrun(r) \/ Abandon(r)
  BY <1>4, ReturnedHoldsNothing DEF Overrun, Abandon
<1>5. ASSUME NEW wrong \in BOOLEAN, NEW counted \in BOOLEAN,
             Evaluate(r, wrong, counted)
      PROVE  ReadingInv(r)'
  <2>1. /\ clock' = clock /\ faults' = faults /\ req[r].stage = "evaluate"
        /\ ~counted => wrong /\ req[r].factor = WebAuthn
    BY <1>5 DEF Evaluate
  <2>2. /\ req'[r].counted = counted /\ req'[r].netNow = clock
        /\ req'[r].now = (IF req[r].held THEN req[r].now ELSE clock)
        /\ req'[r].stage = (IF req[r].held \/ ~counted
                            THEN "hitNetwork" ELSE "hitSubject")
        /\ req'[r].held = req[r].held /\ req'[r].factor = req[r].factor
        /\ req'[r].subject = req[r].subject
    <3>1. req'[r] = [req[r] EXCEPT
                       !.wrong = wrong, !.counted = counted, !.netNow = clock,
                       !.now = IF req[r].held THEN req[r].now ELSE clock,
                       !.stage = IF req[r].held \/ ~counted
                                 THEN "hitNetwork" ELSE "hitSubject"]
      BY <1>5, <1>t DEF Evaluate
    <3> QED BY <1>t, <3>1 DEF Request
  <2>3. ReadingsRecent(r)'
    BY <2>1, <2>2, <1>t, <1>l DEF ReadingsRecent, Active, Settling, Request
  <2>4. ReservationInv(r)'
    BY <2>1, <2>2, <1>t DEF ReservationInv, Settling
  <2>5. HasCounted(r)' => req[r].held
    BY <2>2 DEF HasCounted
  <2>6. req[r].held => NotPast(Key(r), req[r].now)'
    BY <2>2, CountedKept DEF HasCounted, Key
  <2>7. ReadingsInWindow(r)'
    BY <2>2, <2>5, <2>6 DEF ReadingsInWindow
  <2> QED BY <2>3, <2>4, <2>7 DEF ReadingInv
<1>6. CASE HitSubject(r)
  <2> DEFINE st == HitRow(rows[Key(r)], req[r].now, req[r].wrong, TRUE)
  <2>1. /\ rows'[Key(r)] = st /\ clock' = clock /\ faults' = faults
        /\ req[r].stage = "hitSubject"
    BY <1>6, <1>t DEF HitSubject
  <2>2. req[r].now < st.windowStart + Window
    BY <1>t, HitNotPast DEF Request
  <2> HIDE DEF st
  <2>3. /\ req'[r].now = req[r].now /\ req'[r].netNow = req[r].netNow
        /\ req'[r].stage = "hitNetwork" /\ req'[r].held = req[r].held
        /\ req'[r].factor = req[r].factor /\ req'[r].subject = req[r].subject
    BY <1>6, <1>t DEF HitSubject, Request, st
  <2>4. NotPast(Key(r), req[r].now)'
    BY <2>1, <2>2, <2>3 DEF NotPast, Key
  <2>5. ReadingsRecent(r)'
    BY <2>1, <2>3, <1>t DEF ReadingsRecent, Active, Settling
  <2>6. ReservationInv(r)'
    BY <2>1, <2>3, <1>t DEF ReservationInv, Settling
  <2>7. ReadingsInWindow(r)'
    BY <2>3, <2>4 DEF ReadingsInWindow
  <2> QED BY <2>5, <2>6, <2>7 DEF ReadingInv
<1>7. CASE HitNetwork(r)
  <2> DEFINE st == HitRow(rows[NetKey(r)], req[r].netNow, req[r].wrong, FALSE)
  <2>1. clock' = clock /\ faults' = faults /\ req[r].stage = "hitNetwork"
    BY <1>7 DEF HitNetwork
  <2>2. HasNetwork(r) => rows'[NetKey(r)] = st
    BY <1>7, <1>t DEF HitNetwork
  <2>3. HasNetwork(r) => req[r].netNow < st.windowStart + Window
    BY <1>t, HitNotPast DEF Request
  <2> HIDE DEF st
  <2>4. /\ req'[r].now = req[r].now /\ req'[r].netNow = req[r].netNow
        /\ req'[r].stage = (IF req[r].held \/ ~req[r].counted
                            THEN "judgeNetwork" ELSE "judgeSubject")
        /\ req'[r].held = req[r].held /\ req'[r].counted = req[r].counted
        /\ req'[r].factor = req[r].factor /\ req'[r].subject = req[r].subject
        /\ req'[r].network = req[r].network
    <3> DEFINE next == IF req[r].held \/ ~req[r].counted
                       THEN "judgeNetwork" ELSE "judgeSubject"
    <3>1. \/ req'[r] = [req[r] EXCEPT !.netSt = st, !.stage = next]
          \/ req'[r] = [req[r] EXCEPT !.stage = next]
      BY <1>7, <1>t DEF HitNetwork, Goto, st
    <3> QED BY <1>t, <3>1 DEF Request
  <2>5. ReadingsRecent(r)'
    BY <2>1, <2>4, <1>t DEF ReadingsRecent, Active, Settling
  <2>6. ReservationInv(r)'
    BY <2>1, <2>4, <1>t DEF ReservationInv, Settling
  <2>7. HasCounted(r)' => HasCounted(r)
    BY <2>1, <2>4 DEF HasCounted
  <2>8. HasCounted(r) => NotPast(Key(r), req[r].now)'
    BY <2>4, CountedKept DEF Key
  <2>9. HasNetwork(r)' => NotPast(NetKey(r), req[r].netNow)'
    BY <2>2, <2>3, <2>4 DEF HasNetwork, NetKey, NotPast
  <2>10. ReadingsInWindow(r)'
    BY <2>7, <2>8, <2>9 DEF ReadingsInWindow
  <2> QED BY <2>5, <2>6, <2>10 DEF ReadingInv
<1>8. CASE JudgeSubject(r) \/ JudgeNetwork(r)
  <2>1. CASE Return(r, "done")
    BY <2>1, ReturnedHoldsNothing
  <2>2. CASE ~Return(r, "done")
    <3>1. /\ clock' = clock /\ faults' = faults
          /\ \/ /\ req[r].stage = "judgeSubject" /\ ~req[r].held
                /\ Goto(r, "judgeNetwork")
             \/ /\ req[r].stage = "judgeNetwork" /\ req[r].held
                /\ Goto(r, "judgeSubject")
      BY <1>8, <2>2 DEF JudgeSubject, JudgeNetwork
    <3>2. /\ req'[r].now = req[r].now /\ req'[r].netNow = req[r].netNow
          /\ req'[r].stage = (IF req[r].held THEN "judgeSubject" ELSE "judgeNetwork")
          /\ req'[r].held = req[r].held /\ req'[r].counted = req[r].counted
          /\ req'[r].factor = req[r].factor /\ req'[r].subject = req[r].subject
          /\ req'[r].network = req[r].network
      BY <1>t, <3>1 DEF Goto, Request
    <3>3. ReadingsRecent(r)'
      BY <3>1, <3>2, <1>t DEF ReadingsRecent, Active, Settling
    <3>4. ReservationInv(r)'
      BY <3>1, <3>2, <1>t DEF ReservationInv, Settling
    <3>5. HasCounted(r)' => HasCounted(r)
      BY <3>1, <3>2 DEF HasCounted
    <3>6. HasCounted(r) => NotPast(Key(r), req[r].now)'
      BY <3>2, CountedKept DEF Key
    <3>7. (HasNetwork(r) /\ ~req[r].held) => NotPast(NetKey(r), req[r].netNow)'
      <4> SUFFICES ASSUME HasNetwork(r), ~req[r].held
                   PROVE  NotPast(NetKey(r), req[r].netNow)'
        OBVIOUS
      <4>1. Active(r) /\ Settling(r) /\ NotPast(NetKey(r), req[r].netNow)
        BY <3>1, <1>t DEF Active, Settling, ReadingsInWindow
      <4>2. /\ req[r].netNow \in Nat /\ req[r].netNow <= clock
            /\ Statement(NetKey(r))
        BY <1>t, <4>1, RecentReading, StepStatement
      <4> QED BY <1>t, <3>2, <4>1, <4>2, NotPastKept DEF NotPast, NetKey
    <3>8. ReadingsInWindow(r)'
      BY <3>2, <3>5, <3>6, <3>7 DEF ReadingsInWindow, HasNetwork
    <3> QED BY <3>3, <3>4, <3>8 DEF ReadingInv
  <2> QED BY <2>1, <2>2
<1>9. CASE StoreFault(r)
  <2>1. CASE Return(r, "done")
    BY <2>1, ReturnedHoldsNothing
  <2>2. CASE ~Return(r, "done") /\ req[r].stage = "idle"
    <3>1. /\ req' = [req EXCEPT ![r].now = clock, ![r].stage = "evaluate"]
          /\ clock' = clock /\ faults' = faults + 1
      BY <1>9, <2>2 DEF StoreFault, Settling
    <3>2. /\ req'[r].stage = "evaluate" /\ req'[r].now = clock
          /\ req'[r].held = FALSE
      BY <1>t, <2>2, <3>1 DEF Request, ReservationInv
    <3>3. ReadingsRecent(r)'
      BY <3>1, <3>2, <1>t, <1>l DEF ReadingsRecent, Settling
    <3>4. ReservationInv(r)'
      BY <3>1, <3>2, <1>t DEF ReservationInv, Settling
    <3>5. ReadingsInWindow(r)'
      BY <3>2 DEF ReadingsInWindow, HasCounted
    <3> QED BY <3>3, <3>4, <3>5 DEF ReadingInv
  <2>3. CASE ~Return(r, "done") /\ req[r].stage # "idle"
    <3>1. /\ req[r].stage \in {"checkNetwork", "reserve", "overrun"}
          /\ Goto(r, "evaluate") /\ clock' = clock /\ faults' = faults + 1
      BY <1>9, <2>3 DEF StoreFault
    <3>2. /\ req'[r].stage = "evaluate" /\ req'[r].now = req[r].now
          /\ req'[r].held = FALSE
      BY <1>t, <3>1 DEF Goto, Request, ReservationInv
    <3> QED BY <3>1, <3>2, <1>t DEF ReadingInv, ReadingsRecent, ReservationInv,
                    ReadingsInWindow, Active, Settling, HasCounted
  <2> QED BY <2>1, <2>2, <2>3
<1> QED BY <1>1, <1>2, <1>3, <1>4, <1>5, <1>6, <1>7, <1>8, <1>9 DEF Serves

\* Every step keeps the readings of all requests; time passes only while none grows
\* too old.
LEMMA NextReadings == TypeOK /\ ReadingsInv /\ [Next]_vars => ReadingsInv'
<1> SUFFICES ASSUME TypeOK, ReadingsInv, [Next]_vars, NEW q \in Reqs
             PROVE  ReadingInv(q)'
  BY DEF ReadingsInv, ReadingInv
<1>t. /\ req \in [Reqs -> Request] /\ req[q] \in Request /\ clock \in Nat
      /\ faults \in Nat /\ Latency \in Nat /\ ReadingInv(q)
  BY BoundAssumption DEF TypeOK, ReadingsInv, ReadingInv
<1>1. ASSUME NEW r \in Reqs, Serves(r) PROVE ReadingInv(q)'
  <2>1. Next
    BY <1>1 DEF Next, Serves
  <2>2. CASE q = r
    BY <1>1, <2>1, <2>2, ServedKept
  <2>3. CASE q # r
    <3>1. clock' = clock
      BY <1>1 DEF Serves, Arrive, CheckNetwork, Reserve, Overrun, Abandon, Evaluate,
         HitSubject, HitNetwork, JudgeSubject, JudgeNetwork, StoreFault
    <3>2. faults' = faults \/ faults' = faults + 1
      BY <1>1 DEF Serves, Arrive, CheckNetwork, Reserve, Overrun, Abandon, Evaluate,
         HitSubject, HitNetwork, JudgeSubject, JudgeNetwork, StoreFault
    <3>3. req'[q] = req[q]
      BY <1>1, <2>3, ServesOne
    <3> QED BY <1>t, <2>1, <3>1, <3>2, <3>3, BystanderKept
  <2> QED BY <2>2, <2>3
<1>2. ASSUME \/ Sweep
             \/ \E s \in Subjects : UnlockSweep(s) \/ UnlockBegin(s)
             \/ \E b \in SubjectBucket : UnlockDelete(b)
      PROVE  ReadingInv(q)'
  <2>1. Next /\ clock' = clock /\ faults' = faults /\ req' = req
    BY <1>2 DEF Next, Sweep, UnlockSweep, UnlockBegin, UnlockDelete
  <2> QED BY <2>1, BystanderKept
<1>3. ASSUME Tick PROVE ReadingInv(q)'
  <2>1. /\ clock' = clock + 1 /\ rows' = rows /\ req' = req /\ faults' = faults
        /\ Active(q) => clock - req[q].now < Latency
    BY <1>3 DEF Tick
  <2>2. ReadingsRecent(q)'
    BY <1>t, <2>1 DEF ReadingInv, ReadingsRecent, Active, Settling, Request
  <2>3. ReservationInv(q)' /\ ReadingsInWindow(q)'
    BY <1>t, <2>1 DEF ReadingInv, ReservationInv, ReadingsInWindow, HasCounted,
       NotPast, Key, NetKey, HasNetwork, Settling
  <2> QED BY <2>2, <2>3 DEF ReadingInv
<1>4. ASSUME UNCHANGED vars PROVE ReadingInv(q)'
  BY <1>t, <1>4 DEF vars, ReadingInv, ReadingsRecent, ReservationInv,
     ReadingsInWindow, HasCounted, NotPast, Key, NetKey, HasNetwork, Settling, Active
<1> QED BY <1>1, <1>2, <1>3, <1>4 DEF Next, Serves

\* A code bucket whose row a step leaves alone, without answering the request that
\* owes the lock, stays locked if it was over its budget.
LEMMA CodeUntouched ==
    ASSUME NEW b \in CodeBucket, CodeLocked(b), rows'[b] = rows[b],
           \A q \in Reqs : (req[q].stage = "overrun" /\ Key(q) = b)
                              => req'[q] = req[q]
    PROVE  CodeLocked(b)'
BY DEF CodeLocked, Key

\* A locked row answers for its budget, and so does one within it.
LEMMA RowAnswers ==
    ASSUME NEW b \in Bucket,
           rows'[b].blockedUntil > 0 \/ rows'[b] = NoRow
    PROVE  CodeLocked(b)' /\ (b \in NetworkBucket => NetworkLocked(b)')
<1>1. CASE rows'[b].blockedUntil > 0
  BY <1>1 DEF CodeLocked, NetworkLocked
<1>2. CASE rows'[b] = NoRow
  <2>1. rows'[b].failures = 0 /\ Limit(b) > 0
    BY <1>2, LimitAssumption DEF NoRow, Limit
  <2> QED BY <2>1, LimitAssumption DEF CodeLocked, NetworkLocked, Limit
<1> QED BY <1>1, <1>2

\* Block locks the row it is given.
LEMMA BlockLocks ==
    ASSUME NEW row \in Row, NEW now \in Nat, NEW at \in Nat
    PROVE  BlockRow(row, now + LockoutDuration, at).blockedUntil > 0
<1>1. now + LockoutDuration \in Nat /\ now + LockoutDuration > 0
  BY LimitAssumption, WindowAssumption
<1> QED BY <1>1, BlockRowType

\* What a verdict does to a row: it locks it, deletes it or leaves it alone, and it
\* touches no other.
LEMMA VerdictRow ==
    ASSUME TypeOK, NEW b \in Bucket, NEW now \in Nat, NEW verdict,
           ApplyVerdict(b, verdict, now)
    PROVE  /\ \A c \in Bucket \ {b} : rows'[c] = rows[c]
           /\ verdict = "lock" => rows'[b].blockedUntil > 0
           /\ verdict = "clear" => rows'[b] = NoRow
           /\ verdict \notin {"lock", "clear"} => rows'[b] = rows[b]
<1>1. rows \in [Bucket -> Row] /\ clock \in Nat
  BY DEF TypeOK
<1> QED BY <1>1, BlockLocks DEF ApplyVerdict

\* A network's row that a step leaves alone stays locked, or owed a lock, unless the
\* request that owes it is done with the network.
LEMMA NetworkUntouched ==
    ASSUME NEW b \in NetworkBucket, NetworkLocked(b), rows'[b] = rows[b],
           \A q \in Reqs : OwesNetworkLock(q, b) => OwesNetworkLock(q, b)'
    PROVE  NetworkLocked(b)'
BY DEF NetworkLocked

\* A request that a step does not serve owes what it owed.
LEMMA DebtStands ==
    ASSUME NEW q \in Reqs, NEW b, req'[q] = req[q], OwesNetworkLock(q, b)
    PROVE  OwesNetworkLock(q, b)'
BY DEF OwesNetworkLock, HasNetwork, NetKey

\* The two kinds of bucket have nothing in common.
LEMMA BucketsApart ==
    /\ CodeBucket \subseteq SubjectBucket
    /\ SubjectBucket \subseteq Bucket /\ NetworkBucket \subseteq Bucket
    /\ \A b \in SubjectBucket : b \notin NetworkBucket /\ Limit(b) = MaxFailuresPerSubject
    /\ \A b \in NetworkBucket : Limit(b) = MaxFailuresPerIP /\ LocksOut(b)
                                /\ ~OwnedByOneParty(b)
BY DEF CodeBucket, SubjectBucket, NetworkBucket, Bucket, CodeFactors, Limit, LocksOut,
       OwnedByOneParty

\* While the store answers, every step leaves an exhausted code budget locked or with
\* the request that will lock it.
LEMMA NextCodeLocked ==
    ASSUME LockoutInv, [Next]_vars, faults' = 0, NEW b \in CodeBucket
    PROVE  CodeLocked(b)'
<1>t. /\ TypeOK /\ ReadingsInv /\ rows \in [Bucket -> Row] /\ clock \in Nat
      /\ faults \in Nat /\ b \in SubjectBucket /\ b \in Bucket /\ b \notin NetworkBucket
      /\ Limit(b) = MaxFailuresPerSubject
  BY BucketsApart DEF LockoutInv, TypeOK
<1>1. CASE UNCHANGED faults
  <2>0. faults = 0 /\ CodeLocked(b)
    BY <1>1 DEF LockoutInv, LocksInv
  <2>1. ASSUME NEW r \in Reqs, Serves(r), rows'[b] = rows[b],
               ~(req[r].stage = "overrun" /\ Key(r) = b)
        PROVE  CodeLocked(b)'
    BY <1>t, <2>0, <2>1, ServesOne, CodeUntouched
  <2>2. ASSUME NEW r \in Reqs,
               Arrive(r) \/ CheckNetwork(r) \/ Abandon(r)
                 \/ \E wrong, counted \in BOOLEAN : Evaluate(r, wrong, counted)
        PROVE  CodeLocked(b)'
    BY <2>1, <2>2 DEF Serves, Arrive, CheckNetwork, Abandon, Evaluate
  <2>3. ASSUME NEW r \in Reqs, Reserve(r) PROVE CodeLocked(b)'
    <3> DEFINE st == HitRow(rows[Key(r)], req[r].now, TRUE, TRUE)
               verdict == JudgeReserved(Key(r), st, req[r].now)
    <3>1. Key(r) \in Bucket /\ req[r].now \in Nat /\ req[r].stage = "reserve"
      BY <1>t, <2>3, KeyType DEF Reserve, TypeOK, Request
    <3>2. CASE b # Key(r)
      <4>1. rows'[b] = rows[b]
        BY <1>t, <2>3, <3>1, <3>2 DEF Reserve
      <4> QED BY <2>1, <2>3, <3>1, <4>1 DEF Serves
    <3>3. CASE b = Key(r)
      <4>1. rows'[b] = st /\ st \in Row
        BY <1>t, <2>3, <3>1, <3>3, HitRowType DEF Reserve
      <4> HIDE DEF st
      <4>2. CASE verdict = "grant"
        <5>1. st.failures <= Limit(b)
          BY <3>3, <4>2 DEF JudgeReserved
        <5> QED BY <1>t, <4>1, <5>1, LimitAssumption DEF CodeLocked, Row, Limit
      <4>3. CASE verdict = "lock"
        <5>1. req' = [req EXCEPT ![r].stage = "overrun"]
          BY <2>3, <4>3 DEF Reserve, Goto, st
        <5>2. req'[r].stage = "overrun" /\ Key(r)' = Key(r)
          BY <1>t, <5>1 DEF TypeOK, Request, Key
        <5> QED BY <3>3, <5>2 DEF CodeLocked
      <4>4. CASE verdict \notin {"grant", "lock"}
        <5>1. Blocked(st, req[r].now)
          BY <4>4 DEF JudgeReserved
        <5> QED BY <3>1, <4>1, <5>1 DEF Blocked, CodeLocked, Row
      <4> QED BY <4>2, <4>3, <4>4
    <3> QED BY <3>2, <3>3
  <2>4. ASSUME NEW r \in Reqs, Overrun(r) PROVE CodeLocked(b)'
    <3>1. /\ Key(r) \in Bucket /\ req[r].now \in Nat
          /\ rows' = [rows EXCEPT ![Key(r)] =
                        BlockRow(rows[Key(r)], req[r].now + LockoutDuration, clock)]
      BY <1>t, <2>4, KeyType DEF Overrun, TypeOK, Request
    <3>2. CASE b = Key(r)
      <4>1. rows'[b].blockedUntil > 0
        BY <1>t, <3>1, <3>2, BlockLocks
      <4> QED BY <1>t, <4>1, RowAnswers
    <3>3. CASE b # Key(r)
      BY <1>t, <2>1, <2>4, <3>1, <3>3 DEF Serves
    <3> QED BY <3>2, <3>3
  <2>5. ASSUME NEW r \in Reqs, HitSubject(r) PROVE CodeLocked(b)'
    <3>1. req[r].stage = "hitSubject" /\ Key(r) \in Bucket
      BY <1>t, <2>5, KeyType DEF HitSubject
    <3>2. req[r].factor \notin CodeFactors
      BY <1>t, <2>0, <3>1 DEF ReadingsInv, ReservationInv, Settling
    <3>3. b # Key(r)
      BY <3>2 DEF CodeBucket, Key, SubjectKey
    <3>4. rows'[b] = rows[b]
      BY <1>t, <2>5, <3>1, <3>3 DEF HitSubject
    <3> QED BY <2>1, <2>5, <3>3, <3>4 DEF Serves
  <2>6. ASSUME NEW r \in Reqs, HitNetwork(r) PROVE CodeLocked(b)'
    <3>1. HasNetwork(r) => NetKey(r) # b
      BY <1>t, KeyType
    <3>2. rows'[b] = rows[b] /\ req[r].stage = "hitNetwork"
      BY <1>t, <2>6, <3>1 DEF HitNetwork
    <3> QED BY <2>1, <2>6, <3>2 DEF Serves
  <2>7. ASSUME NEW r \in Reqs, JudgeSubject(r) PROVE CodeLocked(b)'
    <3>1. /\ Key(r) \in Bucket /\ req[r].now \in Nat /\ req[r].stage = "judgeSubject"
          /\ ApplyVerdict(Key(r), SettleVerdict(r), req[r].now)
      BY <1>t, <2>7, KeyType DEF JudgeSubject, TypeOK, Request
    <3>2. \/ rows'[b] = rows[b] \/ rows'[b] = NoRow \/ rows'[b].blockedUntil > 0
      BY <1>t, <3>1, VerdictRow
    <3>3. CASE rows'[b] = rows[b]
      BY <2>1, <2>7, <3>1, <3>3 DEF Serves
    <3> QED BY <1>t, <3>2, <3>3, RowAnswers
  <2>8. ASSUME NEW r \in Reqs, JudgeNetwork(r) PROVE CodeLocked(b)'
    <3>1. req[r].stage = "judgeNetwork"
      BY <2>8 DEF JudgeNetwork
    <3>2. rows'[b] = rows[b]
      <4>1. CASE HasNetwork(r)
        <5>1. NetKey(r) \in Bucket /\ NetKey(r) # b /\ req[r].netNow \in Nat
          BY <1>t, <4>1, KeyType DEF TypeOK, Request
        <5> QED BY <1>t, <2>8, <4>1, <5>1, VerdictRow DEF JudgeNetwork
      <4>2. CASE ~HasNetwork(r)
        BY <2>8, <4>2 DEF JudgeNetwork
      <4> QED BY <4>1, <4>2
    <3> QED BY <2>1, <2>8, <3>1, <3>2 DEF Serves
  <2>9. ASSUME NEW r \in Reqs, StoreFault(r) PROVE CodeLocked(b)'
    BY <1>1, <1>t, <2>9 DEF StoreFault
  <2>10. ASSUME \/ Sweep \/ Tick \/ UNCHANGED vars
                \/ \E s \in Subjects : UnlockSweep(s) \/ UnlockBegin(s)
                \/ \E c \in SubjectBucket : UnlockDelete(c)
         PROVE  CodeLocked(b)'
    <3>1. req' = req /\ (rows'[b] = rows[b] \/ rows'[b] = NoRow)
      BY <1>t, <2>10 DEF Sweep, Tick, vars, UnlockSweep, UnlockBegin, UnlockDelete
    <3> QED BY <1>t, <2>0, <3>1, CodeUntouched, RowAnswers
  <2> QED BY <2>2, <2>3, <2>4, <2>5, <2>6, <2>7, <2>8, <2>9, <2>10 DEF Next
<1>2. CASE faults' # faults
  <2>1. \E r \in Reqs : StoreFault(r)
    <3>1. ASSUME NEW r \in Reqs, Serves(r), ~StoreFault(r) PROVE faults' = faults
      BY <3>1 DEF Serves, Arrive, CheckNetwork, Reserve, Overrun, Abandon, Evaluate,
         HitSubject, HitNetwork, JudgeSubject, JudgeNetwork
    <3>2. ASSUME \/ Sweep \/ Tick \/ UNCHANGED vars
                 \/ \E s \in Subjects : UnlockSweep(s) \/ UnlockBegin(s)
                 \/ \E c \in SubjectBucket : UnlockDelete(c)
          PROVE  faults' = faults
      BY <3>2 DEF Sweep, Tick, vars, UnlockSweep, UnlockBegin, UnlockDelete
    <3> QED BY <1>2, <3>1, <3>2 DEF Next, Serves
  <2> QED BY <1>t, <2>1 DEF StoreFault
<1> QED BY <1>1, <1>2

\* While the store answers, every step leaves a network over its budget locked, or a
\* request that owes the lock.
LEMMA NextNetworkLocked ==
    ASSUME LockoutInv, [Next]_vars, faults = 0, faults' = 0, NEW b \in NetworkBucket
    PROVE  NetworkLocked(b)'
<1>t. /\ TypeOK /\ ReadingsInv /\ rows \in [Bucket -> Row] /\ clock \in Nat
      /\ req \in [Reqs -> Request]
      /\ b \in Bucket /\ b \notin SubjectBucket /\ NetworkLocked(b)
      /\ Limit(b) = MaxFailuresPerIP /\ LocksOut(b) /\ ~OwnedByOneParty(b)
  BY BucketsApart DEF LockoutInv, LocksInv, TypeOK
<1>l. MaxFailuresPerIP \in Nat /\ MaxFailuresPerIP > 0
  BY LimitAssumption
<1>0. ASSUME NEW r \in Reqs, Serves(r), rows'[b] = rows[b],
             OwesNetworkLock(r, b) => OwesNetworkLock(r, b)'
      PROVE  NetworkLocked(b)'
  BY <1>t, <1>0, ServesOne, DebtStands, NetworkUntouched
<1>1. ASSUME NEW r \in Reqs,
             \/ Arrive(r) \/ CheckNetwork(r) \/ Reserve(r) \/ Overrun(r) \/ Abandon(r)
             \/ \E wrong, counted \in BOOLEAN : Evaluate(r, wrong, counted)
             \/ HitSubject(r)
      PROVE  NetworkLocked(b)'
  <2>1. Key(r) # b
    BY <1>t, KeyType
  <2>2. rows'[b] = rows[b]
    BY <1>1, <1>t, <2>1 DEF Arrive, CheckNetwork, Reserve, Overrun, Abandon, Evaluate,
       HitSubject
  <2>3. ~OwesNetworkLock(r, b)
    BY <1>1 DEF OwesNetworkLock, Arrive, CheckNetwork, Reserve, Overrun, Abandon,
       Evaluate, HitSubject
  <2> QED BY <1>0, <1>1, <2>2, <2>3 DEF Serves
<1>2. ASSUME NEW r \in Reqs, HitNetwork(r) PROVE NetworkLocked(b)'
  <2> DEFINE st == HitRow(rows[NetKey(r)], req[r].netNow, req[r].wrong, FALSE)
             next == IF req[r].held \/ ~req[r].counted
                     THEN "judgeNetwork" ELSE "judgeSubject"
  <2>1. req[r].stage = "hitNetwork" /\ ~OwesNetworkLock(r, b)
    BY <1>2 DEF HitNetwork, OwesNetworkLock
  <2>2. CASE ~(HasNetwork(r) /\ NetKey(r) = b)
    <3>1. rows'[b] = rows[b]
      BY <1>2, <1>t, <2>2 DEF HitNetwork
    <3> QED BY <1>0, <1>2, <2>1, <3>1 DEF Serves
  <2>3. CASE HasNetwork(r) /\ NetKey(r) = b
    <3>1. /\ req[r].netNow \in Nat /\ req[r].wrong \in BOOLEAN /\ rows[b] \in Row
      BY <1>t DEF TypeOK, Request
    <3>2. /\ rows'[b] = st /\ st \in Row /\ st.blockedUntil = rows[b].blockedUntil
          /\ st.failures = (IF Rolls(rows[b], req[r].netNow) THEN 0
                            ELSE rows[b].failures) + (IF req[r].wrong THEN 1 ELSE 0)
      <4>1. rows'[b] = st
        BY <1>2, <1>t, <2>3 DEF HitNetwork
      <4>2. st \in Row /\ st.blockedUntil = rows[b].blockedUntil
        <5>1. rows[NetKey(r)] \in Row /\ rows[NetKey(r)] = rows[b]
          BY <2>3, <3>1
        <5>2. st \in Row
          BY <3>1, <5>1, HitRowType
        <5>3. st.blockedUntil = rows[NetKey(r)].blockedUntil
          BY <3>1, <5>1, HitRowType
        <5> QED BY <5>1, <5>2, <5>3
      <4>3. st.failures = (IF Rolls(rows[b], req[r].netNow) THEN 0
                           ELSE rows[b].failures) + (IF req[r].wrong THEN 1 ELSE 0)
        BY <2>3, <3>1 DEF HitRow, Row
      <4> QED BY <4>1, <4>2, <4>3
    <3>3. req'[r] = [req[r] EXCEPT !.netSt = st, !.stage = next]
      BY <1>2, <1>t, <2>3 DEF HitNetwork
    <3> HIDE DEF st
    <3>4. CASE ~req[r].wrong
      <4>1. st.failures >= Limit(b) => rows[b].failures >= Limit(b)
        BY <1>t, <1>l, <3>1, <3>2, <3>4 DEF Row
      <4>2. \A q \in Reqs : OwesNetworkLock(q, b) => OwesNetworkLock(q, b)'
        BY <1>t, <1>2, <2>1, ServesOne, DebtStands DEF Serves
      <4> QED BY <1>t, <3>2, <4>1, <4>2 DEF NetworkLocked
    <3>5. CASE req[r].wrong
      <4>1. SUFFICES ASSUME st.failures >= Limit(b), ~(st.blockedUntil > 0)
                     PROVE  OwesNetworkLock(r, b)'
        BY <3>2 DEF NetworkLocked
      <4>2. /\ req'[r].netSt = st /\ req'[r].stage = next /\ req'[r].wrong
            /\ req'[r].held = req[r].held /\ req'[r].network = req[r].network
            /\ req'[r].netNow = req[r].netNow
        BY <1>t, <3>3, <3>5 DEF Request
      <4>3. ~Blocked(st, req[r].netNow)
        BY <3>1, <3>2, <4>1 DEF Blocked, Row
      <4> QED BY <2>3, <4>1, <4>2, <4>3 DEF OwesNetworkLock, HasNetwork, NetKey
    <3> QED BY <3>1, <3>4, <3>5
  <2> QED BY <2>2, <2>3
<1>3. ASSUME NEW r \in Reqs, JudgeSubject(r) PROVE NetworkLocked(b)'
  <2>1. /\ Key(r) \in Bucket /\ Key(r) # b /\ req[r].now \in Nat
        /\ ApplyVerdict(Key(r), SettleVerdict(r), req[r].now)
        /\ req[r].stage = "judgeSubject"
    BY <1>t, <1>3, KeyType DEF JudgeSubject, TypeOK, Request
  <2>2. rows'[b] = rows[b]
    BY <1>t, <2>1, VerdictRow
  <2>3. OwesNetworkLock(r, b) => OwesNetworkLock(r, b)'
    <3> SUFFICES ASSUME OwesNetworkLock(r, b) PROVE OwesNetworkLock(r, b)'
      OBVIOUS
    <3>1. req' = [req EXCEPT ![r].stage = "judgeNetwork"]
      BY <1>3, <2>1 DEF JudgeSubject, OwesNetworkLock, Goto
    <3>2. /\ req'[r].stage = "judgeNetwork" /\ req'[r].network = req[r].network
          /\ req'[r].wrong = req[r].wrong /\ req'[r].netSt = req[r].netSt
          /\ req'[r].netNow = req[r].netNow
      BY <1>t, <3>1 DEF Request
    <3> QED BY <3>2 DEF OwesNetworkLock, HasNetwork, NetKey
  <2> QED BY <1>0, <1>3, <2>2, <2>3 DEF Serves
<1>4. ASSUME NEW r \in Reqs, JudgeNetwork(r) PROVE NetworkLocked(b)'
  <2> DEFINE verdict == Judge(NetKey(r), req[r].netSt, req[r].netNow, req[r].wrong)
  <2>1. CASE ~(HasNetwork(r) /\ NetKey(r) = b)
    <3>1. rows'[b] = rows[b]
      <4>1. CASE HasNetwork(r)
        <5>1. NetKey(r) \in Bucket /\ NetKey(r) # b /\ req[r].netNow \in Nat
          BY <1>t, <2>1, <4>1, KeyType DEF TypeOK, Request
        <5> QED BY <1>t, <1>4, <4>1, <5>1, VerdictRow DEF JudgeNetwork
      <4>2. CASE ~HasNetwork(r)
        BY <1>4, <4>2 DEF JudgeNetwork
      <4> QED BY <4>1, <4>2
    <3>2. ~OwesNetworkLock(r, b)
      BY <2>1 DEF OwesNetworkLock
    <3> QED BY <1>0, <1>4, <3>1, <3>2 DEF Serves
  <2>2. CASE HasNetwork(r) /\ NetKey(r) = b
    <3>1. req[r].netNow \in Nat /\ ApplyVerdict(b, verdict, req[r].netNow)
      BY <1>t, <1>4, <2>2 DEF JudgeNetwork, TypeOK, Request
    <3>2. CASE verdict = "lock"
      <4>1. rows'[b].blockedUntil > 0
        BY <1>t, <3>1, <3>2, VerdictRow
      <4> QED BY <1>t, <4>1, RowAnswers
    <3>3. CASE verdict # "lock"
      <4>1. verdict # "clear"
        BY <1>t, <2>2 DEF Judge
      <4>2. rows'[b] = rows[b]
        BY <1>t, <3>1, <3>3, <4>1, VerdictRow
      <4>3. ~OwesNetworkLock(r, b)
        BY <1>t, <2>2, <3>3 DEF OwesNetworkLock, Judge
      <4> QED BY <1>0, <1>4, <4>2, <4>3 DEF Serves
    <3> QED BY <3>2, <3>3
  <2> QED BY <2>1, <2>2
<1>5. ASSUME NEW r \in Reqs, StoreFault(r) PROVE NetworkLocked(b)'
  BY <1>5 DEF StoreFault
<1>6. ASSUME \/ Sweep \/ Tick \/ UNCHANGED vars
             \/ \E s \in Subjects : UnlockSweep(s) \/ UnlockBegin(s)
             \/ \E c \in SubjectBucket : UnlockDelete(c)
      PROVE  NetworkLocked(b)'
  <2>1. req' = req /\ (rows'[b] = rows[b] \/ rows'[b] = NoRow)
    BY <1>t, <1>6 DEF Sweep, Tick, vars, UnlockSweep, UnlockBegin, UnlockDelete
  <2> QED BY <1>t, <2>1, DebtStands, NetworkUntouched, RowAnswers
<1> QED BY <1>1, <1>2, <1>3, <1>4, <1>5, <1>6 DEF Next

\* Nothing is counted and nobody is under way in the initial state.
LEMMA InitLockout == Init => LockoutInv
<1> SUFFICES ASSUME Init PROVE LockoutInv
  OBVIOUS
<1>1. TypeOK
  BY InitTypeOK
<1>2. ReadingsInv
  BY DEF Init, ReadingsInv, ReadingsRecent, ReservationInv, ReadingsInWindow,
         HasCounted, Active, Settling
<1>3. LocksInv
  <2>1. \A b \in Bucket : rows[b].failures = 0 /\ rows[b].blockedUntil = 0
    BY DEF Init, NoRow
  <2>2. \A b \in Bucket : Limit(b) \in Nat /\ Limit(b) > 0
    BY LimitAssumption DEF Limit
  <2> QED BY <2>1, <2>2, BucketsApart
          DEF LocksInv, LockoutInTime, CodeLocked, NetworkLocked
<1> QED BY <1>1, <1>2, <1>3 DEF LockoutInv

\* Every step keeps what locks a budget and what bounds a lockout.
LEMMA NextLockout == LockoutInv /\ [Next]_vars => LockoutInv'
<1> SUFFICES ASSUME LockoutInv, [Next]_vars PROVE LockoutInv'
  OBVIOUS
<1>1. TypeOK' /\ ReadingsInv'
  BY NextTypeOK, NextReadings DEF LockoutInv
<1>2. ASSUME NEW b \in Bucket PROVE LockoutInTime(b)'
  <2>1. TypeOK /\ ReadingsInv /\ LockoutInTime(b)
    BY DEF LockoutInv, LocksInv
  <2>2. Statement(b)
    <3>1. CASE Next
      BY <2>1, <3>1, StepStatement
    <3>2. CASE UNCHANGED vars
      BY <3>2 DEF vars, Statement
    <3> QED BY <3>1, <3>2
  <2> QED BY <2>1, <2>2, LockoutInTimeKept
<1>3. faults' = 0 => faults = 0
  <2>1. faults \in Nat
    BY BoundAssumption DEF LockoutInv, TypeOK
  <2>2. ASSUME NEW r \in Reqs, Serves(r) PROVE faults' = faults \/ faults' = faults + 1
    BY <2>2 DEF Serves, Arrive, CheckNetwork, Reserve, Overrun, Abandon, Evaluate,
       HitSubject, HitNetwork, JudgeSubject, JudgeNetwork, StoreFault
  <2>3. ASSUME \/ Sweep \/ Tick \/ UNCHANGED vars
               \/ \E s \in Subjects : UnlockSweep(s) \/ UnlockBegin(s)
               \/ \E c \in SubjectBucket : UnlockDelete(c)
        PROVE  faults' = faults
    BY <2>3 DEF Sweep, Tick, vars, UnlockSweep, UnlockBegin, UnlockDelete
  <2> QED BY <2>1, <2>2, <2>3 DEF Next, Serves
<1>4. LocksInv'
  BY <1>2, <1>3, NextCodeLocked, NextNetworkLocked DEF LocksInv
<1> QED BY <1>1, <1>4 DEF LockoutInv

\* While the store answers, a budget that has been passed is locked or about to be, and
\* in any case no lockout outlasts the window that earned it by more than its own
\* length, for any load (judgeReserved, settleAttempt, Record, Block).
THEOREM LockoutsStayRight == Spec => []LockoutsAreRight
<1>1. LockoutInv => LockoutsAreRight
  <2> SUFFICES ASSUME LockoutInv PROVE LockoutsAreRight
    OBVIOUS
  <2>1. LockoutBounded
    BY DEF LockoutInv, LocksInv, LockoutInTime, LockoutBounded
  <2>2. \A r \in Reqs, b \in NetworkBucket :
          OwesNetworkLock(r, b) => Settling(r) /\ HasNetwork(r) /\ NetKey(r) = b
    BY DEF OwesNetworkLock, Settling
  <2>3. OverBudgetIsLocked
    BY <2>2 DEF LockoutInv, LocksInv, CodeLocked, NetworkLocked, OverBudgetIsLocked
  <2> QED BY <2>1, <2>3 DEF LockoutsAreRight
<1> QED BY <1>1, InitLockout, NextLockout, PTL DEF Spec

-----------------------------------------------------------------------------
(***************************************************************************)
(* What is forgotten, and when.  A row is dated by readings of different   *)
(* ages, so its last attempt may be dated before its window: by no more    *)
(* than the age of a reading.                                              *)
(***************************************************************************)
DatesAgree(b) ==
    /\ rows[b].windowStart <= clock
    /\ rows[b].windowStart <= rows[b].updatedAt + Latency

DatedInv == LockoutInv /\ \A b \in Bucket : DatesAgree(b)

\* Every statement dates its row by the clock or by a recent reading.
LEMMA DatesKept ==
    ASSUME TypeOK, NEW b \in Bucket, Statement(b), DatesAgree(b), clock' \in Nat,
           clock' >= clock
    PROVE  DatesAgree(b)'
<1>1. rows[b] \in Row /\ clock \in Nat /\ Latency \in Nat
  BY BoundAssumption DEF TypeOK
<1>2. CASE rows'[b] = rows[b]
  BY <1>1, <1>2 DEF DatesAgree, Row
<1>3. CASE rows'[b] = NoRow
  BY <1>1, <1>3 DEF DatesAgree, NoRow
<1>4. ASSUME NEW now \in Nat, NEW failure \in BOOLEAN, NEW owner \in BOOLEAN,
             now <= clock, clock <= now + Latency,
             rows'[b] = HitRow(rows[b], now, failure, owner)
      PROVE  DatesAgree(b)'
  BY <1>1, <1>4 DEF HitRow, Row, DatesAgree
<1>5. ASSUME NEW now \in Nat,
             rows'[b] = BlockRow(rows[b], now + LockoutDuration, clock)
      PROVE  DatesAgree(b)'
  BY <1>1, <1>5 DEF BlockRow, Row, DatesAgree
<1> QED BY <1>2, <1>3, <1>4, <1>5 DEF Statement

\* No row carries a date in the initial state.
LEMMA InitDated == Init => DatedInv
BY InitLockout, BoundAssumption DEF Init, DatedInv, DatesAgree, NoRow

\* Every step keeps the dates of the rows in order.
LEMMA NextDated == DatedInv /\ [Next]_vars => DatedInv'
<1> SUFFICES ASSUME DatedInv, [Next]_vars PROVE DatedInv'
  OBVIOUS
<1>1. LockoutInv /\ LockoutInv' /\ TypeOK /\ ReadingsInv
  BY NextLockout DEF DatedInv, LockoutInv
<1>2. clock \in Nat /\ clock' \in Nat
  BY <1>1 DEF LockoutInv, TypeOK
<1>3. clock' >= clock
  <2>1. ASSUME NEW r \in Reqs, Serves(r) PROVE clock' = clock
    BY <2>1 DEF Serves, Arrive, CheckNetwork, Reserve, Overrun, Abandon, Evaluate,
       HitSubject, HitNetwork, JudgeSubject, JudgeNetwork, StoreFault
  <2>2. ASSUME \/ Sweep \/ UNCHANGED vars
               \/ \E s \in Subjects : UnlockSweep(s) \/ UnlockBegin(s)
               \/ \E c \in SubjectBucket : UnlockDelete(c)
        PROVE  clock' = clock
    BY <2>2 DEF Sweep, vars, UnlockSweep, UnlockBegin, UnlockDelete
  <2>3. ASSUME Tick PROVE clock' = clock + 1
    BY <2>3 DEF Tick
  <2> QED BY <1>2, <2>1, <2>2, <2>3 DEF Next, Serves
<1>4. ASSUME NEW b \in Bucket PROVE DatesAgree(b)'
  <2>1. DatesAgree(b)
    BY DEF DatedInv
  <2>2. Statement(b)
    <3>1. CASE Next
      BY <1>1, <3>1, StepStatement
    <3>2. CASE UNCHANGED vars
      BY <3>2 DEF vars, Statement
    <3> QED BY <3>1, <3>2
  <2> QED BY <1>1, <1>2, <1>3, <2>1, <2>2, DatesKept
<1> QED BY <1>1, <1>4 DEF DatedInv

\* A row is deleted by a right answer of the party it is about, by an administrator, or
\* by the janitor when it is stale.
LEMMA DeletionCause ==
    ASSUME TypeOK, ReadingsInv, Next, NEW b \in Bucket, rows'[b] = NoRow,
           rows[b] # NoRow
    PROVE  \/ b \in SubjectBucket /\ (Vindicates(b) \/ unlock' # unlock)
           \/ Stale(rows[b], clock - StaleAfter)
<1>t. /\ rows \in [Bucket -> Row] /\ clock \in Nat /\ ~NoRow.present
      /\ req \in [Reqs -> Request]
  BY DEF TypeOK, NoRow
<1>1. ASSUME NEW r \in Reqs,
             Arrive(r) \/ CheckNetwork(r) \/ Abandon(r) \/ StoreFault(r)
               \/ \E wrong, counted \in BOOLEAN : Evaluate(r, wrong, counted)
      PROVE  FALSE
  BY <1>1 DEF Arrive, CheckNetwork, Abandon, StoreFault, Evaluate
<1>2. ASSUME NEW r \in Reqs, Reserve(r) \/ HitSubject(r) \/ HitNetwork(r)
      PROVE  FALSE
  <2>1. \/ rows'[b] = rows[b]
        \/ rows'[b] = HitRow(rows[b], req[r].now, TRUE, TRUE)
        \/ rows'[b] = HitRow(rows[b], req[r].now, req[r].wrong, TRUE)
        \/ rows'[b] = HitRow(rows[b], req[r].netNow, req[r].wrong, FALSE)
    <3>1. CASE Reserve(r)
      BY <3>1, <1>t, KeyType DEF Reserve
    <3>2. CASE HitSubject(r)
      BY <3>2, <1>t, KeyType DEF HitSubject
    <3>3. CASE HitNetwork(r)
      BY <3>3, <1>t, KeyType DEF HitNetwork
    <3> QED BY <1>2, <3>1, <3>2, <3>3
  <2>2. \A now, failure, owner : HitRow(rows[b], now, failure, owner).present
    BY DEF HitRow
  <2> QED BY <1>t, <2>1, <2>2
<1>3. ASSUME NEW r \in Reqs, Overrun(r) PROVE FALSE
  <2>1. \/ rows'[b] = rows[b]
        \/ \E until : rows'[b] = BlockRow(rows[b], until, clock)
    BY <1>3, <1>t, KeyType DEF Overrun
  <2>2. \A until : BlockRow(rows[b], until, clock).present
    BY <1>t DEF BlockRow, Row
  <2> QED BY <1>t, <2>1, <2>2
<1>4. ASSUME NEW c \in Bucket, NEW now \in Nat, NEW verdict,
             ApplyVerdict(c, verdict, now)
      PROVE  verdict = "clear" /\ b = c
  <2>1. CASE verdict = "lock"
    <3>1. \/ rows'[b] = rows[b]
          \/ rows'[b] = BlockRow(rows[b], now + LockoutDuration, clock)
      <4>1. rows' = [rows EXCEPT ![c] =
                       BlockRow(rows[c], now + LockoutDuration, clock)]
        BY <1>4, <2>1 DEF ApplyVerdict
      <4> QED BY <1>t, <4>1
    <3>2. \A until : BlockRow(rows[b], until, clock).present
      BY <1>t DEF BlockRow, Row
    <3> QED BY <1>t, <3>1, <3>2
  <2>2. CASE verdict # "lock"
    BY <1>4, <1>t, <2>2 DEF ApplyVerdict
  <2> QED BY <2>1, <2>2
<1>5. ASSUME NEW r \in Reqs, JudgeSubject(r)
      PROVE  b \in SubjectBucket /\ Vindicates(b)
  <2>1. /\ Key(r) \in Bucket /\ Key(r) \in SubjectBucket /\ req[r].now \in Nat
        /\ req[r].wrong \in BOOLEAN
        /\ ApplyVerdict(Key(r), SettleVerdict(r), req[r].now)
        /\ req[r].stage = "judgeSubject"
    BY <1>5, KeyType DEF JudgeSubject, TypeOK, Request
  <2>2. SettleVerdict(r) = "clear" /\ b = Key(r)
    BY <1>4, <2>1
  <2>3. ~req[r].wrong
    BY <2>2 DEF SettleVerdict, Judge
  <2>4. req'[r].stage # "judgeSubject"
    BY <1>5, <1>t DEF JudgeSubject, Goto, Return, Request
  <2> QED BY <2>1, <2>2, <2>3, <2>4 DEF Vindicates
<1>6. ASSUME NEW r \in Reqs, JudgeNetwork(r) PROVE FALSE
  <2>1. CASE HasNetwork(r)
    <3> DEFINE verdict == Judge(NetKey(r), req[r].netSt, req[r].netNow, req[r].wrong)
    <3>1. /\ NetKey(r) \in Bucket /\ ~OwnedByOneParty(NetKey(r))
          /\ req[r].netNow \in Nat /\ ApplyVerdict(NetKey(r), verdict, req[r].netNow)
      BY <1>6, <2>1, KeyType, BucketsApart DEF JudgeNetwork, TypeOK, Request
    <3>2. verdict # "clear"
      BY <3>1 DEF Judge
    <3> HIDE DEF verdict
    <3> QED BY <1>4, <3>1, <3>2
  <2>2. CASE ~HasNetwork(r)
    BY <1>6, <2>2 DEF JudgeNetwork
  <2> QED BY <2>1, <2>2
<1>7. ASSUME NEW c \in SubjectBucket, UnlockDelete(c)
      PROVE  b \in SubjectBucket /\ unlock' # unlock
  BY <1>7, <1>t DEF UnlockDelete
<1>8. ASSUME NEW s \in Subjects, UnlockSweep(s)
      PROVE  b \in SubjectBucket /\ unlock' # unlock
  BY <1>8, <1>t DEF UnlockSweep
<1>9. ASSUME Sweep PROVE Stale(rows[b], clock - StaleAfter)
  BY <1>9, <1>t DEF Sweep
<1>10. ASSUME Tick \/ \E s \in Subjects : UnlockBegin(s) PROVE FALSE
  BY <1>10 DEF Tick, UnlockBegin
<1> QED BY <1>1, <1>2, <1>3, <1>5, <1>6, <1>7, <1>8, <1>9, <1>10 DEF Next

\* A statement other than a deletion leaves a lockout its end, or a whole lockout but
\* for the age of the reading it is stamped with.
LEMMA StatementServes ==
    ASSUME TypeOK, NEW b \in Bucket, Statement(b),
           rows'[b].blockedUntil < rows[b].blockedUntil
    PROVE  \/ rows'[b] = NoRow
           \/ rows'[b].blockedUntil + Latency >= clock + LockoutDuration
<1>1. rows[b] \in Row /\ clock \in Nat /\ Latency \in Nat /\ LockoutDuration \in Nat
  BY BoundAssumption, LimitAssumption DEF TypeOK
<1>2. ASSUME NEW now \in Nat, NEW failure \in BOOLEAN, NEW owner \in BOOLEAN,
             rows'[b] = HitRow(rows[b], now, failure, owner)
      PROVE  FALSE
  BY <1>1, <1>2 DEF HitRow, Row
<1>3. ASSUME NEW now \in Nat, clock <= now + Latency,
             rows'[b] = BlockRow(rows[b], now + LockoutDuration, clock)
      PROVE  rows'[b].blockedUntil + Latency >= clock + LockoutDuration
  <2>1. rows'[b].blockedUntil = now + LockoutDuration
    BY <1>1, <1>3 DEF BlockRow, Row
  <2> QED BY <1>1, <1>3, <2>1
<1>4. rows'[b] # rows[b]
  BY <1>1 DEF Row
<1> QED BY <1>2, <1>3, <1>4 DEF Statement

\* A statement other than a deletion lowers a failure count only by opening a window,
\* a whole window after the last.
LEMMA StatementCounts ==
    ASSUME TypeOK, NEW b \in Bucket, LockoutInTime(b), Statement(b),
           rows'[b].failures < rows[b].failures
    PROVE  \/ rows'[b] = NoRow
           \/ rows'[b].windowStart >= rows[b].windowStart + Window
<1>1. rows[b] \in Row /\ clock \in Nat /\ Window \in Nat
  BY WindowAssumption DEF TypeOK
<1>2. ASSUME NEW now \in Nat, NEW failure \in BOOLEAN, NEW owner \in BOOLEAN,
             rows'[b] = HitRow(rows[b], now, failure, owner)
      PROVE  rows'[b].windowStart >= rows[b].windowStart + Window
  BY <1>1, <1>2 DEF HitRow, Rolls, Row, LockoutInTime
<1>3. ASSUME NEW now \in Nat,
             rows'[b] = BlockRow(rows[b], now + LockoutDuration, clock)
      PROVE  FALSE
  BY <1>1, <1>3 DEF BlockRow, Row, LockoutInTime
<1>4. CASE rows'[b] = rows[b]
  BY <1>1, <1>4 DEF Row
<1> QED BY <1>2, <1>3, <1>4 DEF Statement

\* A row the janitor sweeps holds no lockout and counts in a window that is over.
LEMMA StaleIsOver ==
    ASSUME TypeOK, NEW b \in Bucket, DatesAgree(b), Stale(rows[b], clock - StaleAfter)
    PROVE  ~Blocked(rows[b], clock) /\ rows[b].windowStart + Window <= clock
<1>1. /\ rows[b] \in Row /\ clock \in Nat
  BY DEF TypeOK
<1> QED BY <1>1, BoundAssumption, WindowAssumption
        DEF Row, Stale, Blocked, DatesAgree

\* The end of a lockout is brought forward only by a right answer of the locked party,
\* by an administrator, or to a whole lockout from now less the age of a reading; and a
\* network's failures are forgotten only after a whole window, for any load (Hit, Block,
\* Fail, Succeed, DeleteStaleThrottles).
THEOREM NothingIsForgottenEarly == Spec => NothingForgottenEarly
<1>1. DatedInv /\ [Next]_vars =>
        [\A b \in Bucket :
           (Blocked(rows[b], clock) /\ rows'[b].blockedUntil < rows[b].blockedUntil)
             => \/ b \in SubjectBucket /\ (Vindicates(b) \/ unlock' # unlock)
                \/ rows'[b].blockedUntil + Latency >= clock + LockoutDuration]_vars
  <2> SUFFICES ASSUME DatedInv, Next, NEW b \in Bucket, Blocked(rows[b], clock),
                      rows'[b].blockedUntil < rows[b].blockedUntil
               PROVE  \/ b \in SubjectBucket /\ (Vindicates(b) \/ unlock' # unlock)
                      \/ rows'[b].blockedUntil + Latency >= clock + LockoutDuration
    OBVIOUS
  <2>1. TypeOK /\ ReadingsInv /\ DatesAgree(b) /\ Statement(b)
    BY StepStatement DEF DatedInv, LockoutInv
  <2>2. ~Stale(rows[b], clock - StaleAfter)
    BY <2>1, StaleIsOver
  <2>3. CASE rows'[b] = NoRow
    <3>1. rows[b] # NoRow
      BY <2>1, <2>3 DEF TypeOK, Row
    <3> QED BY <2>1, <2>2, <2>3, <3>1, DeletionCause
  <2>4. CASE rows'[b] # NoRow
    BY <2>1, <2>4, StatementServes
  <2> QED BY <2>3, <2>4
<1>2. DatedInv /\ [Next]_vars =>
        [\A b \in NetworkBucket :
           rows'[b].failures < rows[b].failures =>
             \/ rows'[b].windowStart >= rows[b].windowStart + Window
             \/ ~rows'[b].present /\ rows[b].windowStart + Window <= clock]_vars
  <2> SUFFICES ASSUME DatedInv, Next, NEW b \in NetworkBucket,
                      rows'[b].failures < rows[b].failures
               PROVE  \/ rows'[b].windowStart >= rows[b].windowStart + Window
                      \/ ~rows'[b].present /\ rows[b].windowStart + Window <= clock
    OBVIOUS
  <2>1. b \in Bucket /\ b \notin SubjectBucket
    BY BucketsApart
  <2>2. TypeOK /\ ReadingsInv /\ DatesAgree(b) /\ LockoutInTime(b) /\ Statement(b)
    BY <2>1, StepStatement DEF DatedInv, LockoutInv, LocksInv
  <2>3. CASE rows'[b] = NoRow
    <3>1. rows[b] # NoRow
      BY <2>3, <2>2, <2>1 DEF TypeOK, Row, NoRow
    <3>2. Stale(rows[b], clock - StaleAfter)
      BY <2>1, <2>2, <2>3, <3>1, DeletionCause
    <3> QED BY <2>1, <2>2, <2>3, <3>2, StaleIsOver DEF NoRow
  <2>4. CASE rows'[b] # NoRow
    BY <2>1, <2>2, <2>4, StatementCounts
  <2> QED BY <2>3, <2>4
<1>3. Spec => LockoutServed
  BY <1>1, InitDated, NextDated, PTL DEF Spec, LockoutServed
<1>4. Spec => NetworkCountKept
  BY <1>2, InitDated, NextDated, PTL DEF Spec, NetworkCountKept
<1> QED BY <1>3, <1>4 DEF NothingForgottenEarly

\* A reservation is granted only on a bucket that is not locked out at that instant,
\* although the request judges it at an earlier reading (Reserve, judgeReserved).
THEOREM NoGuessUnderLock == Spec => NoGuessWhileLocked
<1>1. LockoutInv /\ [Next]_vars =>
        [\A r \in Reqs :
           (req[r].stage = "reserve" /\ req'[r].stage = "evaluate" /\ req'[r].held)
             => ~Blocked(rows[Key(r)], clock)]_vars
  <2> SUFFICES ASSUME LockoutInv, Next, NEW r \in Reqs, req[r].stage = "reserve",
                      req'[r].stage = "evaluate", req'[r].held
               PROVE  ~Blocked(rows[Key(r)], clock)
    OBVIOUS
  <2>t. /\ TypeOK /\ ReadingsInv /\ req \in [Reqs -> Request] /\ req[r] \in Request
        /\ clock \in Nat /\ Key(r) \in Bucket /\ rows[Key(r)] \in Row
        /\ req[r].now \in Nat /\ ~req[r].held
    BY KeyType DEF LockoutInv, TypeOK, Request, ReadingsInv, ReservationInv
  <2>1. Reserve(r)
    <3>1. ASSUME NEW q \in Reqs, Serves(q) PROVE Reserve(r)
      <4>1. q = r
        BY <2>t, <3>1, ServesOne
      <4>2. ~StoreFault(r)
        BY <2>t DEF StoreFault, Goto, Return, Request
      <4> QED BY <3>1, <4>1, <4>2 DEF Serves, Arrive, CheckNetwork, Overrun, Abandon,
                 Evaluate, HitSubject, HitNetwork, JudgeSubject, JudgeNetwork
    <3>2. ASSUME \/ Sweep \/ Tick
                 \/ \E s \in Subjects : UnlockSweep(s) \/ UnlockBegin(s)
                 \/ \E c \in SubjectBucket : UnlockDelete(c)
          PROVE  FALSE
      <4>1. req' = req
        BY <3>2 DEF Sweep, Tick, UnlockSweep, UnlockBegin, UnlockDelete
      <4> QED BY <4>1
    <3> QED BY <3>1, <3>2 DEF Next, Serves
  <2> DEFINE st == HitRow(rows[Key(r)], req[r].now, TRUE, TRUE)
  <2>2. JudgeReserved(Key(r), st, req[r].now) = "grant"
    <3>1. \/ JudgeReserved(Key(r), st, req[r].now) = "grant"
          \/ Goto(r, "overrun") \/ Return(r, "refused")
      BY <2>1 DEF Reserve
    <3>2. ~Goto(r, "overrun") /\ ~Return(r, "refused")
      BY <2>t DEF Goto, Return, Request
    <3> QED BY <3>1, <3>2
  <2>3. ~Blocked(st, req[r].now)
    BY <2>2 DEF JudgeReserved
  <2>4. st.blockedUntil = rows[Key(r)].blockedUntil
    BY <2>t, HitRowType
  <2>5. req[r].now <= clock
    BY <2>t, RecentReading DEF Active
  <2> HIDE DEF st
  <2> QED BY <2>t, <2>3, <2>4, <2>5 DEF Blocked, Row
<1> QED BY <1>1, InitLockout, NextLockout, PTL DEF Spec, NoGuessWhileLocked
=============================================================================
