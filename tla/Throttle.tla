------------------------------ MODULE Throttle ------------------------------
(***************************************************************************)
(* The limiter of internal/throttle as the authentication routes use it    *)
(* (internal/api/server.go).  Each request is a process; a step is one     *)
(* call to the store, so the requests of a burst interleave between the    *)
(* calls.  A route that compares a guessable secret (factor in             *)
(* CodeFactors) reserves its attempt before the comparison and settles it  *)
(* afterwards; a passkey route checks first and records afterwards.        *)
(*                                                                         *)
(* A reading of the clock is taken when the code takes it and used by      *)
(* later steps.  Latency bounds how old a reading may be when it is used;  *)
(* it stands for the service's deadlines, which are seconds while the      *)
(* window is minutes.                                                      *)
(***************************************************************************)
EXTENDS ThrottleStore, FiniteSets

CONSTANTS
    Reqs,                   \* requests, each served once
    Subjects, Networks,
    Factors,                \* factors in use
    MaxFailuresPerSubject,
    MaxFailuresPerIP,
    LockoutDuration,
    StaleAfter,             \* age at which the janitor sweeps a row
    Latency,                \* oldest clock reading a handler still uses
    MaxTime,                \* bound: last instant of a behaviour
    MaxFaults,              \* bound: store calls that fail
    MaxUnlocks              \* bound: administrative unlocks

\* What Config.validateThrottle enforces.
ASSUME LimitAssumption ==
    /\ MaxFailuresPerSubject \in Nat \ {0}
    /\ MaxFailuresPerIP \in Nat /\ MaxFailuresPerIP >= MaxFailuresPerSubject
    /\ LockoutDuration \in Nat /\ LockoutDuration >= Window

\* The janitor keeps a row for four windows; what matters is that a row it sweeps is
\* older than a window although its dates come from readings of different ages.
ASSUME BoundAssumption ==
    /\ StaleAfter \in Nat /\ StaleAfter >= Window
    /\ StaleAfter + 1 >= Window + Latency
    /\ Latency \in Nat /\ Latency < Window
    /\ MaxTime \in Nat /\ MaxFaults \in Nat /\ MaxUnlocks \in Nat

ASSUME ReqsAssumption == IsFiniteSet(Reqs)

WebAuthn == "webauthn"

NoNetwork == "none"   \* X-End-User-IP was not sent

\* Factors whose routes compare a guessable secret.
CodeFactors == Factors \ {WebAuthn}

SubjectBucket == {"subject"} \X Subjects \X Factors

NetworkBucket == {"ip"} \X Networks \X {WebAuthn}

Bucket == SubjectBucket \cup NetworkBucket

\* BucketKey: the factor separates the per-subject buckets only.
SubjectKey(s, f) == <<"subject", s, f>>

NetworkKey(n) == <<"ip", n, WebAuthn>>

CodeBucket == {"subject"} \X Subjects \X CodeFactors

VARIABLES
    clock,
    rows,     \* the throttle_buckets table
    req,      \* the requests, by process
    unlock,   \* the administrative unlock in progress: its store calls to come
    faults,   \* store faults so far
    unlocks,  \* unlocks so far
    granted   \* history: reservations granted in the current window of a bucket

vars == <<clock, rows, req, unlock, faults, unlocks, granted>>

-----------------------------------------------------------------------------
(* The limits.                                                             *)

Limit(b) == IF b[1] = "subject" THEN MaxFailuresPerSubject ELSE MaxFailuresPerIP

\* Mutant of OwnedByOneParty: every bucket is cleared by a right answer.
OwnedByAnybody(b) == TRUE

OwnedByOneParty(b) == b[1] = "subject"

\* Every bucket locks out except the subject's passkey bucket.
LocksOut(b) == ~(b[1] = "subject" /\ b[3] = WebAuthn)

\* judge, as a verdict on the bucket an attempt left behind.  "blocked" and
\* "advisory" are reported and change nothing.
Judge(b, st, now, failure) ==
    CASE Blocked(st, now)                                           -> "blocked"
      [] ~Blocked(st, now) /\ failure /\ st.failures >= Limit(b)    ->
             IF LocksOut(b) THEN "lock" ELSE "advisory"
      [] ~Blocked(st, now) /\ ~failure /\ OwnedByOneParty(b)
                           /\ st.failures > 0                       -> "clear"
      [] OTHER                                                      -> "allow"

\* Mutants of JudgeReserved: one reservation too many; the lockout is not looked
\* at; the overrun is refused but not locked.
JudgeReservedOneMore(b, st, now) ==
    CASE Blocked(st, now)                                  -> "blocked"
      [] ~Blocked(st, now) /\ st.failures <= Limit(b) + 1  -> "grant"
      [] OTHER                                             -> "lock"

JudgeReservedUnblocked(b, st, now) ==
    IF st.failures <= Limit(b) THEN "grant" ELSE "lock"

JudgeReservedNoLock(b, st, now) ==
    IF ~Blocked(st, now) /\ st.failures <= Limit(b) THEN "grant" ELSE "blocked"

\* judgeReserved.  Strict where judge is not: the attempt handed the last count
\* of the budget is evaluated.
JudgeReserved(b, st, now) ==
    CASE Blocked(st, now)                                  -> "blocked"
      [] ~Blocked(st, now) /\ st.failures <= Limit(b)      -> "grant"
      [] OTHER                                             -> "lock"

-----------------------------------------------------------------------------
(* The requests.                                                           *)

Stage == {"idle", "checkNetwork", "reserve", "overrun", "evaluate",
          "hitSubject", "hitNetwork", "judgeSubject", "judgeNetwork",
          "refused", "done"}

\* The stages in which a handler runs and holds a clock reading.
Active(r) == req[r].stage \notin {"idle", "refused", "done"}

Settling(r) == req[r].stage \in
    {"hitSubject", "hitNetwork", "judgeSubject", "judgeNetwork"}

Request ==
    [stage : Stage, subject : Subjects, network : Networks \cup {NoNetwork},
     factor : Factors,
     now     : Nat,      \* the reading the subject's bucket is judged at
     netNow  : Nat,      \* the reading Record took
     held    : BOOLEAN,  \* a reservation is held
     wrong   : BOOLEAN,  \* the outcome of the evaluation
     counted : BOOLEAN,  \* Record also counts in the subject's bucket
     st      : Row,      \* the subject's bucket as Hit returned it
     netSt   : Row]      \* the network's bucket as Hit returned it

Key(r) == SubjectKey(req[r].subject, req[r].factor)

HasNetwork(r) == req[r].network # NoNetwork

NetKey(r) == NetworkKey(req[r].network)

Goto(r, stage) == req' = [req EXCEPT ![r].stage = stage]

\* The handler returns and its locals are gone.
Return(r, stage) ==
    req' = [req EXCEPT ![r].stage = stage, ![r].now = 0, ![r].netNow = 0,
                       ![r].held = FALSE, ![r].st = NoRow, ![r].netSt = NoRow]

Init ==
    /\ clock = 1
    /\ rows = [b \in Bucket |-> NoRow]
    /\ req \in [Reqs -> {[stage |-> "idle", subject |-> s, network |-> n,
                          factor |-> f, now |-> 0, netNow |-> 0, held |-> FALSE,
                          wrong |-> FALSE, counted |-> FALSE, st |-> NoRow,
                          netSt |-> NoRow] :
                            s \in Subjects, n \in Networks \cup {NoNetwork},
                            f \in Factors}]
    /\ unlock = {}
    /\ faults = 0
    /\ unlocks = 0
    /\ granted = [b \in Bucket |-> {}]

\* Check, first dimension: the clock is read, then the subject's bucket.
Arrive(r) ==
    /\ req[r].stage = "idle"
    /\ \/ /\ Blocked(rows[Key(r)], clock)
          /\ Return(r, "refused")
       \/ /\ ~Blocked(rows[Key(r)], clock)
          /\ req' = [req EXCEPT ![r].now = clock, ![r].stage = "checkNetwork"]
    /\ UNCHANGED <<clock, rows, unlock, faults, unlocks, granted>>

\* Check, second dimension.  A code route goes on to Reserve, which reads the
\* clock again; a passkey route runs its ceremony.
CheckNetwork(r) ==
    /\ req[r].stage = "checkNetwork"
    /\ \/ /\ HasNetwork(r) /\ Blocked(rows[NetKey(r)], req[r].now)
          /\ Return(r, "refused")
       \/ /\ ~(HasNetwork(r) /\ Blocked(rows[NetKey(r)], req[r].now))
          /\ req' = [req EXCEPT
                        ![r].stage = IF req[r].factor \in CodeFactors
                                     THEN "reserve" ELSE "evaluate",
                        ![r].now   = clock]
    /\ UNCHANGED <<clock, rows, unlock, faults, unlocks, granted>>

\* The reservations granted in the window the bucket is counting, after a Hit.
GrantedAfterHit(b, now) == IF Rolls(rows[b], now) THEN {} ELSE granted[b]

\* Reserve: the attempt is counted as a failure and judged on what Hit returned.
Reserve(r) ==
    LET b  == Key(r)
        st == HitRow(rows[b], req[r].now, TRUE, TRUE)
        verdict == JudgeReserved(b, st, req[r].now)
    IN  /\ req[r].stage = "reserve"
        /\ rows' = [rows EXCEPT ![b] = st]
        /\ \/ /\ verdict = "grant"
              /\ req' = [req EXCEPT ![r].st = st, ![r].held = TRUE,
                                    ![r].stage = "evaluate"]
           \/ /\ verdict = "lock"
              /\ Goto(r, "overrun")
           \/ /\ verdict = "blocked"
              /\ Return(r, "refused")
        /\ granted' = [granted EXCEPT ![b] =
                         GrantedAfterHit(b, req[r].now)
                           \cup (IF verdict = "grant" THEN {r} ELSE {})]
        /\ UNCHANGED <<clock, unlock, faults, unlocks>>

\* The reservation past the budget blocks the bucket itself and is refused.
Overrun(r) ==
    /\ req[r].stage = "overrun"
    /\ rows' = [rows EXCEPT ![Key(r)] =
                  BlockRow(@, req[r].now + LockoutDuration, clock)]
    /\ Return(r, "refused")
    /\ UNCHANGED <<clock, unlock, faults, unlocks, granted>>

\* The secret is compared, or the ceremony verified.  A passkey completion that
\* never consumed a challenge is counted against the network only.
Evaluate(r, wrong, counted) ==
    /\ req[r].stage = "evaluate"
    /\ ~counted => (wrong /\ req[r].factor = WebAuthn)
    /\ req' = [req EXCEPT
                 ![r].wrong   = wrong,
                 ![r].counted = counted,
                 ![r].netNow  = clock,
                 ![r].now     = IF req[r].held THEN req[r].now ELSE clock,
                 ![r].stage   = IF req[r].held \/ ~counted
                                THEN "hitNetwork" ELSE "hitSubject"]
    /\ UNCHANGED <<clock, rows, unlock, faults, unlocks, granted>>

\* A fault of the service during the evaluation: nothing is settled and the
\* reservation stays counted.
Abandon(r) ==
    /\ req[r].stage = "evaluate"
    /\ Return(r, "done")
    /\ UNCHANGED <<clock, rows, unlock, faults, unlocks, granted>>

\* Record counts the subject's dimension first.
HitSubject(r) ==
    LET b  == Key(r)
        st == HitRow(rows[b], req[r].now, req[r].wrong, TRUE)
    IN  /\ req[r].stage = "hitSubject"
        /\ rows' = [rows EXCEPT ![b] = st]
        /\ req' = [req EXCEPT ![r].st = st, ![r].stage = "hitNetwork"]
        /\ granted' = [granted EXCEPT ![b] = GrantedAfterHit(b, req[r].now)]
        /\ UNCHANGED <<clock, unlock, faults, unlocks>>

\* Record counts the network; a request that declared none has no such bucket.
\* A held reservation judges its bucket last, Record judges the subject first.
HitNetwork(r) ==
    LET st == HitRow(rows[NetKey(r)], req[r].netNow, req[r].wrong, FALSE)
        next == IF req[r].held \/ ~req[r].counted
                THEN "judgeNetwork" ELSE "judgeSubject"
    IN  /\ req[r].stage = "hitNetwork"
        /\ \/ /\ HasNetwork(r)
              /\ rows' = [rows EXCEPT ![NetKey(r)] = st]
              /\ req' = [req EXCEPT ![r].netSt = st, ![r].stage = next]
           \/ /\ ~HasNetwork(r)
              /\ Goto(r, next)
              /\ UNCHANGED rows
        /\ UNCHANGED <<clock, unlock, faults, unlocks, granted>>

\* What a verdict does to the bucket it is about.
ApplyVerdict(b, verdict, now) ==
    /\ rows' = CASE verdict = "lock" ->
                      [rows EXCEPT ![b] = BlockRow(@, now + LockoutDuration, clock)]
                 [] verdict = "clear" -> [rows EXCEPT ![b] = NoRow]
                 [] OTHER -> rows
    /\ granted' = IF verdict = "clear" THEN [granted EXCEPT ![b] = {}] ELSE granted

\* A reservation that turned out right clears its bucket whatever it holds.
SettleVerdict(r) ==
    IF req[r].held /\ ~req[r].wrong THEN "clear"
    ELSE Judge(Key(r), req[r].st, req[r].now, req[r].wrong)

\* Fail and Succeed on the held bucket, or Record's judgement of the subject's.
JudgeSubject(r) ==
    /\ req[r].stage = "judgeSubject"
    /\ ApplyVerdict(Key(r), SettleVerdict(r), req[r].now)
    /\ \/ req[r].held /\ Return(r, "done")
       \/ ~req[r].held /\ Goto(r, "judgeNetwork")
    /\ UNCHANGED <<clock, unlock, faults, unlocks>>

JudgeNetwork(r) ==
    /\ req[r].stage = "judgeNetwork"
    /\ \/ /\ HasNetwork(r)
          /\ ApplyVerdict(NetKey(r),
                 Judge(NetKey(r), req[r].netSt, req[r].netNow, req[r].wrong),
                 req[r].netNow)
       \/ /\ ~HasNetwork(r)
          /\ UNCHANGED <<rows, granted>>
    /\ \/ req[r].held /\ Goto(r, "judgeSubject")
       \/ ~req[r].held /\ Return(r, "done")
    /\ UNCHANGED <<clock, unlock, faults, unlocks>>

\* A store call fails.  Before the evaluation, Check's first read included, the
\* limiter fails open and the attempt is evaluated without a reservation; while
\* settling, the rest of the settlement is lost.
StoreFault(r) ==
    /\ faults < MaxFaults
    /\ \/ /\ req[r].stage = "idle"
          /\ req' = [req EXCEPT ![r].now = clock, ![r].stage = "evaluate"]
       \/ /\ req[r].stage \in {"checkNetwork", "reserve", "overrun"}
          /\ Goto(r, "evaluate")
       \/ /\ Settling(r)
          /\ Return(r, "done")
    /\ faults' = faults + 1
    /\ UNCHANGED <<clock, rows, unlock, unlocks, granted>>

-----------------------------------------------------------------------------
(* The administrator, the janitor and time.                                *)

\* ResetSubject: one delete per factor, then a sweep of every row the store
\* attributes to the subject.
SweepCall(s) == <<"sweep", s, WebAuthn>>

UnlockBegin(s) ==
    /\ unlocks < MaxUnlocks /\ unlock = {}
    /\ unlock' = {SubjectKey(s, f) : f \in Factors} \cup {SweepCall(s)}
    /\ unlocks' = unlocks + 1
    /\ UNCHANGED <<clock, rows, req, faults, granted>>

UnlockDelete(b) ==
    /\ b \in unlock
    /\ rows' = [rows EXCEPT ![b] = NoRow]
    /\ granted' = [granted EXCEPT ![b] = {}]
    /\ unlock' = unlock \ {b}
    /\ UNCHANGED <<clock, req, faults, unlocks>>

UnlockSweep(s) ==
    LET swept == {b \in SubjectBucket : b[2] = s /\ rows[b].owned}
    IN  /\ unlock = {SweepCall(s)}
        /\ rows' = [b \in Bucket |-> IF b \in swept THEN NoRow ELSE rows[b]]
        /\ granted' = [b \in Bucket |-> IF b \in swept THEN {} ELSE granted[b]]
        /\ unlock' = {}
        /\ UNCHANGED <<clock, req, faults, unlocks>>

\* DeleteStaleThrottles with the janitor's cutoff.
Sweep ==
    LET swept == {b \in Bucket : Stale(rows[b], clock - StaleAfter)}
    IN  /\ swept # {}
        /\ rows' = [b \in Bucket |-> IF b \in swept THEN NoRow ELSE rows[b]]
        /\ granted' = [b \in Bucket |-> IF b \in swept THEN {} ELSE granted[b]]
        /\ UNCHANGED <<clock, req, unlock, faults, unlocks>>

Tick ==
    /\ clock < MaxTime
    /\ \A r \in Reqs : Active(r) => clock - req[r].now < Latency
    /\ clock' = clock + 1
    /\ UNCHANGED <<rows, req, unlock, faults, unlocks, granted>>

Next ==
    \/ \E r \in Reqs : \/ Arrive(r) \/ CheckNetwork(r) \/ Reserve(r)
                       \/ Overrun(r) \/ Abandon(r)
                       \/ \E wrong, counted \in BOOLEAN : Evaluate(r, wrong, counted)
                       \/ HitSubject(r) \/ HitNetwork(r)
                       \/ JudgeSubject(r) \/ JudgeNetwork(r)
                       \/ StoreFault(r)
    \/ \E s \in Subjects : UnlockBegin(s) \/ UnlockSweep(s)
    \/ \E b \in SubjectBucket : UnlockDelete(b)
    \/ Sweep
    \/ Tick

Spec == Init /\ [][Next]_vars

-----------------------------------------------------------------------------
(* Properties.                                                             *)

\* Every variable keeps its type.
TypeOK ==
    /\ clock \in Nat
    /\ rows \in [Bucket -> Row]
    /\ req \in [Reqs -> Request]
    /\ unlock \subseteq SubjectBucket \cup {SweepCall(s) : s \in Subjects}
    /\ faults \in 0..MaxFaults
    /\ unlocks \in 0..MaxUnlocks
    /\ granted \in [Bucket -> SUBSET Reqs]

\* However many requests run at once, no more than MaxFailuresPerSubject guesses
\* at one factor of one subject are evaluated on a reservation in one counting
\* window of the bucket (Reserve: a parallel burst gets consecutive counts).
GuessBudget ==
    \A b \in CodeBucket : Cardinality(granted[b]) <= MaxFailuresPerSubject

\* No reservation is granted while the bucket is locked out, even when the lock
\* landed after the request passed Check and its own Hit rolled the window.
NoGuessWhileLocked ==
    [][\A r \in Reqs :
         (req[r].stage = "reserve" /\ req'[r].stage = "evaluate" /\ req'[r].held)
           => ~Blocked(rows[Key(r)], clock)]_vars

\* The step is a right answer settling on bucket b.
Vindicates(b) ==
    \E r \in Reqs : /\ req[r].stage = "judgeSubject" /\ ~req[r].wrong
                     /\ req'[r].stage # "judgeSubject" /\ Key(r) = b

\* The end of a lockout in force is brought forward only by a right answer of the
\* locked party, by an administrator, or by a wrong guess that settles late and stamps
\* the lockout with its own, older reading: that one leaves a full lockout from now but
\* for the age of its reading.  A window roll or the janitor never does (Block, Hit,
\* Fail, DeleteStaleThrottles).
LockoutServed ==
    [][\A b \in Bucket :
         (Blocked(rows[b], clock) /\ rows'[b].blockedUntil < rows[b].blockedUntil)
           => \/ b \in SubjectBucket /\ (Vindicates(b) \/ unlock' # unlock)
              \/ rows'[b].blockedUntil + Latency >= clock + LockoutDuration]_vars

\* "How long a tripped failure bucket refuses attempts" (docs/CONFIGURATION.md,
\* throttle.lockout_duration): but for a right answer or an administrator, the end of a
\* lockout is never brought forward.
LockoutNotCut ==
    [][\A b \in Bucket :
         (Blocked(rows[b], clock) /\ rows'[b].blockedUntil < rows[b].blockedUntil)
           => b \in SubjectBucket /\ (Vindicates(b) \/ unlock' # unlock)]_vars

\* No amount of requests keeps a bucket locked more than one lockout past the
\* window that earned it: attempts made during a lockout do not extend it.
LockoutBounded ==
    \A b \in Bucket :
        rows[b].blockedUntil > 0 =>
            rows[b].blockedUntil < rows[b].windowStart + Window + LockoutDuration

\* While the store answers, a budget that has been passed is locked, or the
\* request that passed it is about to lock it; an abandoned evaluation does not
\* leave the bucket open.
OverBudgetIsLocked ==
    faults = 0 =>
      /\ \A b \in CodeBucket :
           rows[b].failures > Limit(b) =>
             \/ rows[b].blockedUntil > 0
             \/ \E r \in Reqs : req[r].stage = "overrun" /\ Key(r) = b
      /\ \A b \in NetworkBucket :
           rows[b].failures >= Limit(b) =>
             \/ rows[b].blockedUntil > 0
             \/ \E r \in Reqs : Settling(r) /\ HasNetwork(r) /\ NetKey(r) = b

\* A budget that has been passed costs one lockout, of its own length (judgeReserved,
\* settleAttempt, Block).
LockoutsAreRight == OverBudgetIsLocked /\ LockoutBounded

\* The failures counted against a network are forgotten only after a whole
\* window: somebody's right answer never wipes them.
NetworkCountKept ==
    [][\A b \in NetworkBucket :
         rows'[b].failures < rows[b].failures =>
           \/ rows'[b].windowStart >= rows[b].windowStart + Window
           \/ ~rows'[b].present /\ rows[b].windowStart + Window <= clock]_vars

\* What an attacker has run up is not forgotten before its time, but for the age of a
\* reading: neither a lockout nor the failures of a network (Block, Hit's roll,
\* DeleteStaleThrottles, Succeed).
NothingForgottenEarly == LockoutServed /\ NetworkCountKept

\* The first attempt after a lockout is not refused with a fresh lockout before
\* anything has been evaluated (the message of validateThrottle gives this as the
\* reason for lockout_duration >= window).
LockoutNotReapplied ==
    [][\A r \in Reqs :
         (req[r].stage = "reserve" /\ req'[r].stage = "overrun") =>
           ~(/\ rows[Key(r)].blockedUntil > 0
             /\ ~Blocked(rows[Key(r)], req[r].now))]_vars
=============================================================================
