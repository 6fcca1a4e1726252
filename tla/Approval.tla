------------------------------ MODULE Approval ------------------------------
(***************************************************************************)
(* Dual approval: queueing a sensitive operation, deciding it, redeeming   *)
(* the approval, and the janitor's expiry (approvalGate, redeemApproval    *)
(* and decideApproval of internal/api/admin.go over                        *)
(* internal/store/sqlite/approval.go), with the self-service rotation that *)
(* gives one administrator two live tokens.                                *)
(*                                                                         *)
(* Each request is a process that authenticates with a token and runs one  *)
(* handler; a step is a store call.  An approval, or a successor token, is *)
(* named by the request that created it.  An operation with its payload is *)
(* a member of Operations: a redemption is compared with what was approved *)
(* as a document, so equal documents are equal members.                    *)
(***************************************************************************)
EXTENDS TokenStore

CONSTANTS
    Admins,       \* the administrators, each with the token it was issued
    Operations,
    ApprovalTTL,  \* features.approval_ttl
    Grace         \* features.rotation_grace

Nobody == "nobody"

ASSUME ApprovalAssumption ==
    /\ Token = Admins \cup Reqs
    /\ Admins \cap Reqs = {}
    /\ Nobody \notin Token
    /\ ApprovalTTL \in Nat /\ Grace \in Nat /\ Latency \in Nat /\ MaxTime \in Nat

VARIABLES
    approvals,  \* the approval_requests table, by the request that queued
    ask,        \* the requests, by process
    person,     \* history: the administrator who holds a token
    runs        \* history: the gated operations that ran

approvalVars == <<clock, tokens, approvals, ask, person, runs>>

Nothing == "nothing"

Status == {"none", "pending", "approved", "rejected", "expired", "executed"}

Approvals ==
    [status : Status, op : Operations \cup {Nothing},
     requestedBy : Token \cup {Nobody}, expiresAt : Nat,
     decidedBy : Token \cup {Nobody}, decidedAt : Nat, executedAt : Nat]

NoApproval == [status |-> "none", op |-> Nothing, requestedBy |-> Nobody,
               expiresAt |-> 0, decidedBy |-> Nobody, decidedAt |-> 0,
               executedAt |-> 0]

GateKind == {"queue", "decide", "redeem", "rotate"}

GateStage == {"idle"} \cup GateKind \cup {"claim", "run", "done"}

GateRequest == [stage : GateStage, caller : Token \cup {Nobody},
                now : Nat,                   \* the handler's reading of the clock
                approval : Reqs \cup {Nobody},
                op : Operations \cup {Nothing}]

GateFresh == [stage |-> "idle", caller |-> Nobody, now |-> 0, approval |-> Nobody,
              op |-> Nothing]

GateDone == [GateFresh EXCEPT !.stage = "done"]

GateReturn(r) == ask' = [ask EXCEPT ![r] = GateDone]

ApprovalInit ==
    /\ clock = 1
    /\ tokens = [t \in Token |-> IF t \in Admins THEN Issued(t, TRUE, 0) ELSE NoRow]
    /\ approvals = [r \in Reqs |-> NoApproval]
    /\ ask = [r \in Reqs |-> GateFresh]
    /\ person = [t \in Token |-> IF t \in Admins THEN t ELSE Nobody]
    /\ runs = {}

-----------------------------------------------------------------------------
(* The handlers.                                                           *)

\* RequireAdmin, and the handler's own reading of the clock.
SignIn(r, t, kind) ==
    /\ ask[r].stage = "idle"
    /\ Usable(tokens[t], clock)
    /\ ask' = [ask EXCEPT ![r] = [GateFresh EXCEPT !.stage = kind, !.caller = t,
                                                   !.now = clock]]
    /\ UNCHANGED <<clock, tokens, approvals, person, runs>>

\* handleAdminRotateOwnToken: the successor inherits the expiry.
RotateOwn(r) ==
    LET old == ask[r].caller
    IN  /\ ask[r].stage = "rotate"
        /\ \/ /\ Rotatable(tokens, old)
              /\ tokens' = RotateTable(tokens, old, r, ask[r].now + Grace,
                                       tokens[old].expires)
              /\ person' = [person EXCEPT ![r] = person[old]]
           \/ /\ ~Rotatable(tokens, old)
              /\ UNCHANGED <<tokens, person>>
        /\ GateReturn(r)
        /\ UNCHANGED <<clock, approvals, runs>>

\* Mutant of Queue: the lifetime has the wrong sign.
QueueExpired(r, op) ==
    /\ ask[r].stage = "queue"
    /\ approvals' = [approvals EXCEPT ![r] =
                       [NoApproval EXCEPT !.status = "pending", !.op = op,
                          !.requestedBy = ask[r].caller,
                          !.expiresAt = ask[r].now - ApprovalTTL]]
    /\ GateReturn(r)
    /\ UNCHANGED <<clock, tokens, person, runs>>

\* approvalGate without an identifier: the operation is queued and not run.
Queue(r, op) ==
    /\ ask[r].stage = "queue"
    /\ approvals' = [approvals EXCEPT ![r] =
                       [NoApproval EXCEPT !.status = "pending", !.op = op,
                          !.requestedBy = ask[r].caller,
                          !.expiresAt = ask[r].now + ApprovalTTL]]
    /\ GateReturn(r)
    /\ UNCHANGED <<clock, tokens, person, runs>>

\* Mutants of Decidable: tokens are compared instead of principals; the expiry is
\* left to the janitor.
DecidableByToken(a, t, at) ==
    /\ approvals[a].status = "pending"
    /\ at < approvals[a].expiresAt
    /\ approvals[a].requestedBy # t

DecidableLate(a, t, at) ==
    /\ approvals[a].status = "pending"
    /\ tokens[approvals[a].requestedBy].principal # tokens[t].principal

\* The refusals of DecideApproval, in one transaction with its update.
Decidable(a, t, at) ==
    /\ approvals[a].status = "pending"
    /\ at < approvals[a].expiresAt
    /\ tokens[approvals[a].requestedBy].principal # tokens[t].principal

Decide(r, a, verdict) ==
    /\ ask[r].stage = "decide"
    /\ approvals' = IF Decidable(a, ask[r].caller, ask[r].now)
                    THEN [approvals EXCEPT ![a].status = verdict,
                                           ![a].decidedBy = ask[r].caller,
                                           ![a].decidedAt = ask[r].now]
                    ELSE approvals
    /\ GateReturn(r)
    /\ UNCHANGED <<clock, tokens, person, runs>>

\* Mutant of Redeemable: what was approved is not compared with what is asked.
RedeemableForAny(a, t, op, at) ==
    /\ approvals[a].requestedBy = t
    /\ approvals[a].status = "approved"
    /\ at < approvals[a].expiresAt

\* The refusals of redeemApproval on the row it read.
Redeemable(a, t, op, at) ==
    /\ approvals[a].op = op
    /\ approvals[a].requestedBy = t
    /\ approvals[a].status = "approved"
    /\ at < approvals[a].expiresAt

Redeem(r, a, op) ==
    /\ ask[r].stage = "redeem"
    /\ \/ /\ Redeemable(a, ask[r].caller, op, clock)
          /\ ask' = [ask EXCEPT ![r].stage = "claim", ![r].approval = a,
                                ![r].op = op, ![r].now = clock]
       \/ /\ ~Redeemable(a, ask[r].caller, op, clock)
          /\ GateReturn(r)
    /\ UNCHANGED <<clock, tokens, approvals, person, runs>>

\* Mutant of Claimable: the update is not conditional.
ClaimableAsRead(a) == TRUE

\* The condition of MarkApprovalExecuted.
Claimable(a) == approvals[a].status = "approved"

\* The approval is spent before the operation runs.
Claim(r) ==
    LET a == ask[r].approval
    IN  /\ ask[r].stage = "claim"
        /\ \/ /\ Claimable(a)
              /\ approvals' = [approvals EXCEPT ![a].status = "executed",
                                                ![a].executedAt = clock]
              /\ ask' = [ask EXCEPT ![r].stage = "run"]
           \/ /\ ~Claimable(a)
              /\ GateReturn(r)
              /\ UNCHANGED approvals
        /\ UNCHANGED <<clock, tokens, person, runs>>

\* The operation runs, or fails and the approval stays spent.
Run(r) ==
    /\ ask[r].stage = "run"
    /\ \/ runs' = runs \cup {[by |-> r, token |-> ask[r].caller,
                              approval |-> ask[r].approval, op |-> ask[r].op]}
       \/ UNCHANGED runs
    /\ GateReturn(r)
    /\ UNCHANGED <<clock, tokens, approvals, person>>

-----------------------------------------------------------------------------

\* ExpireApprovals, from the janitor's reading of the clock.
ExpireApprovals ==
    LET late == {a \in Reqs : approvals[a].status = "pending"
                                /\ approvals[a].expiresAt < clock}
    IN  /\ late # {}
        /\ approvals' = [a \in Reqs |->
                           IF a \in late THEN [approvals[a] EXCEPT !.status = "expired"]
                           ELSE approvals[a]]
        /\ UNCHANGED <<clock, tokens, ask, person, runs>>

TickApprovals ==
    /\ clock < MaxTime
    /\ \A r \in Reqs : ask[r].stage \notin {"idle", "done"} =>
                          clock - ask[r].now < Latency
    /\ clock' = clock + 1
    /\ UNCHANGED <<tokens, approvals, ask, person, runs>>

ApprovalNext ==
    \/ \E r \in Reqs :
         \/ \E t \in Token, kind \in GateKind : SignIn(r, t, kind)
         \/ RotateOwn(r)
         \/ \E op \in Operations : Queue(r, op)
         \/ \E a \in Reqs, verdict \in {"approved", "rejected"} : Decide(r, a, verdict)
         \/ \E a \in Reqs, op \in Operations : Redeem(r, a, op)
         \/ Claim(r) \/ Run(r)
    \/ ExpireApprovals
    \/ TickApprovals

ApprovalSpec == ApprovalInit /\ [][ApprovalNext]_approvalVars

-----------------------------------------------------------------------------
(* Properties.                                                             *)

\* Every variable keeps its type.
ApprovalTypeOK ==
    /\ clock \in Nat
    /\ tokens \in [Token -> Row]
    /\ approvals \in [Reqs -> Approvals]
    /\ ask \in [Reqs -> GateRequest]
    /\ person \in [Token -> Admins \cup {Nobody}]
    /\ runs \subseteq [by : Reqs, token : Token, approval : Reqs, op : Operations]

\* A gated operation runs only if somebody other than the person who asked for it
\* approved it, however the two rotated their tokens in between.
TwoPersons ==
    \A x \in runs :
        /\ approvals[x.approval].decidedBy # Nobody
        /\ person[approvals[x.approval].requestedBy]
             # person[approvals[x.approval].decidedBy]

\* An approval runs one operation at most, under any number of concurrent
\* redemptions, and a failure of the operation does not give it back.
SpentOnce ==
    \A x, y \in runs : x.approval = y.approval => x = y

\* What runs is what the second administrator read, for the token that asked.
RunsAsApproved ==
    \A x \in runs : /\ x.op = approvals[x.approval].op
                    /\ x.token = approvals[x.approval].requestedBy
                    /\ approvals[x.approval].status = "executed"

\* Nothing is decided after its expiry, and an approval held in reserve is not
\* spent after it, give or take the life of the redeeming request.
NotHeldInReserve ==
    \A a \in Reqs :
        /\ approvals[a].decidedBy # Nobody =>
             approvals[a].decidedAt < approvals[a].expiresAt
        /\ approvals[a].status = "executed" =>
             approvals[a].executedAt < approvals[a].expiresAt + Latency

\* What runs was approved as it is, and in time (decideApproval, redeemApproval,
\* MarkApprovalExecuted).
ApprovalsAreHonoured == ApprovalTypeOK /\ RunsAsApproved /\ NotHeldInReserve
=============================================================================
