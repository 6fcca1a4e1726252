-------------------------------- MODULE Totp --------------------------------
(***************************************************************************)
(* The TOTP factor of one subject: enrolment, confirmation, verification,  *)
(* and the revocations that race them (internal/api/public.go,             *)
(* internal/totp, internal/store/sqlite/totp.go, RevokeAllCredentials).    *)
(*                                                                         *)
(* Each request is a process that runs one handler once; a step is a store *)
(* call or a reading of the clock, and requests interleave between steps.  *)
(* One tick of the clock is one TOTP period, so the clock is the timestep. *)
(* A code is the secret and the step it was computed for: two steps never  *)
(* share a code.  The throttle in front of these handlers is module        *)
(* Throttle; here it only decides whether a request takes its next step,   *)
(* which no request is obliged to.                                         *)
(***************************************************************************)
EXTENDS Integers, FiniteSets

CONSTANTS
    TotpReqs,      \* requests; an enrolment's secret is named by its request
    Skew,          \* totp.skew
    EnrolmentTTL,  \* totp.enrolment_ttl
    Latency,       \* longest life of a request, in ticks
    MaxTime,       \* bound: last instant
    MaxRevocations \* bound: incident revocations and status changes

ASSUME TotpAssumption ==
    /\ Skew \in Nat /\ EnrolmentTTL \in Nat /\ Latency \in Nat
    /\ MaxTime \in Nat /\ MaxRevocations \in Nat

VARIABLES
    clock,
    active,    \* the subject's status is active
    secrets,   \* the totp_secrets table
    otp,       \* the requests, by process
    revs,      \* administrative interventions so far
    accepted   \* history: the codes that were accepted, with the request

totpVars == <<clock, active, secrets, otp, revs, accepted>>

Kind == {"enrol", "confirm", "verify"}

\* confirmedAt 0 stands for NULL.
Secret == [present : BOOLEAN, revoked : BOOLEAN, createdAt : Nat,
           confirmedAt : Nat, last : Nat]

NoSecret == [present |-> FALSE, revoked |-> FALSE, createdAt |-> 0,
             confirmedAt |-> 0, last |-> 0]

Live(s) == secrets[s].present /\ ~secrets[s].revoked

Pending(s) == Live(s) /\ secrets[s].confirmedAt = 0

Confirmed(s) == Live(s) /\ secrets[s].confirmedAt # 0

TotpStage == {"idle", "store", "load", "expire", "check", "consume", "confirm",
              "done"}

Nothing == "none"

TotpRequest ==
    [stage : TotpStage, kind : Kind \cup {Nothing},
     began : Nat,               \* when the handler started
     rec : TotpReqs \cup {Nothing},   \* the secret the handler read
     last : Nat,                \* its last_timestep when it was read
     step : Nat]                \* the step the presented code matched

Fresh == [stage |-> "idle", kind |-> Nothing, began |-> 0, rec |-> Nothing,
          last |-> 0, step |-> 0]

TotpInit ==
    /\ clock = 1
    /\ active = TRUE
    /\ secrets = [s \in TotpReqs |-> NoSecret]
    /\ otp = [r \in TotpReqs |-> Fresh]
    /\ revs = 0
    /\ accepted = {}

-----------------------------------------------------------------------------
(* The handlers.                                                           *)

\* The handler returns and its locals are gone.
Return(r) == otp' = [otp EXCEPT ![r] = [Fresh EXCEPT !.stage = "done"]]

\* resolveSubject: an inactive subject is refused before anything else.
Resolve(r, kind) ==
    /\ otp[r].stage = "idle"
    /\ \/ /\ ~active
          /\ Return(r)
       \/ /\ active
          /\ otp' = [otp EXCEPT ![r].kind = kind, ![r].began = clock,
                                ![r].stage = IF kind = "enrol" THEN "store" ELSE "load"]
    /\ UNCHANGED <<clock, active, secrets, revs, accepted>>

\* Mutant of CreateSecret: the enrolment that waits is left alone.
CreateSecretBeside(r) ==
    /\ otp[r].stage = "store"
    /\ secrets' = [secrets EXCEPT ![r] = [NoSecret EXCEPT !.present = TRUE,
                                                          !.createdAt = otp[r].began]]
    /\ Return(r)
    /\ UNCHANGED <<clock, active, revs, accepted>>

\* CreateTOTPSecret: retire what awaits confirmation and insert, in one
\* transaction.  created_at is the reading the handler took.
CreateSecret(r) ==
    /\ otp[r].stage = "store"
    /\ secrets' = [s \in TotpReqs |->
                     IF s = r THEN [NoSecret EXCEPT !.present = TRUE,
                                                    !.createdAt = otp[r].began]
                     ELSE IF Pending(s) THEN [secrets[s] EXCEPT !.revoked = TRUE]
                     ELSE secrets[s]]
    /\ Return(r)
    /\ UNCHANGED <<clock, active, revs, accepted>>

Newest(S) == {s \in S : \A t \in S : secrets[t].createdAt <= secrets[s].createdAt}

\* GetPendingTOTPSecret and GetActiveTOTPSecret.
Candidates(r) == IF otp[r].kind = "confirm"
                 THEN Newest({s \in TotpReqs : Pending(s)})
                 ELSE Newest({s \in TotpReqs : Confirmed(s)})

\* Mutant of Load: the enrolment window is not looked at.
LoadForever(r) ==
    /\ otp[r].stage = "load"
    /\ \/ /\ Candidates(r) = {}
          /\ Return(r)
       \/ \E s \in Candidates(r) :
            otp' = [otp EXCEPT ![r].stage = "check", ![r].rec = s,
                               ![r].last = secrets[s].last]
    /\ UNCHANGED <<clock, active, secrets, revs, accepted>>

\* The handler reads the secret it will check the code against; a pending one
\* past its window is about to be revoked instead.
Load(r) ==
    /\ otp[r].stage = "load"
    /\ \/ /\ Candidates(r) = {}
          /\ Return(r)
       \/ \E s \in Candidates(r) :
            LET expired == /\ otp[r].kind = "confirm"
                           /\ clock - secrets[s].createdAt > EnrolmentTTL
            IN  otp' = [otp EXCEPT ![r].stage = IF expired THEN "expire" ELSE "check",
                                   ![r].rec = s, ![r].last = secrets[s].last]
    /\ UNCHANGED <<clock, active, secrets, revs, accepted>>

\* RevokeTOTPSecret on an enrolment that was confirmed too late.
Expire(r) ==
    /\ otp[r].stage = "expire"
    /\ secrets' = [secrets EXCEPT ![otp[r].rec].revoked = TRUE]
    /\ Return(r)
    /\ UNCHANGED <<clock, active, revs, accepted>>

\* Mutant of Verifies: neither the epoch nor the last step is looked at.
VerifiesAnything(r, step) == step \in (clock - Skew)..(clock + Skew)

\* totp.Verify on the secret that was read: the presented code is the code of
\* some step in the window around now, and that step is fresh.  What the sender
\* presents is unconstrained, so the step is chosen here.
Verifies(r, step) ==
    /\ step \in (clock - Skew)..(clock + Skew)
    /\ step >= 0
    /\ step > otp[r].last

Check(r) ==
    /\ otp[r].stage = "check"
    /\ \/ \E step \in (clock - Skew)..(clock + Skew) :
            /\ Verifies(r, step)
            /\ otp' = [otp EXCEPT ![r].stage = "consume", ![r].step = step]
       \/ Return(r)
    /\ UNCHANGED <<clock, active, secrets, revs, accepted>>

\* Mutants of StepConsumable: no compare-and-swap on the last step; a revoked
\* secret is consumed.
ConsumableUnordered(r) ==
    secrets[otp[r].rec].present /\ ~secrets[otp[r].rec].revoked

ConsumableRevoked(r) ==
    LET row == secrets[otp[r].rec]
    IN  row.present /\ row.last = otp[r].last /\ otp[r].step > row.last

\* The WHERE clause of ConsumeTOTPStep.
StepConsumable(r) ==
    LET row == secrets[otp[r].rec]
    IN  row.present /\ ~row.revoked /\ row.last = otp[r].last
                    /\ otp[r].step > row.last

ConsumeStep(r) ==
    /\ otp[r].stage = "consume"
    /\ \/ /\ StepConsumable(r)
          /\ secrets' = [secrets EXCEPT ![otp[r].rec].last = otp[r].step]
          /\ accepted' = accepted \cup
               {[by |-> r, kind |-> otp[r].kind, secret |-> otp[r].rec,
                 step |-> otp[r].step]}
          /\ IF otp[r].kind = "confirm"
             THEN otp' = [otp EXCEPT ![r].stage = "confirm"]
             ELSE Return(r)
       \/ /\ ~StepConsumable(r)
          /\ Return(r)
          /\ UNCHANGED <<secrets, accepted>>
    /\ UNCHANGED <<clock, active, revs>>

\* Mutant of Confirm: whatever enrolment is pending is confirmed.
ConfirmWhicheverPending(r) ==
    /\ otp[r].stage = "confirm"
    /\ secrets' = [s \in TotpReqs |-> IF Pending(s)
                                      THEN [secrets[s] EXCEPT !.confirmedAt = clock]
                                      ELSE secrets[s]]
    /\ Return(r)
    /\ UNCHANGED <<clock, active, revs, accepted>>

\* ConfirmTOTPSecret on the secret that was read at the start.
Confirm(r) ==
    /\ otp[r].stage = "confirm"
    /\ secrets' = IF Pending(otp[r].rec)
                  THEN [secrets EXCEPT ![otp[r].rec].confirmedAt = clock]
                  ELSE secrets
    /\ Return(r)
    /\ UNCHANGED <<clock, active, revs, accepted>>

-----------------------------------------------------------------------------
(* The administrator and time.                                             *)

\* RevokeAllCredentials: every unrevoked secret, pending or confirmed.
RevokeAll ==
    /\ revs < MaxRevocations
    /\ secrets' = [s \in TotpReqs |-> IF Live(s) THEN [secrets[s] EXCEPT !.revoked = TRUE]
                                      ELSE secrets[s]]
    /\ revs' = revs + 1
    /\ UNCHANGED <<clock, active, otp, accepted>>

SetStatus ==
    /\ revs < MaxRevocations
    /\ active' = ~active
    /\ revs' = revs + 1
    /\ UNCHANGED <<clock, secrets, otp, accepted>>

Tick ==
    /\ clock < MaxTime
    /\ \A r \in TotpReqs : otp[r].stage \notin {"idle", "done"} =>
                          clock - otp[r].began < Latency
    /\ clock' = clock + 1
    /\ UNCHANGED <<active, secrets, otp, revs, accepted>>

TotpNext ==
    \/ \E r \in TotpReqs : \/ \E kind \in Kind : Resolve(r, kind)
                           \/ CreateSecret(r) \/ Load(r) \/ Expire(r) \/ Check(r)
                           \/ ConsumeStep(r) \/ Confirm(r)
    \/ RevokeAll
    \/ SetStatus
    \/ Tick

TotpSpec == TotpInit /\ [][TotpNext]_totpVars

-----------------------------------------------------------------------------
(* Properties.                                                             *)

\* Every variable keeps its type.
TotpTypeOK ==
    /\ clock \in Nat /\ active \in BOOLEAN /\ revs \in 0..MaxRevocations
    /\ secrets \in [TotpReqs -> Secret]
    /\ otp \in [TotpReqs -> TotpRequest]
    /\ accepted \subseteq [by : TotpReqs, kind : Kind, secret : TotpReqs, step : Nat]

\* A timestep of a secret is accepted once, whichever requests race for it and
\* whether it confirms the enrolment or authenticates (ConsumeTOTPStep).
StepSingleUse ==
    \A a, b \in accepted : (a.secret = b.secret /\ a.step = b.step) => a = b

\* A revoked secret is dead: no request that read it earlier consumes a step of
\* it, confirms it or brings it back.
RevokedStaysDead ==
    [][\A s \in TotpReqs : secrets[s].revoked => secrets'[s] = secrets[s]]_totpVars

\* At most one enrolment awaits confirmation, so a user who starts twice does not
\* end with two secrets that can both be activated.
OnePending ==
    \A s, t \in TotpReqs : (Pending(s) /\ Pending(t)) => s = t

\* A secret is confirmed only after a code computed from that very secret has
\* been accepted, whatever enrolments replaced it meanwhile.
ConfirmedByPossession ==
    \A s \in TotpReqs : secrets[s].confirmedAt # 0 =>
        \E a \in accepted : a.secret = s /\ a.kind = "confirm"

\* An enrolment is not activated late: it is confirmed within its window, give or
\* take the life of the confirming request.
NotConfirmedLate ==
    \A s \in TotpReqs : secrets[s].confirmedAt # 0 =>
        secrets[s].confirmedAt - secrets[s].createdAt <= EnrolmentTTL + Latency

\* An enrolment is confirmed alone, by who holds its secret, and in time
\* (CreateTOTPSecret, ConfirmTOTPSecret).
EnrolmentIsSound == TotpTypeOK /\ OnePending /\ ConfirmedByPossession /\ NotConfirmedLate
=============================================================================
