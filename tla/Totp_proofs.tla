----------------------------- MODULE Totp_proofs -----------------------------
(***************************************************************************)
(* Machine-checked proofs about Totp, for every set of requests, any skew  *)
(* and enrolment window, and any life of a request.                        *)
(***************************************************************************)
EXTENDS Totp, TLAPS

-----------------------------------------------------------------------------
(* The inductive invariant.                                                *)

Busy(r) == otp[r].stage \notin {"idle", "done"}

\* The stages in which a handler works on the secret it read.
Holding(r) == otp[r].stage \in {"expire", "check", "consume", "confirm"}

\* A row is inserted by a request that is over, so no row is inserted twice; a row that
\* was never inserted is blank.
RowInv ==
    \A s \in TotpReqs : IF secrets[s].present THEN otp[s].stage = "done"
                        ELSE secrets[s] = NoSecret

\* What a handler holds is a row, which a confirmation found inside its window, and the
\* request does not outlive its time.
HoldInv ==
    \A r \in TotpReqs :
        /\ Busy(r) => /\ otp[r].kind \in Kind
                      /\ otp[r].began <= clock /\ clock <= otp[r].began + Latency
        /\ Holding(r) => otp[r].rec \in TotpReqs /\ secrets[otp[r].rec].present
        /\ Holding(r) /\ otp[r].stage # "expire" /\ otp[r].kind = "confirm" =>
             otp[r].began <= secrets[otp[r].rec].createdAt + EnrolmentTTL
        /\ otp[r].stage = "confirm" =>
             /\ otp[r].kind = "confirm"
             /\ \E a \in accepted : a.secret = otp[r].rec /\ a.kind = "confirm"

\* Every step accepted is one the row has moved past.
AcceptedInv ==
    \A a \in accepted : secrets[a.secret].present /\ a.step <= secrets[a.secret].last

TotpInv ==
    /\ TotpTypeOK
    /\ RowInv
    /\ HoldInv
    /\ AcceptedInv
    /\ StepSingleUse
    /\ OnePending
    /\ ConfirmedByPossession
    /\ NotConfirmedLate

-----------------------------------------------------------------------------
(* Lemmas.                                                                 *)

\* A secret not inserted and a request not started are typed.
LEMMA BlankTypes == NoSecret \in Secret /\ Fresh \in TotpRequest
BY DEF NoSecret, Secret, Fresh, TotpRequest, TotpStage

\* A request that returns leaves the others alone.
LEMMA ReturnEffect ==
    ASSUME otp \in [TotpReqs -> TotpRequest], NEW r \in TotpReqs, Return(r)
    PROVE  /\ otp' \in [TotpReqs -> TotpRequest]
           /\ otp'[r].stage = "done"
           /\ \A q \in TotpReqs \ {r} : otp'[q] = otp[q]
BY BlankTypes DEF Return, Fresh, TotpRequest, TotpStage

\* A step that moves one request and writes no row keeps the invariant, if the request
\* holds what it should afterwards.
LEMMA OnlyRequest ==
    ASSUME TotpInv, NEW r \in TotpReqs, otp' \in [TotpReqs -> TotpRequest],
           \A q \in TotpReqs \ {r} : otp'[q] = otp[q],
           UNCHANGED <<clock, secrets, accepted>>, active' \in BOOLEAN,
           revs' \in 0..MaxRevocations,
           otp[r].stage = "done" => otp'[r].stage = "done",
           Busy(r)' => /\ otp'[r].kind \in Kind
                       /\ otp'[r].began <= clock /\ clock <= otp'[r].began + Latency,
           Holding(r)' => otp'[r].rec \in TotpReqs /\ secrets[otp'[r].rec].present,
           Holding(r)' /\ otp'[r].stage # "expire" /\ otp'[r].kind = "confirm" =>
             otp'[r].began <= secrets[otp'[r].rec].createdAt + EnrolmentTTL,
           otp'[r].stage # "confirm"
    PROVE  TotpInv'
<1>1. TotpTypeOK' /\ RowInv' /\ AcceptedInv'
  BY DEF TotpInv, TotpTypeOK, RowInv, AcceptedInv
<1>2. HoldInv'
  BY DEF TotpInv, HoldInv, Busy, Holding
<1>3. StepSingleUse' /\ OnePending' /\ ConfirmedByPossession' /\ NotConfirmedLate'
  BY DEF TotpInv, StepSingleUse, OnePending, Pending, Live, ConfirmedByPossession,
         NotConfirmedLate
<1> QED BY <1>1, <1>2, <1>3 DEF TotpInv

\* A step after which a request is over and every row that was there is as old and as
\* new as it was keeps what the other handlers hold.
LEMMA HoldKept ==
    ASSUME TotpInv, NEW r \in TotpReqs, otp'[r].stage = "done",
           \A q \in TotpReqs \ {r} : otp'[q] = otp[q], clock' = clock,
           accepted \subseteq accepted',
           \A s \in TotpReqs : secrets[s].present =>
             secrets'[s].present /\ secrets'[s].createdAt = secrets[s].createdAt
    PROVE  HoldInv'
<1> SUFFICES ASSUME NEW q \in TotpReqs, q # r, otp'[q] = otp[q]
             PROVE  /\ Busy(q) => /\ otp[q].kind \in Kind
                                  /\ otp[q].began <= clock /\ clock <= otp[q].began + Latency
                    /\ Holding(q) => otp[q].rec \in TotpReqs /\ secrets'[otp[q].rec].present
                    /\ Holding(q) /\ otp[q].stage # "expire" /\ otp[q].kind = "confirm" =>
                         otp[q].began <= secrets'[otp[q].rec].createdAt + EnrolmentTTL
                    /\ otp[q].stage = "confirm" =>
                         /\ otp[q].kind = "confirm"
                         /\ \E a \in accepted' : a.secret = otp[q].rec /\ a.kind = "confirm"
  BY DEF HoldInv, Busy, Holding
<1> QED BY DEF TotpInv, HoldInv, Holding

-----------------------------------------------------------------------------
(* The invariant holds.                                                    *)

\* There is no secret and no request has started.
LEMMA TotpStarts == TotpInit => TotpInv
BY BlankTypes, TotpAssumption
   DEF TotpInit, TotpInv, TotpTypeOK, RowInv, HoldInv, Busy, Holding, AcceptedInv, StepSingleUse,
       OnePending, Pending, Live, ConfirmedByPossession, NotConfirmedLate, Fresh, NoSecret

\* Every step of a request, of the administrator and of the clock keeps the invariant.
LEMMA TotpStep == TotpInv /\ [TotpNext]_totpVars => TotpInv'
<1> SUFFICES ASSUME TotpInv, [TotpNext]_totpVars PROVE TotpInv'
  OBVIOUS
<1> USE DEF TotpStage
<1>t. /\ TotpTypeOK /\ clock \in Nat /\ active \in BOOLEAN /\ revs \in 0..MaxRevocations
      /\ secrets \in [TotpReqs -> Secret] /\ otp \in [TotpReqs -> TotpRequest]
      /\ accepted \subseteq [by : TotpReqs, kind : Kind, secret : TotpReqs, step : Nat]
      /\ Latency \in Nat /\ EnrolmentTTL \in Nat /\ Skew \in Nat
  BY TotpAssumption DEF TotpInv, TotpTypeOK
<1>1. ASSUME NEW r \in TotpReqs, NEW kind \in Kind, Resolve(r, kind) PROVE TotpInv'
  <2>1. CASE Return(r)
    BY <1>1, <1>t, <2>1, ReturnEffect, OnlyRequest DEF Resolve, Busy, Holding
  <2>2. CASE otp' = [otp EXCEPT ![r].kind = kind, ![r].began = clock,
                                ![r].stage = IF kind = "enrol" THEN "store" ELSE "load"]
    <3>1. /\ otp' \in [TotpReqs -> TotpRequest] /\ \A q \in TotpReqs \ {r} : otp'[q] = otp[q]
          /\ otp'[r].stage \in {"store", "load"} /\ otp'[r].kind = kind
          /\ otp'[r].began = clock
      <4>1. PICK stage \in {"store", "load"} :
              otp' = [otp EXCEPT ![r] = [otp[r] EXCEPT !.kind = kind, !.began = clock,
                                                       !.stage = stage]]
        BY <2>2
      <4>2. [otp[r] EXCEPT !.kind = kind, !.began = clock, !.stage = stage] \in TotpRequest
        BY <1>t DEF TotpRequest
      <4> QED BY <1>t, <4>1, <4>2 DEF TotpRequest
    <3> QED BY <1>1, <1>t, <3>1, OnlyRequest DEF Resolve, Busy, Holding
  <2> QED BY <1>1, <2>1, <2>2 DEF Resolve
<1>2. ASSUME NEW r \in TotpReqs, CreateSecret(r) PROVE TotpInv'
  <2> DEFINE new == [NoSecret EXCEPT !.present = TRUE, !.createdAt = otp[r].began]
  <2>1. /\ otp' \in [TotpReqs -> TotpRequest] /\ otp'[r].stage = "done"
        /\ \A q \in TotpReqs \ {r} : otp'[q] = otp[q]
        /\ UNCHANGED <<clock, active, revs, accepted>> /\ otp[r].stage = "store"
    BY <1>2, <1>t, ReturnEffect DEF CreateSecret
  <2>2. /\ new \in Secret /\ new.present /\ new.confirmedAt = 0
    <3>1. otp[r].began \in Nat
      BY <1>t DEF TotpRequest
    <3> QED BY <3>1 DEF NoSecret, Secret
  <2>3. secrets[r] = NoSecret /\ ~secrets[r].present
    BY <2>1 DEF TotpInv, RowInv, NoSecret
  <2>4. /\ secrets'[r] = new
        /\ \A s \in TotpReqs \ {r} :
             secrets'[s] = IF Pending(s) THEN [secrets[s] EXCEPT !.revoked = TRUE]
                           ELSE secrets[s]
        /\ DOMAIN secrets' = TotpReqs /\ secrets' = [s \in TotpReqs |-> secrets'[s]]
    BY <1>2 DEF CreateSecret
  <2>5. \A s \in TotpReqs \ {r} :
          /\ secrets'[s] \in Secret
          /\ secrets'[s].present = secrets[s].present
          /\ secrets'[s].createdAt = secrets[s].createdAt
          /\ secrets'[s].confirmedAt = secrets[s].confirmedAt
          /\ secrets'[s].last = secrets[s].last
          /\ ~Pending(s)'
          /\ ~secrets[s].present => secrets'[s] = secrets[s]
    <3> SUFFICES ASSUME NEW s \in TotpReqs \ {r}
                 PROVE  /\ secrets'[s] \in Secret
                        /\ secrets'[s].present = secrets[s].present
                        /\ secrets'[s].createdAt = secrets[s].createdAt
                        /\ secrets'[s].confirmedAt = secrets[s].confirmedAt
                        /\ secrets'[s].last = secrets[s].last
                        /\ ~Pending(s)'
                        /\ ~secrets[s].present => secrets'[s] = secrets[s]
      OBVIOUS
    <3>1. secrets[s] \in Secret
      BY <1>t
    <3>2. CASE Pending(s)
      BY <2>4, <3>1, <3>2 DEF Secret, Pending, Live
    <3>3. CASE ~Pending(s)
      <4>1. secrets'[s] = secrets[s]
        BY <2>4, <3>3
      <4> QED BY <3>1, <3>3, <4>1 DEF Pending, Live
    <3> QED BY <3>2, <3>3
  <2>6. secrets' \in [TotpReqs -> Secret]
    BY <2>2, <2>4, <2>5
  <2> HIDE DEF new
  <2>7. TotpTypeOK' /\ RowInv'
    BY <1>t, <2>1, <2>2, <2>4, <2>5, <2>6 DEF TotpInv, TotpTypeOK, RowInv
  <2>8. HoldInv'
    BY <2>1, <2>3, <2>5, HoldKept
  <2>9. AcceptedInv' /\ StepSingleUse'
    <3>1. \A a \in accepted : a.secret \in TotpReqs /\ a.secret # r
      BY <1>t, <2>3 DEF TotpInv, AcceptedInv
    <3> QED BY <2>1, <2>5, <3>1 DEF TotpInv, AcceptedInv, StepSingleUse
  <2>10. OnePending'
    BY <2>5 DEF OnePending
  <2>11. ConfirmedByPossession' /\ NotConfirmedLate'
    BY <2>1, <2>2, <2>4, <2>5 DEF TotpInv, ConfirmedByPossession, NotConfirmedLate
  <2> QED BY <2>7, <2>8, <2>9, <2>10, <2>11 DEF TotpInv
<1>3. ASSUME NEW r \in TotpReqs, Load(r) PROVE TotpInv'
  <2>1. CASE Return(r)
    BY <1>3, <1>t, <2>1, ReturnEffect, OnlyRequest DEF Load, Busy, Holding
  <2>2. ASSUME NEW s \in Candidates(r), NEW stage \in {"expire", "check"},
               stage = "check" /\ otp[r].kind = "confirm" =>
                 clock - secrets[s].createdAt <= EnrolmentTTL,
               otp' = [otp EXCEPT ![r].stage = stage, ![r].rec = s,
                                  ![r].last = secrets[s].last]
        PROVE  TotpInv'
    <3>1. s \in TotpReqs /\ secrets[s].present /\ secrets[s] \in Secret
      BY <1>t, <2>2 DEF Candidates, Newest, Pending, Confirmed, Live
    <3>2. /\ secrets[s].last \in Nat /\ secrets[s].createdAt \in Nat
      BY <3>1 DEF Secret
    <3>3. /\ otp' \in [TotpReqs -> TotpRequest] /\ \A q \in TotpReqs \ {r} : otp'[q] = otp[q]
          /\ otp'[r].stage = stage /\ otp'[r].rec = s
          /\ otp'[r].kind = otp[r].kind /\ otp'[r].began = otp[r].began
      <4>1. otp' = [otp EXCEPT ![r] = [otp[r] EXCEPT !.stage = stage, !.rec = s,
                                                     !.last = secrets[s].last]]
        BY <2>2
      <4>2. [otp[r] EXCEPT !.stage = stage, !.rec = s, !.last = secrets[s].last] \in TotpRequest
        BY <1>t, <3>1, <3>2 DEF TotpRequest
      <4> QED BY <1>t, <4>1, <4>2 DEF TotpRequest
    <3>4. /\ otp[r].kind \in Kind /\ otp[r].began <= clock
          /\ clock <= otp[r].began + Latency /\ otp[r].began \in Nat
      BY <1>3, <1>t DEF Load, TotpInv, HoldInv, Busy, TotpRequest
    <3>5. stage = "check" /\ otp[r].kind = "confirm" =>
            otp[r].began <= secrets[s].createdAt + EnrolmentTTL
      BY <1>t, <2>2, <3>2, <3>4
    <3>6. /\ UNCHANGED <<clock, active, secrets, revs, accepted>>
          /\ otp[r].stage = "load"
      BY <1>3 DEF Load
    <3>7. stage \in {"expire", "check"}
      BY <2>2
    <3> QED BY <1>t, <3>1, <3>3, <3>4, <3>5, <3>6, <3>7, OnlyRequest DEF Busy, Holding
  <2>3. ASSUME NEW s \in Candidates(r),
               NEW expired \in BOOLEAN,
               expired = (/\ otp[r].kind = "confirm"
                          /\ clock - secrets[s].createdAt > EnrolmentTTL),
               otp' = [otp EXCEPT ![r].stage = IF expired THEN "expire" ELSE "check",
                                  ![r].rec = s, ![r].last = secrets[s].last]
        PROVE  TotpInv'
    <3>1. secrets[s].createdAt \in Nat
      BY <1>t, <2>3 DEF Candidates, Newest, Secret
    <3>2. CASE expired
      <4>1. otp' = [otp EXCEPT ![r].stage = "expire", ![r].rec = s,
                               ![r].last = secrets[s].last]
        BY <2>3, <3>2
      <4> QED BY <2>2, <2>3, <4>1
    <3>3. CASE ~expired
      <4>1. otp' = [otp EXCEPT ![r].stage = "check", ![r].rec = s,
                               ![r].last = secrets[s].last]
        BY <2>3, <3>3
      <4>2. otp[r].kind = "confirm" => clock - secrets[s].createdAt <= EnrolmentTTL
        BY <1>t, <2>3, <3>1, <3>3
      <4> QED BY <2>2, <2>3, <4>1, <4>2
    <3> QED BY <3>2, <3>3
  <2> QED BY <1>3, <2>1, <2>3 DEF Load
<1>4. ASSUME NEW r \in TotpReqs, Expire(r) PROVE TotpInv'
  <2> DEFINE s == otp[r].rec
  <2>1. /\ otp' \in [TotpReqs -> TotpRequest] /\ otp'[r].stage = "done"
        /\ \A q \in TotpReqs \ {r} : otp'[q] = otp[q]
        /\ UNCHANGED <<clock, active, revs, accepted>>
        /\ secrets' = [secrets EXCEPT ![s].revoked = TRUE]
        /\ s \in TotpReqs /\ secrets[s].present
    BY <1>4, <1>t, ReturnEffect DEF Expire, TotpInv, HoldInv, Holding
  <2>2. /\ secrets' \in [TotpReqs -> Secret]
        /\ \A u \in TotpReqs :
             /\ secrets'[u].present = secrets[u].present
             /\ secrets'[u].createdAt = secrets[u].createdAt
             /\ secrets'[u].confirmedAt = secrets[u].confirmedAt
             /\ secrets'[u].last = secrets[u].last
             /\ Pending(u)' => Pending(u)
             /\ ~secrets[u].present => secrets'[u] = secrets[u]
    BY <1>t, <2>1 DEF Secret, Pending, Live
  <2>3. TotpTypeOK' /\ RowInv'
    BY <1>t, <2>1, <2>2 DEF TotpInv, TotpTypeOK, RowInv
  <2>4. HoldInv'
    BY <2>1, <2>2, HoldKept
  <2>5. AcceptedInv' /\ StepSingleUse'
    <3>1. \A a \in accepted : a.secret \in TotpReqs
      BY <1>t
    <3> QED BY <2>1, <2>2, <3>1 DEF TotpInv, AcceptedInv, StepSingleUse
  <2>6. OnePending' /\ ConfirmedByPossession' /\ NotConfirmedLate'
    BY <2>1, <2>2 DEF TotpInv, OnePending, ConfirmedByPossession, NotConfirmedLate
  <2> QED BY <2>3, <2>4, <2>5, <2>6 DEF TotpInv
<1>5. ASSUME NEW r \in TotpReqs, Check(r) PROVE TotpInv'
  <2>1. CASE Return(r)
    BY <1>5, <1>t, <2>1, ReturnEffect, OnlyRequest DEF Check, Busy, Holding
  <2>2. ASSUME NEW step \in (clock - Skew)..(clock + Skew), Verifies(r, step),
               otp' = [otp EXCEPT ![r].stage = "consume", ![r].step = step]
        PROVE  TotpInv'
    <3>1. step \in Nat
      BY <1>t, <2>2 DEF Verifies
    <3>2. /\ otp' \in [TotpReqs -> TotpRequest] /\ \A q \in TotpReqs \ {r} : otp'[q] = otp[q]
          /\ otp'[r].stage = "consume" /\ otp'[r].rec = otp[r].rec
          /\ otp'[r].kind = otp[r].kind /\ otp'[r].began = otp[r].began
      BY <1>t, <2>2, <3>1 DEF TotpRequest
    <3>3. /\ otp[r].kind \in Kind /\ otp[r].began <= clock
          /\ clock <= otp[r].began + Latency
          /\ otp[r].rec \in TotpReqs /\ secrets[otp[r].rec].present
          /\ otp[r].kind = "confirm" =>
               otp[r].began <= secrets[otp[r].rec].createdAt + EnrolmentTTL
      BY <1>5 DEF Check, TotpInv, HoldInv, Busy, Holding
    <3> QED BY <1>5, <1>t, <3>2, <3>3, OnlyRequest DEF Check, Busy, Holding
  <2> QED BY <1>5, <2>1, <2>2 DEF Check
<1>6. ASSUME NEW r \in TotpReqs, ConsumeStep(r) PROVE TotpInv'
  <2>1. CASE ~StepConsumable(r)
    BY <1>6, <1>t, <2>1, ReturnEffect, OnlyRequest DEF ConsumeStep, Busy, Holding
  <2>2. CASE StepConsumable(r)
    <3> DEFINE s == otp[r].rec
               x == [by |-> r, kind |-> otp[r].kind, secret |-> s, step |-> otp[r].step]
    <3>1. /\ secrets' = [secrets EXCEPT ![s].last = otp[r].step]
          /\ accepted' = accepted \cup {x}
          /\ secrets[s].present /\ otp[r].step > secrets[s].last
          /\ UNCHANGED <<clock, active, revs>>
      BY <1>6, <2>2 DEF ConsumeStep, StepConsumable
    <3>2. /\ s \in TotpReqs /\ otp[r].kind \in Kind /\ otp[r].step \in Nat
          /\ otp[r].began <= clock /\ clock <= otp[r].began + Latency
          /\ otp[r].kind = "confirm" => otp[r].began <= secrets[s].createdAt + EnrolmentTTL
      BY <1>6, <1>t DEF ConsumeStep, TotpInv, HoldInv, Holding, Busy, TotpRequest
    <3>3. /\ otp' \in [TotpReqs -> TotpRequest] /\ \A q \in TotpReqs \ {r} : otp'[q] = otp[q]
          /\ \/ otp'[r].stage = "done"
             \/ /\ otp'[r].stage = "confirm" /\ otp'[r].kind = otp[r].kind
                /\ otp[r].kind = "confirm"
                /\ otp'[r].rec = s /\ otp'[r].began = otp[r].began
      <4>1. CASE otp[r].kind = "confirm"
        <5>1. otp' = [otp EXCEPT ![r].stage = "confirm"]
          BY <1>6, <2>2, <4>1 DEF ConsumeStep
        <5> QED BY <1>t, <4>1, <5>1 DEF TotpRequest
      <4>2. CASE otp[r].kind # "confirm"
        BY <1>6, <1>t, <2>2, <4>2, ReturnEffect DEF ConsumeStep
      <4> QED BY <4>1, <4>2
    <3>4. /\ secrets' \in [TotpReqs -> Secret]
          /\ secrets'[s].last = otp[r].step
          /\ \A u \in TotpReqs \ {s} : secrets'[u] = secrets[u]
          /\ \A u \in TotpReqs :
               /\ secrets'[u].present = secrets[u].present
               /\ secrets'[u].revoked = secrets[u].revoked
               /\ secrets'[u].createdAt = secrets[u].createdAt
               /\ secrets'[u].confirmedAt = secrets[u].confirmedAt
      BY <1>t, <3>1, <3>2 DEF Secret
    <3>5. TotpTypeOK'
      BY <1>t, <3>1, <3>2, <3>3, <3>4 DEF TotpTypeOK
    <3>6. RowInv'
      <4>1. otp[r].stage # "done"
        BY <1>6 DEF ConsumeStep
      <4> QED BY <3>1, <3>2, <3>3, <3>4, <4>1 DEF TotpInv, RowInv
    <3>7. HoldInv'
      <4> SUFFICES ASSUME NEW q \in TotpReqs
                   PROVE  /\ Busy(q)' => /\ otp'[q].kind \in Kind
                                         /\ otp'[q].began <= clock
                                         /\ clock <= otp'[q].began + Latency
                          /\ Holding(q)' => /\ otp'[q].rec \in TotpReqs
                                            /\ secrets'[otp'[q].rec].present
                          /\ Holding(q)' /\ otp'[q].stage # "expire"
                               /\ otp'[q].kind = "confirm" =>
                               otp'[q].began <= secrets'[otp'[q].rec].createdAt + EnrolmentTTL
                          /\ otp'[q].stage = "confirm" =>
                               /\ otp'[q].kind = "confirm"
                               /\ \E a \in accepted' : a.secret = otp'[q].rec
                                                       /\ a.kind = "confirm"
        BY <3>1 DEF HoldInv
      <4>1. CASE q = r
        <5>1. x \in accepted' /\ x.secret = s /\ x.kind = otp[r].kind
          BY <3>1
        <5> HIDE DEF x
        <5> QED BY <3>1, <3>2, <3>3, <3>4, <4>1, <5>1 DEF Busy, Holding
      <4>2. CASE q # r
        <5>1. otp'[q] = otp[q] /\ accepted \subseteq accepted'
          BY <3>1, <3>3, <4>2
        <5> QED BY <3>4, <5>1 DEF TotpInv, HoldInv, Busy, Holding
      <4> QED BY <4>1, <4>2
    <3>8. /\ AcceptedInv'
          /\ \A a \in accepted : ~(a.secret = s /\ a.step = otp[r].step)
      <4>1. \A a \in accepted : /\ a.secret \in TotpReqs /\ a.step \in Nat
                                /\ secrets[a.secret].present
                                /\ a.step <= secrets[a.secret].last
        BY <1>t DEF TotpInv, AcceptedInv
      <4>2. \A u \in TotpReqs : secrets[u].last \in Nat
        BY <1>t DEF Secret
      <4>3. ASSUME NEW a \in accepted'
            PROVE  secrets'[a.secret].present /\ a.step <= secrets'[a.secret].last
        <5>1. CASE a = x
          BY <3>1, <3>2, <3>4, <5>1
        <5>2. CASE a \in accepted /\ a.secret = s
          BY <3>1, <3>2, <3>4, <4>1, <4>2, <5>2
        <5>3. CASE a \in accepted /\ a.secret # s
          BY <3>4, <4>1, <5>3
        <5> QED BY <3>1, <5>1, <5>2, <5>3
      <4> QED BY <3>1, <3>2, <4>1, <4>2, <4>3 DEF AcceptedInv
    <3>9. StepSingleUse'
      BY <3>1, <3>8 DEF TotpInv, StepSingleUse
    <3>10. OnePending'
      BY <3>4 DEF TotpInv, OnePending, Pending, Live
    <3>11. ConfirmedByPossession' /\ NotConfirmedLate'
      BY <3>1, <3>4 DEF TotpInv, ConfirmedByPossession, NotConfirmedLate
    <3> QED BY <3>5, <3>6, <3>7, <3>8, <3>9, <3>10, <3>11 DEF TotpInv
  <2> QED BY <2>1, <2>2
<1>7. ASSUME NEW r \in TotpReqs, Confirm(r) PROVE TotpInv'
  <2> DEFINE s == otp[r].rec
  <2>1. /\ otp' \in [TotpReqs -> TotpRequest] /\ otp'[r].stage = "done"
        /\ \A q \in TotpReqs \ {r} : otp'[q] = otp[q]
        /\ UNCHANGED <<clock, active, revs, accepted>> /\ otp[r].stage = "confirm"
    BY <1>7, <1>t, ReturnEffect DEF Confirm
  <2>2. CASE ~Pending(s)
    BY <1>7, <1>t, <2>1, <2>2, OnlyRequest DEF Confirm, Busy, Holding
  <2>3. CASE Pending(s)
    <3>1. /\ secrets' = [secrets EXCEPT ![s].confirmedAt = clock]
          /\ s \in TotpReqs /\ secrets[s].present
          /\ \E a \in accepted : a.secret = s /\ a.kind = "confirm"
          /\ clock <= otp[r].began + Latency
          /\ otp[r].began <= secrets[s].createdAt + EnrolmentTTL
      BY <1>7, <2>1, <2>3 DEF Confirm, TotpInv, HoldInv, Holding, Busy
    <3>2. /\ secrets' \in [TotpReqs -> Secret]
          /\ secrets'[s].confirmedAt = clock
          /\ \A u \in TotpReqs \ {s} : secrets'[u] = secrets[u]
          /\ \A u \in TotpReqs :
               /\ secrets'[u].present = secrets[u].present
               /\ secrets'[u].createdAt = secrets[u].createdAt
               /\ secrets'[u].last = secrets[u].last
               /\ Pending(u)' => Pending(u)
      BY <1>t, <2>3, <3>1 DEF Secret, Pending, Live
    <3>3. TotpTypeOK' /\ RowInv'
      BY <1>t, <2>1, <3>1, <3>2 DEF TotpInv, TotpTypeOK, RowInv
    <3>4. HoldInv'
      BY <2>1, <3>2, HoldKept
    <3>5. AcceptedInv' /\ StepSingleUse'
      <4>1. \A a \in accepted : a.secret \in TotpReqs
        BY <1>t
      <4> QED BY <2>1, <3>2, <4>1 DEF TotpInv, AcceptedInv, StepSingleUse
    <3>6. OnePending' /\ ConfirmedByPossession'
      BY <2>1, <3>1, <3>2 DEF TotpInv, OnePending, ConfirmedByPossession
    <3>7. NotConfirmedLate'
      <4>1. secrets[s].createdAt \in Nat /\ otp[r].began \in Nat
        BY <1>t, <3>1 DEF Secret, TotpRequest
      <4>2. clock - secrets[s].createdAt <= EnrolmentTTL + Latency
        BY <1>t, <3>1, <4>1
      <4> QED BY <3>2, <4>2 DEF TotpInv, NotConfirmedLate
    <3> QED BY <3>3, <3>4, <3>5, <3>6, <3>7 DEF TotpInv
  <2> QED BY <2>2, <2>3
<1>8. ASSUME RevokeAll PROVE TotpInv'
  <2>1. /\ UNCHANGED <<clock, active, otp, accepted>> /\ revs' \in 0..MaxRevocations
        /\ \A s \in TotpReqs : secrets'[s] = IF Live(s) THEN [secrets[s] EXCEPT !.revoked = TRUE]
                                             ELSE secrets[s]
        /\ secrets' = [s \in TotpReqs |-> secrets'[s]]
    BY <1>8, <1>t, TotpAssumption DEF RevokeAll
  <2>2. \A u \in TotpReqs :
          /\ secrets'[u] \in Secret
          /\ secrets'[u].present = secrets[u].present
          /\ secrets'[u].createdAt = secrets[u].createdAt
          /\ secrets'[u].confirmedAt = secrets[u].confirmedAt
          /\ secrets'[u].last = secrets[u].last
          /\ ~Pending(u)'
          /\ ~secrets[u].present => secrets'[u] = secrets[u]
    BY <1>t, <2>1 DEF Secret, Pending, Live
  <2>3. TotpTypeOK' /\ RowInv'
    BY <1>t, <2>1, <2>2 DEF TotpInv, TotpTypeOK, RowInv
  <2>4. HoldInv'
    BY <2>1, <2>2 DEF TotpInv, HoldInv, Busy, Holding
  <2>5. AcceptedInv' /\ StepSingleUse'
    <3>1. \A a \in accepted : a.secret \in TotpReqs
      BY <1>t
    <3> QED BY <2>1, <2>2, <3>1 DEF TotpInv, AcceptedInv, StepSingleUse
  <2>6. OnePending' /\ ConfirmedByPossession' /\ NotConfirmedLate'
    BY <2>1, <2>2 DEF TotpInv, OnePending, ConfirmedByPossession, NotConfirmedLate
  <2> QED BY <2>3, <2>4, <2>5, <2>6 DEF TotpInv
<1>9. ASSUME SetStatus PROVE TotpInv'
  <2>1. UNCHANGED <<clock, secrets, otp, accepted>> /\ active' \in BOOLEAN
        /\ revs' \in 0..MaxRevocations
    BY <1>9, <1>t, TotpAssumption DEF SetStatus
  <2> QED BY <1>t, <2>1
          DEF TotpInv, TotpTypeOK, RowInv, HoldInv, Busy, Holding, AcceptedInv, StepSingleUse,
              OnePending, Pending, Live, ConfirmedByPossession, NotConfirmedLate
<1>10. ASSUME Tick PROVE TotpInv'
  <2>1. /\ clock' = clock + 1 /\ UNCHANGED <<active, secrets, otp, revs, accepted>>
        /\ \A r \in TotpReqs : Busy(r) => clock - otp[r].began < Latency
    BY <1>10 DEF Tick, Busy
  <2>2. HoldInv'
    <3>1. ASSUME NEW r \in TotpReqs, Busy(r)
          PROVE  otp[r].began <= clock + 1 /\ clock + 1 <= otp[r].began + Latency
      <4>1. /\ otp[r].began \in Nat /\ otp[r].began <= clock
            /\ clock - otp[r].began < Latency
        BY <1>t, <2>1, <3>1 DEF TotpInv, HoldInv, TotpRequest
      <4> QED BY <1>t, <4>1
    <3> QED BY <2>1, <3>1 DEF TotpInv, HoldInv, Busy, Holding
  <2> QED BY <1>t, <2>1, <2>2
          DEF TotpInv, TotpTypeOK, RowInv, AcceptedInv, StepSingleUse, OnePending, Pending, Live,
              ConfirmedByPossession, NotConfirmedLate
<1>11. CASE UNCHANGED totpVars
  BY <1>11 DEF totpVars, TotpInv, TotpTypeOK, RowInv, HoldInv, Busy, Holding, AcceptedInv,
               StepSingleUse, OnePending, Pending, Live, ConfirmedByPossession,
               NotConfirmedLate
<1> QED
  BY <1>1, <1>2, <1>3, <1>4, <1>5, <1>6, <1>7, <1>8, <1>9, <1>10, <1>11 DEF TotpNext

-----------------------------------------------------------------------------
(* What follows.                                                           *)

\* Every reachable state satisfies the invariant.
LEMMA TotpInvHolds == TotpSpec => []TotpInv
BY TotpStarts, TotpStep, PTL DEF TotpSpec

\* No step of a secret is accepted twice, by whichever of any number of requests, to
\* confirm or to authenticate (ConsumeTOTPStep).
THEOREM StepsAreSingleUse == TotpSpec => []StepSingleUse
<1>1. TotpInv => StepSingleUse
  BY DEF TotpInv
<1> QED BY <1>1, TotpInvHolds, PTL

\* One enrolment waits at a time, and it is confirmed by who holds its secret and in
\* time (CreateTOTPSecret, ConfirmTOTPSecret).
THEOREM EnrolmentStaysSound == TotpSpec => []EnrolmentIsSound
<1>1. TotpInv => EnrolmentIsSound
  BY DEF TotpInv, EnrolmentIsSound
<1> QED BY <1>1, TotpInvHolds, PTL

\* No step of any request changes a revoked secret (RevokeAllCredentials,
\* RevokeTOTPSecret).
THEOREM RevokedNeverReturns == TotpSpec => RevokedStaysDead
<1>1. ASSUME TotpInv, [TotpNext]_totpVars, NEW s \in TotpReqs, secrets[s].revoked
      PROVE  secrets'[s] = secrets[s]
  <2>1. /\ secrets \in [TotpReqs -> Secret] /\ secrets[s] \in Secret
        /\ ~Live(s) /\ ~Pending(s)
    BY <1>1 DEF TotpInv, TotpTypeOK, Live, Pending
  <2>2. ASSUME NEW r \in TotpReqs, CreateSecret(r) PROVE secrets'[s] = secrets[s]
    <3>1. s # r
      BY <1>1, <2>2 DEF CreateSecret, TotpInv, RowInv, NoSecret
    <3> QED BY <2>1, <2>2, <3>1 DEF CreateSecret
  <2>3. ASSUME NEW r \in TotpReqs, Expire(r) PROVE secrets'[s] = secrets[s]
    BY <1>1, <2>1, <2>3 DEF Expire, Secret
  <2>4. ASSUME NEW r \in TotpReqs, ConsumeStep(r) PROVE secrets'[s] = secrets[s]
    BY <1>1, <2>1, <2>4 DEF ConsumeStep, StepConsumable
  <2>5. ASSUME NEW r \in TotpReqs, Confirm(r) PROVE secrets'[s] = secrets[s]
    BY <2>1, <2>5 DEF Confirm
  <2>6. ASSUME RevokeAll PROVE secrets'[s] = secrets[s]
    BY <2>1, <2>6 DEF RevokeAll
  <2> QED
    BY <1>1, <2>2, <2>3, <2>4, <2>5, <2>6
       DEF TotpNext, Resolve, Load, Check, SetStatus, Tick, totpVars
<1>2. ASSUME TotpInv, [TotpNext]_totpVars
      PROVE  [\A s \in TotpReqs : secrets[s].revoked => secrets'[s] = secrets[s]]_totpVars
  BY <1>1, <1>2
<1> QED BY <1>2, TotpInvHolds, PTL DEF TotpSpec, RevokedStaysDead
=============================================================================
