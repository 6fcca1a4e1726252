--------------------------- MODULE Approval_proofs ---------------------------
(***************************************************************************)
(* Machine-checked proofs about Approval, for every set of administrators, *)
(* requests and operations, and every lifetime.                            *)
(***************************************************************************)
EXTENDS Approval, TLAPS

-----------------------------------------------------------------------------
(* The inductive invariant.                                                *)

Busy(r) == ask[r].stage \notin {"idle", "done"}

\* A live row's principal is the person who holds the token, and a token issued by a
\* rotation exists once the rotation is over: no row is written twice.
TokenInv ==
    /\ \A t \in Token : tokens[t].present => tokens[t].principal = person[t]
    /\ \A r \in Reqs : tokens[r].present => ask[r].stage = "done"

\* A handler runs for a token that has a row, and not for longer than a request lives.
CallerInv ==
    \A r \in Reqs : Busy(r) =>
        /\ ask[r].caller \in Token /\ tokens[ask[r].caller].present
        /\ ask[r].now <= clock /\ clock <= ask[r].now + Latency

\* An approval is queued by a request that is over.  Who decided it is another person
\* than who asked, and decided in time; nothing undecided is approved or spent.
DecisionAbout(a) ==
    /\ approvals[a].status # "none" =>
         /\ ask[a].stage = "done"
         /\ approvals[a].op \in Operations
         /\ approvals[a].requestedBy \in Token
         /\ tokens[approvals[a].requestedBy].present
    /\ approvals[a].decidedBy # Nobody =>
         /\ approvals[a].status \notin {"none", "pending"}
         /\ tokens[approvals[a].decidedBy].present
         /\ person[approvals[a].requestedBy] # person[approvals[a].decidedBy]
         /\ approvals[a].decidedAt < approvals[a].expiresAt
    /\ approvals[a].status \in {"approved", "executed"} => approvals[a].decidedBy # Nobody
    /\ approvals[a].status = "executed" =>
         approvals[a].executedAt < approvals[a].expiresAt + Latency

DecisionInv == \A a \in Reqs : DecisionAbout(a)

\* What a redemption checked stays as it was checked until it claims the approval, and
\* only one redemption gets as far as running.
RedemptionInv ==
    /\ \A r \in Reqs : ask[r].stage \in {"claim", "run"} =>
         /\ ask[r].approval \in Reqs
         /\ ask[r].op = approvals[ask[r].approval].op
         /\ ask[r].caller = approvals[ask[r].approval].requestedBy
         /\ approvals[ask[r].approval].status \notin {"none", "pending"}
         /\ ask[r].now < approvals[ask[r].approval].expiresAt
    /\ \A r \in Reqs : ask[r].stage = "run" =>
         /\ approvals[ask[r].approval].status = "executed"
         /\ \A s \in Reqs : ask[s].stage = "run" /\ ask[s].approval = ask[r].approval => s = r
         /\ \A x \in runs : x.approval # ask[r].approval

ApprovalInv ==
    /\ ApprovalTypeOK
    /\ TokenInv
    /\ CallerInv
    /\ DecisionInv
    /\ RedemptionInv
    /\ RunsAsApproved
    /\ SpentOnce

-----------------------------------------------------------------------------
(* The types.                                                              *)

\* A token that does not exist, an approval not queued, a request not started.
LEMMA BlankTypes ==
    /\ NoRow \in Row /\ ~NoRow.present
    /\ NoApproval \in Approvals
    /\ GateFresh \in GateRequest /\ GateDone \in GateRequest
BY DEF NoRow, Issued, Row, NoApproval, Approvals, Status, GateFresh, GateDone, GateRequest, GateStage,
       GateKind

\* A request that returns leaves the others alone.
LEMMA ReturnEffect ==
    ASSUME ask \in [Reqs -> GateRequest], NEW r \in Reqs, GateReturn(r)
    PROVE  /\ ask' \in [Reqs -> GateRequest]
           /\ ask'[r].stage = "done"
           /\ \A q \in Reqs \ {r} : ask'[q] = ask[q]
BY BlankTypes DEF GateReturn, GateDone, GateFresh

\* What a rotation writes: the old row keeps all but its expiry, and the new one
\* carries its principal.
LEMMA RotateEffect ==
    ASSUME tokens \in [Token -> Row], NEW old \in Token, NEW new \in Token, old # new,
           NEW cutoff \in Nat, NEW expires \in Nat,
           tokens' = RotateTable(tokens, old, new, cutoff, expires)
    PROVE  /\ tokens' \in [Token -> Row]
           /\ tokens'[new].present /\ tokens'[new].principal = tokens[old].principal
           /\ tokens'[old].present = tokens[old].present
           /\ tokens'[old].principal = tokens[old].principal
           /\ \A t \in Token \ {old, new} : tokens'[t] = tokens[t]
<1> DEFINE e == IF tokens[old].expires = 0 \/ tokens[old].expires > cutoff THEN cutoff
                ELSE tokens[old].expires
           n == [Issued(new, tokens[old].full, expires) EXCEPT
                   !.principal = tokens[old].principal]
           o == [tokens[old] EXCEPT !.expires = e]
<1>1. tokens[old] \in Row
  OBVIOUS
<1>2. n \in Row /\ n.present /\ n.principal = tokens[old].principal
  BY <1>1 DEF Issued, Row
<1>3. o \in Row /\ o.present = tokens[old].present /\ o.principal = tokens[old].principal
  BY <1>1 DEF Row
<1>4. tokens' = [tokens EXCEPT ![old] = o, ![new] = n]
  BY DEF RotateTable
<1> HIDE DEF o, n
<1> QED BY <1>2, <1>3, <1>4

-----------------------------------------------------------------------------
(* The invariant holds.                                                    *)

\* Only the administrators have tokens, and nothing has been asked.
LEMMA ApprovalStarts == ApprovalInit => ApprovalInv
<1> SUFFICES ASSUME ApprovalInit PROVE ApprovalInv
  OBVIOUS
<1>1. \A t \in Admins : Issued(t, TRUE, 0) \in Row /\ Issued(t, TRUE, 0).principal = t
  BY ApprovalAssumption DEF Issued, Row
<1>2. ApprovalTypeOK
  BY <1>1, BlankTypes, ApprovalAssumption DEF ApprovalInit, ApprovalTypeOK
<1>3. TokenInv
  BY <1>1, BlankTypes, ApprovalAssumption DEF ApprovalInit, TokenInv
<1> QED
  BY <1>2, <1>3, BlankTypes
     DEF ApprovalInit, ApprovalInv, CallerInv, Busy, DecisionInv, DecisionAbout, RedemptionInv,
         RunsAsApproved, SpentOnce, NoApproval, GateFresh

\* A request moves before it has anything to do with an approval or a token's row.
LEMMA OnlyRequest ==
    ASSUME ApprovalInv, NEW r \in Reqs, ask' \in [Reqs -> GateRequest],
           \A q \in Reqs \ {r} : ask'[q] = ask[q],
           UNCHANGED <<clock, tokens, approvals, person, runs>>,
           ask[r].stage = "done" => ask'[r].stage = "done",
           Busy(r)' => /\ ask'[r].caller \in Token /\ tokens[ask'[r].caller].present
                       /\ ask'[r].now <= clock /\ clock <= ask'[r].now + Latency,
           ask'[r].stage # "run",
           ask'[r].stage = "claim" =>
             /\ ask'[r].approval \in Reqs
             /\ ask'[r].op = approvals[ask'[r].approval].op
             /\ ask'[r].caller = approvals[ask'[r].approval].requestedBy
             /\ approvals[ask'[r].approval].status \notin {"none", "pending"}
             /\ ask'[r].now < approvals[ask'[r].approval].expiresAt
    PROVE  ApprovalInv'
<1>1. ApprovalTypeOK' /\ TokenInv'
  BY DEF ApprovalInv, ApprovalTypeOK, TokenInv
<1>2. CallerInv'
  BY DEF ApprovalInv, CallerInv, Busy
<1>3. DecisionInv'
  BY DEF ApprovalInv, DecisionInv, DecisionAbout
<1>4. RedemptionInv'
  BY DEF ApprovalInv, RedemptionInv
<1>5. RunsAsApproved' /\ SpentOnce'
  BY DEF ApprovalInv, RunsAsApproved, SpentOnce
<1> QED BY <1>1, <1>2, <1>3, <1>4, <1>5 DEF ApprovalInv

\* Every step of a request, of the janitor and of the clock keeps the invariant.
LEMMA ApprovalStep == ApprovalInv /\ [ApprovalNext]_approvalVars => ApprovalInv'
<1> SUFFICES ASSUME ApprovalInv, [ApprovalNext]_approvalVars PROVE ApprovalInv'
  OBVIOUS
<1> USE DEF GateStage
<1>t. /\ ApprovalTypeOK /\ clock \in Nat /\ tokens \in [Token -> Row]
      /\ approvals \in [Reqs -> Approvals] /\ ask \in [Reqs -> GateRequest]
      /\ person \in [Token -> Admins \cup {Nobody}]
      /\ ApprovalTTL \in Nat /\ Grace \in Nat /\ Latency \in Nat
      /\ Reqs \subseteq Token
  BY ApprovalAssumption DEF ApprovalInv, ApprovalTypeOK
<1>1. ASSUME NEW r \in Reqs, NEW t \in Token, NEW kind \in GateKind, SignIn(r, t, kind)
      PROVE  ApprovalInv'
  <2>1. /\ ask' \in [Reqs -> GateRequest] /\ ask'[r].stage = kind /\ ask'[r].caller = t
        /\ ask'[r].now = clock /\ \A q \in Reqs \ {r} : ask'[q] = ask[q]
    BY <1>1, <1>t DEF SignIn, GateFresh, GateRequest
  <2>2. tokens[t].present /\ ask[r].stage = "idle" /\ kind \notin {"claim", "run"}
    BY <1>1 DEF SignIn, Usable, GateKind
  <2> QED BY <1>1, <1>t, <2>1, <2>2, OnlyRequest DEF SignIn, Busy
<1>2. ASSUME NEW r \in Reqs, RotateOwn(r) PROVE ApprovalInv'
  <2> DEFINE old == ask[r].caller
  <2>1. /\ ask' \in [Reqs -> GateRequest] /\ ask'[r].stage = "done"
        /\ \A q \in Reqs \ {r} : ask'[q] = ask[q]
        /\ UNCHANGED <<clock, approvals, runs>> /\ ask[r].stage = "rotate"
    BY <1>2, <1>t, ReturnEffect DEF RotateOwn
  <2>2. CASE ~Rotatable(tokens, old)
    BY <1>2, <2>1, <2>2, OnlyRequest DEF RotateOwn, Busy
  <2>3. CASE Rotatable(tokens, old)
    <3>1. /\ old \in Token /\ tokens[old].present /\ ~tokens[r].present /\ old # r
          /\ ask[r].now + Grace \in Nat /\ tokens[old].expires \in Nat
      BY <1>t, <2>1 DEF ApprovalInv, CallerInv, TokenInv, Busy, GateRequest, Row
    <3>2. /\ tokens' = RotateTable(tokens, old, r, ask[r].now + Grace, tokens[old].expires)
          /\ person' = [person EXCEPT ![r] = person[old]]
      BY <1>2, <2>3 DEF RotateOwn
    <3>3. /\ tokens' \in [Token -> Row]
          /\ tokens'[r].present /\ tokens'[r].principal = tokens[old].principal
          /\ tokens'[old].present /\ tokens'[old].principal = tokens[old].principal
          /\ \A t \in Token \ {old, r} : tokens'[t] = tokens[t]
      BY <1>t, <3>1, <3>2, RotateEffect
    <3>4. \A t \in Token : tokens[t].present =>
            tokens'[t].present /\ person'[t] = person[t] /\ t # r
      BY <1>t, <3>1, <3>2, <3>3
    <3>5. ApprovalTypeOK'
      BY <1>t, <2>1, <3>1, <3>2, <3>3 DEF ApprovalTypeOK
    <3>6. TokenInv'
      BY <1>t, <2>1, <3>1, <3>2, <3>3 DEF ApprovalInv, TokenInv
    <3>7. CallerInv'
      BY <2>1, <3>4 DEF ApprovalInv, CallerInv, Busy
    <3>8. DecisionInv'
      <4> SUFFICES ASSUME NEW a \in Reqs
                   PROVE  /\ approvals[a].status # "none" =>
                               /\ ask'[a].stage = "done"
                               /\ approvals[a].requestedBy \in Token
                               /\ tokens'[approvals[a].requestedBy].present
                          /\ approvals[a].decidedBy # Nobody =>
                               /\ approvals[a].status \notin {"none", "pending"}
                               /\ tokens'[approvals[a].decidedBy].present
                               /\ person'[approvals[a].requestedBy]
                                    # person'[approvals[a].decidedBy]
        BY <2>1 DEF ApprovalInv, DecisionInv, DecisionAbout
      <4>1. approvals[a].decidedBy \in Token \cup {Nobody}
        BY <1>t DEF Approvals
      <4> QED BY <2>1, <3>4, <4>1 DEF ApprovalInv, DecisionInv, DecisionAbout
    <3>9. RedemptionInv' /\ RunsAsApproved' /\ SpentOnce'
      BY <2>1 DEF ApprovalInv, RedemptionInv, RunsAsApproved, SpentOnce
    <3> QED BY <3>5, <3>6, <3>7, <3>8, <3>9 DEF ApprovalInv
  <2> QED BY <2>2, <2>3
<1>3. ASSUME NEW r \in Reqs, NEW op \in Operations, Queue(r, op) PROVE ApprovalInv'
  <2> DEFINE row == [NoApproval EXCEPT !.status = "pending", !.op = op,
                       !.requestedBy = ask[r].caller, !.expiresAt = ask[r].now + ApprovalTTL]
  <2>1. /\ ask' \in [Reqs -> GateRequest] /\ ask'[r].stage = "done"
        /\ \A q \in Reqs \ {r} : ask'[q] = ask[q]
        /\ UNCHANGED <<clock, tokens, person, runs>> /\ ask[r].stage = "queue"
        /\ approvals' = [approvals EXCEPT ![r] = row]
    BY <1>3, <1>t, ReturnEffect DEF Queue
  <2>2. ask[r].caller \in Token /\ tokens[ask[r].caller].present
    BY <2>1 DEF ApprovalInv, CallerInv, Busy
  <2>3. /\ row \in Approvals /\ row.status = "pending" /\ row.decidedBy = Nobody
        /\ row.requestedBy = ask[r].caller /\ row.op = op
    <3>1. ask[r].now + ApprovalTTL \in Nat
      BY <1>t DEF GateRequest
    <3> HIDE DEF ApprovalInv
    <3> QED BY <2>2, <3>1 DEF NoApproval, Approvals, Status
  <2>4. approvals[r].status = "none"
    BY <2>1 DEF ApprovalInv, DecisionInv, DecisionAbout
  <2> HIDE DEF row
  <2>5. ApprovalTypeOK' /\ TokenInv' /\ CallerInv'
    BY <1>t, <2>1, <2>3 DEF ApprovalInv, ApprovalTypeOK, TokenInv, CallerInv, Busy
  <2>6. DecisionInv'
    BY <1>t, <2>1, <2>2, <2>3 DEF ApprovalInv, DecisionInv, DecisionAbout
  <2>7. RedemptionInv'
    BY <1>t, <2>1, <2>4 DEF ApprovalInv, RedemptionInv
  <2>8. RunsAsApproved' /\ SpentOnce'
    <3>1. \A x \in runs : x.approval \in Reqs /\ x.approval # r
      BY <1>t, <2>4 DEF ApprovalInv, RunsAsApproved, ApprovalTypeOK
    <3> QED BY <1>t, <2>1, <3>1 DEF ApprovalInv, RunsAsApproved, SpentOnce
  <2> QED BY <2>5, <2>6, <2>7, <2>8 DEF ApprovalInv
<1>4. ASSUME NEW r \in Reqs, NEW a \in Reqs, NEW verdict \in {"approved", "rejected"},
             Decide(r, a, verdict)
      PROVE  ApprovalInv'
  <2> DEFINE t == ask[r].caller
  <2>1. /\ ask' \in [Reqs -> GateRequest] /\ ask'[r].stage = "done"
        /\ \A q \in Reqs \ {r} : ask'[q] = ask[q]
        /\ UNCHANGED <<clock, tokens, person, runs>> /\ ask[r].stage = "decide"
    BY <1>4, <1>t, ReturnEffect DEF Decide
  <2>2. CASE ~Decidable(a, t, ask[r].now)
    BY <1>4, <2>1, <2>2, OnlyRequest DEF Decide, Busy
  <2>3. CASE Decidable(a, t, ask[r].now)
    <3>1. /\ approvals' = [approvals EXCEPT ![a].status = verdict, ![a].decidedBy = t,
                                            ![a].decidedAt = ask[r].now]
          /\ approvals[a].status = "pending" /\ ask[r].now < approvals[a].expiresAt
          /\ tokens[approvals[a].requestedBy].principal # tokens[t].principal
      BY <1>4, <2>3 DEF Decide, Decidable
    <3>2. t \in Token /\ tokens[t].present /\ t # Nobody
      BY <2>1, ApprovalAssumption DEF ApprovalInv, CallerInv, Busy
    <3>3. /\ ask[a].stage = "done" /\ approvals[a].requestedBy \in Token
          /\ tokens[approvals[a].requestedBy].present
          /\ person[approvals[a].requestedBy] # person[t]
      BY <3>1, <3>2 DEF ApprovalInv, DecisionInv, DecisionAbout, TokenInv
    <3> DEFINE row == [approvals[a] EXCEPT !.status = verdict, !.decidedBy = t,
                                          !.decidedAt = ask[r].now]
    <3>d. /\ row \in Approvals
          /\ row.status = verdict /\ row.decidedBy = t /\ row.decidedAt = ask[r].now
          /\ row.op = approvals[a].op /\ row.requestedBy = approvals[a].requestedBy
          /\ row.expiresAt = approvals[a].expiresAt
      <4>1. approvals[a] \in Approvals /\ ask[r].now \in Nat
        BY <1>t DEF GateRequest
      <4> QED BY <3>2, <4>1 DEF Approvals, Status
    <3>e. approvals' = [approvals EXCEPT ![a] = row]
      BY <3>1
    <3> HIDE DEF row
    <3>4. /\ approvals' \in [Reqs -> Approvals]
          /\ approvals'[a].status = verdict /\ approvals'[a].decidedBy = t
          /\ approvals'[a].decidedAt = ask[r].now
          /\ approvals'[a].op = approvals[a].op
          /\ approvals'[a].requestedBy = approvals[a].requestedBy
          /\ approvals'[a].expiresAt = approvals[a].expiresAt
          /\ \A b \in Reqs \ {a} : approvals'[b] = approvals[b]
      BY <1>t, <3>d, <3>e
    <3>5. ApprovalTypeOK' /\ TokenInv' /\ CallerInv'
      BY <1>t, <2>1, <3>4 DEF ApprovalInv, ApprovalTypeOK, TokenInv, CallerInv, Busy
    <3>6. DecisionInv'
      <4>1. SUFFICES ASSUME NEW b \in Reqs PROVE DecisionAbout(b)'
        BY DEF DecisionInv
      <4>2. DecisionAbout(b)
        BY DEF ApprovalInv, DecisionInv
      <4>3. CASE b # a
        <5>1. approvals'[b] = approvals[b] /\ (ask[b].stage = "done" => ask'[b].stage = "done")
          BY <2>1, <3>4, <4>3
        <5> QED BY <2>1, <4>2, <5>1 DEF DecisionAbout
      <4>4. CASE b = a
        <5>1. /\ ask'[a].stage = "done" /\ verdict \in {"approved", "rejected"}
              /\ approvals[a].op \in Operations
          BY <2>1, <3>1, <3>3, <4>2, <4>4 DEF DecisionAbout
        <5>2. tokens' = tokens /\ person' = person
          BY <2>1
        <5> QED BY <3>1, <3>2, <3>3, <3>4, <4>4, <5>1, <5>2 DEF DecisionAbout
      <4> QED BY <4>3, <4>4
    <3>7. RedemptionInv'
      <4>1. ASSUME NEW q \in Reqs, ask[q].stage \in {"claim", "run"}
            PROVE  approvals'[ask[q].approval] = approvals[ask[q].approval]
        BY <3>1, <3>4, <4>1 DEF ApprovalInv, RedemptionInv
      <4> QED BY <2>1, <4>1 DEF ApprovalInv, RedemptionInv
    <3>8. RunsAsApproved' /\ SpentOnce'
      <4>1. \A x \in runs : x.approval \in Reqs /\ x.approval # a
        BY <3>1 DEF ApprovalInv, RunsAsApproved, ApprovalTypeOK
      <4> QED BY <2>1, <3>4, <4>1 DEF ApprovalInv, RunsAsApproved, SpentOnce
    <3> QED BY <3>5, <3>6, <3>7, <3>8 DEF ApprovalInv
  <2> QED BY <2>2, <2>3
<1>5. ASSUME NEW r \in Reqs, NEW a \in Reqs, NEW op \in Operations, Redeem(r, a, op)
      PROVE  ApprovalInv'
  <2>1. CASE Redeemable(a, ask[r].caller, op, clock)
    <3>1. /\ ask' \in [Reqs -> GateRequest] /\ ask'[r].stage = "claim"
          /\ ask'[r].approval = a /\ ask'[r].op = op /\ ask'[r].now = clock
          /\ ask'[r].caller = ask[r].caller
          /\ \A q \in Reqs \ {r} : ask'[q] = ask[q]
      <4>1. ask' = [ask EXCEPT ![r] = [ask[r] EXCEPT !.stage = "claim", !.approval = a,
                                                     !.op = op, !.now = clock]]
        BY <1>5, <2>1 DEF Redeem, GateReturn, Redeemable
      <4> QED BY <1>t, <4>1 DEF GateRequest
    <3>2. ask[r].caller \in Token /\ tokens[ask[r].caller].present /\ ask[r].stage = "redeem"
      BY <1>5 DEF Redeem, ApprovalInv, CallerInv, Busy
    <3> QED BY <1>5, <1>t, <2>1, <3>1, <3>2, OnlyRequest DEF Redeem, Redeemable
  <2>2. CASE ~Redeemable(a, ask[r].caller, op, clock)
    <3>1. GateReturn(r) /\ ask[r].stage = "redeem"
      BY <1>5, <2>2 DEF Redeem
    <3> QED BY <1>5, <1>t, <3>1, ReturnEffect, OnlyRequest DEF Redeem, Busy
  <2> QED BY <2>1, <2>2
<1>6. ASSUME NEW r \in Reqs, Claim(r) PROVE ApprovalInv'
  <2> DEFINE a == ask[r].approval
  <2>1. /\ a \in Reqs /\ ask[r].stage = "claim" /\ UNCHANGED <<clock, tokens, person, runs>>
        /\ ask[r].op = approvals[a].op /\ ask[r].caller = approvals[a].requestedBy
        /\ ask[r].now < approvals[a].expiresAt /\ clock <= ask[r].now + Latency
    BY <1>6 DEF Claim, ApprovalInv, RedemptionInv, CallerInv, Busy
  <2>2. CASE ~Claimable(a)
    <3>1. GateReturn(r) /\ UNCHANGED approvals
      BY <1>6, <2>2 DEF Claim
    <3> QED BY <1>t, <2>1, <3>1, ReturnEffect, OnlyRequest DEF Busy
  <2>3. CASE Claimable(a)
    <3>1. /\ approvals' = [approvals EXCEPT ![a].status = "executed", ![a].executedAt = clock]
          /\ ask' = [ask EXCEPT ![r].stage = "run"] /\ approvals[a].status = "approved"
      BY <1>6, <2>3 DEF Claim, Claimable
    <3>2. /\ approvals' \in [Reqs -> Approvals]
          /\ approvals'[a].status = "executed" /\ approvals'[a].executedAt = clock
          /\ approvals'[a].decidedBy = approvals[a].decidedBy
          /\ approvals'[a].decidedAt = approvals[a].decidedAt
          /\ approvals'[a].op = approvals[a].op
          /\ approvals'[a].requestedBy = approvals[a].requestedBy
          /\ approvals'[a].expiresAt = approvals[a].expiresAt
          /\ \A b \in Reqs \ {a} : approvals'[b] = approvals[b]
      BY <1>t, <2>1, <3>1 DEF Approvals, Status
    <3>3. /\ ask' \in [Reqs -> GateRequest] /\ ask'[r].stage = "run"
          /\ ask'[r].caller = ask[r].caller /\ ask'[r].now = ask[r].now
          /\ ask'[r].approval = a /\ ask'[r].op = ask[r].op
          /\ \A q \in Reqs \ {r} : ask'[q] = ask[q]
      BY <1>t, <3>1 DEF GateRequest
    <3>4. ApprovalTypeOK' /\ TokenInv' /\ CallerInv'
      BY <1>t, <2>1, <3>2, <3>3 DEF ApprovalInv, ApprovalTypeOK, TokenInv, CallerInv, Busy
    <3>5. DecisionInv'
      <4>1. /\ approvals[a].expiresAt \in Nat /\ ask[r].now \in Nat
        BY <1>t, <2>1 DEF Approvals, GateRequest
      <4>2. clock < approvals[a].expiresAt + Latency
        BY <1>t, <2>1, <4>1
      <4>3. ask[a].stage = "done" /\ a # r
        BY <2>1, <3>1 DEF ApprovalInv, DecisionInv, DecisionAbout
      <4>4. ASSUME NEW b \in Reqs PROVE DecisionAbout(b)'
        <5>1. DecisionAbout(b)
          BY DEF ApprovalInv, DecisionInv
        <5>2. CASE b # a
          BY <2>1, <3>2, <3>3, <5>1, <5>2 DEF DecisionAbout
        <5>3. CASE b = a
          <6>1. /\ approvals[a].status # "none" /\ approvals[a].decidedBy # Nobody
                /\ approvals'[a].status = "executed" /\ approvals'[a].executedAt = clock
            BY <2>1, <3>1, <3>2, <5>1, <5>3 DEF DecisionAbout
          <6>2. tokens' = tokens /\ person' = person /\ ask'[a].stage = "done"
            BY <2>1, <3>3, <4>3
          <6>3. approvals'[a].executedAt < approvals'[a].expiresAt + Latency
            BY <3>2, <4>2, <6>1
          <6> QED BY <3>2, <5>1, <5>3, <6>1, <6>2, <6>3 DEF DecisionAbout
        <5> QED BY <5>2, <5>3
      <4> QED BY <4>4 DEF DecisionInv
    <3>6. RedemptionInv'
      <4>1. \A s \in Reqs : ask[s].stage = "run" => ask[s].approval # a
        BY <3>1 DEF ApprovalInv, RedemptionInv
      <4>2. \A x \in runs : x.approval # a
        BY <3>1 DEF ApprovalInv, RunsAsApproved
      <4>3. \A s \in Reqs \ {r} : /\ ask'[s] = ask[s]
                                  /\ ask[s].stage = "run" => ask[s].approval # a
        BY <3>3, <4>1
      <4>4. ASSUME NEW s \in Reqs, ask'[s].stage \in {"claim", "run"}
            PROVE  /\ ask'[s].approval \in Reqs
                   /\ ask'[s].op = approvals'[ask'[s].approval].op
                   /\ ask'[s].caller = approvals'[ask'[s].approval].requestedBy
                   /\ approvals'[ask'[s].approval].status \notin {"none", "pending"}
                   /\ ask'[s].now < approvals'[ask'[s].approval].expiresAt
        <5>1. CASE s = r
          BY <2>1, <3>2, <3>3, <5>1
        <5>2. CASE s # r
          <6>1. /\ ask'[s] = ask[s] /\ ask[s].approval \in Reqs
                /\ ask[s].op = approvals[ask[s].approval].op
                /\ ask[s].caller = approvals[ask[s].approval].requestedBy
                /\ approvals[ask[s].approval].status \notin {"none", "pending"}
                /\ ask[s].now < approvals[ask[s].approval].expiresAt
            BY <4>3, <4>4, <5>2 DEF ApprovalInv, RedemptionInv
          <6> QED BY <3>2, <6>1
        <5> QED BY <5>1, <5>2
      <4>5. ASSUME NEW s \in Reqs, ask'[s].stage = "run"
            PROVE  /\ approvals'[ask'[s].approval].status = "executed"
                   /\ \A q \in Reqs : ask'[q].stage = "run" /\ ask'[q].approval = ask'[s].approval
                                        => q = s
                   /\ \A x \in runs' : x.approval # ask'[s].approval
        <5>1. CASE s = r
          BY <2>1, <3>2, <3>3, <4>2, <4>3, <5>1
        <5>2. CASE s # r
          <6>1. /\ ask'[s] = ask[s] /\ ask[s].stage = "run" /\ ask[s].approval # a
                /\ ask[s].approval \in Reqs
                /\ approvals[ask[s].approval].status = "executed"
                /\ \A q \in Reqs : ask[q].stage = "run" /\ ask[q].approval = ask[s].approval
                                    => q = s
                /\ \A x \in runs : x.approval # ask[s].approval
            BY <4>3, <4>5, <5>2 DEF ApprovalInv, RedemptionInv
          <6> QED BY <2>1, <3>2, <3>3, <4>3, <6>1
        <5> QED BY <5>1, <5>2
      <4> QED BY <4>4, <4>5 DEF RedemptionInv
    <3>7. RunsAsApproved' /\ SpentOnce'
      <4>1. \A x \in runs : x.approval \in Reqs
        BY <1>t DEF ApprovalTypeOK
      <4> QED BY <2>1, <3>2, <4>1 DEF ApprovalInv, RunsAsApproved, SpentOnce
    <3> QED BY <3>4, <3>5, <3>6, <3>7 DEF ApprovalInv
  <2> QED BY <2>2, <2>3
<1>7. ASSUME NEW r \in Reqs, Run(r) PROVE ApprovalInv'
  <2> DEFINE x == [by |-> r, token |-> ask[r].caller, approval |-> ask[r].approval,
                   op |-> ask[r].op]
  <2>1. /\ ask' \in [Reqs -> GateRequest] /\ ask'[r].stage = "done"
        /\ \A q \in Reqs \ {r} : ask'[q] = ask[q]
        /\ UNCHANGED <<clock, tokens, approvals, person>> /\ ask[r].stage = "run"
    BY <1>7, <1>t, ReturnEffect DEF Run
  <2>2. CASE UNCHANGED runs
    BY <2>1, <2>2, OnlyRequest DEF Busy
  <2>3. CASE runs' = runs \cup {x}
    <3>1. /\ ask[r].caller \in Token /\ ask[r].approval \in Reqs
          /\ ask[r].op = approvals[ask[r].approval].op
          /\ ask[r].caller = approvals[ask[r].approval].requestedBy
          /\ approvals[ask[r].approval].status = "executed"
          /\ \A y \in runs : y.approval # ask[r].approval
          /\ \A s \in Reqs \ {r} : ask[s].stage = "run" => ask[s].approval # ask[r].approval
      BY <2>1 DEF ApprovalInv, CallerInv, Busy, RedemptionInv
    <3>2. ask[r].op \in Operations
      BY <3>1 DEF ApprovalInv, DecisionInv, DecisionAbout
    <3>3. ApprovalTypeOK' /\ TokenInv' /\ CallerInv'
      BY <1>t, <2>1, <2>3, <3>1, <3>2 DEF ApprovalInv, ApprovalTypeOK, TokenInv, CallerInv, Busy
    <3>4. DecisionInv'
      BY <2>1 DEF ApprovalInv, DecisionInv, DecisionAbout
    <3>5. RedemptionInv'
      <4>1. ASSUME NEW s \in Reqs, ask'[s].stage \in {"claim", "run"}
            PROVE  s # r /\ ask'[s] = ask[s]
        BY <2>1, <4>1
      <4>2. \A s \in Reqs : ask'[s].stage = "run" => x.approval # ask'[s].approval
        BY <3>1, <4>1
      <4> QED BY <2>1, <2>3, <4>1, <4>2 DEF ApprovalInv, RedemptionInv
    <3>6. RunsAsApproved' /\ SpentOnce'
      BY <2>1, <2>3, <3>1 DEF ApprovalInv, RunsAsApproved, SpentOnce
    <3> QED BY <3>3, <3>4, <3>5, <3>6 DEF ApprovalInv
  <2> QED BY <1>7, <2>2, <2>3 DEF Run
<1>8. ASSUME ExpireApprovals PROVE ApprovalInv'
  <2>1. UNCHANGED <<clock, tokens, ask, person, runs>>
    BY <1>8 DEF ExpireApprovals
  <2>2. \A a \in Reqs :
          \/ approvals'[a] = approvals[a]
          \/ /\ approvals[a].status = "pending"
             /\ approvals'[a] = [approvals[a] EXCEPT !.status = "expired"]
    BY <1>8 DEF ExpireApprovals
  <2>3. approvals' \in [Reqs -> Approvals]
  <3> DEFINE lapsed(a) == [approvals[a] EXCEPT !.status = "expired"]
  <3>1. \A a \in Reqs : approvals[a] \in Approvals
    BY <1>t
  <3>2. \A a \in Reqs : lapsed(a) \in Approvals
    BY <3>1 DEF Approvals, Status
  <3> DEFINE late(a) == approvals[a].status = "pending" /\ approvals[a].expiresAt < clock
  <3>3. approvals' = [a \in Reqs |-> IF late(a) THEN lapsed(a) ELSE approvals[a]]
    BY <1>8 DEF ExpireApprovals
  <3> HIDE DEF lapsed, late
  <3> QED BY <3>1, <3>2, <3>3
  <2>4. \A a \in Reqs :
          /\ approvals'[a].op = approvals[a].op
          /\ approvals'[a].requestedBy = approvals[a].requestedBy
          /\ approvals'[a].expiresAt = approvals[a].expiresAt
          /\ approvals'[a].decidedBy = approvals[a].decidedBy
          /\ approvals'[a].decidedAt = approvals[a].decidedAt
          /\ approvals'[a].executedAt = approvals[a].executedAt
          /\ \/ approvals'[a].status = approvals[a].status
             \/ approvals[a].status = "pending" /\ approvals'[a].status = "expired"
    <3> SUFFICES ASSUME NEW a \in Reqs,
                        approvals'[a] = [approvals[a] EXCEPT !.status = "expired"],
                        approvals[a].status = "pending"
                 PROVE  /\ approvals'[a].op = approvals[a].op
                        /\ approvals'[a].requestedBy = approvals[a].requestedBy
                        /\ approvals'[a].expiresAt = approvals[a].expiresAt
                        /\ approvals'[a].decidedBy = approvals[a].decidedBy
                        /\ approvals'[a].decidedAt = approvals[a].decidedAt
                        /\ approvals'[a].executedAt = approvals[a].executedAt
                        /\ approvals'[a].status = "expired"
      BY <2>2
    <3>1. approvals[a] \in Approvals
      BY <1>t
    <3> QED BY <3>1 DEF Approvals
  <2>5. ApprovalTypeOK' /\ TokenInv' /\ CallerInv'
    BY <1>t, <2>1, <2>3 DEF ApprovalInv, ApprovalTypeOK, TokenInv, CallerInv, Busy
  <2>6. DecisionInv'
    <3> SUFFICES ASSUME NEW a \in Reqs PROVE DecisionAbout(a)'
      BY DEF DecisionInv
    <3>1. DecisionAbout(a)
      BY DEF ApprovalInv, DecisionInv
    <3> QED BY <2>1, <2>4, <3>1 DEF DecisionAbout
  <2>7. RedemptionInv'
    BY <2>1, <2>4 DEF ApprovalInv, RedemptionInv
  <2>8. RunsAsApproved' /\ SpentOnce'
    <3>1. \A x \in runs : x.approval \in Reqs
      BY <1>t DEF ApprovalTypeOK
    <3> QED BY <2>1, <2>4, <3>1 DEF ApprovalInv, RunsAsApproved, SpentOnce
  <2> QED BY <2>5, <2>6, <2>7, <2>8 DEF ApprovalInv
<1>9. ASSUME TickApprovals PROVE ApprovalInv'
  <2>1. /\ clock' = clock + 1 /\ UNCHANGED <<tokens, approvals, ask, person, runs>>
        /\ \A r \in Reqs : Busy(r) => clock - ask[r].now < Latency
    BY <1>9 DEF TickApprovals, Busy
  <2>2. CallerInv'
    <3> SUFFICES ASSUME NEW r \in Reqs, Busy(r)
                 PROVE  ask[r].now <= clock + 1 /\ clock + 1 <= ask[r].now + Latency
      BY <2>1 DEF ApprovalInv, CallerInv, Busy
    <3>1. ask[r].now \in Nat /\ ask[r].now <= clock /\ clock - ask[r].now < Latency
      BY <1>t, <2>1 DEF ApprovalInv, CallerInv, GateRequest
    <3> QED BY <1>t, <3>1
  <2> QED BY <1>t, <2>1, <2>2
          DEF ApprovalInv, ApprovalTypeOK, TokenInv, DecisionInv, DecisionAbout, RedemptionInv,
              RunsAsApproved, SpentOnce
<1>10. CASE UNCHANGED approvalVars
  BY <1>10 DEF approvalVars, ApprovalInv, ApprovalTypeOK, TokenInv, CallerInv, Busy, DecisionInv,
               DecisionAbout, RedemptionInv, RunsAsApproved, SpentOnce
<1> QED
  BY <1>1, <1>2, <1>3, <1>4, <1>5, <1>6, <1>7, <1>8, <1>9, <1>10 DEF ApprovalNext

-----------------------------------------------------------------------------
(* What follows.                                                           *)

\* Every reachable state satisfies the invariant.
LEMMA ApprovalInvHolds == ApprovalSpec => []ApprovalInv
BY ApprovalStarts, ApprovalStep, PTL DEF ApprovalSpec

\* No gated operation runs that the person who asked for it approved alone, with any
\* number of tokens and rotations (DecideApproval compares principals).
THEOREM TwoPersonsAlways == ApprovalSpec => []TwoPersons
<1>1. ApprovalInv => TwoPersons
  <2> SUFFICES ASSUME ApprovalInv, NEW x \in runs
               PROVE  /\ approvals[x.approval].decidedBy # Nobody
                      /\ person[approvals[x.approval].requestedBy]
                           # person[approvals[x.approval].decidedBy]
    BY DEF TwoPersons
  <2>1. x.approval \in Reqs /\ approvals[x.approval].status = "executed"
    BY DEF ApprovalInv, ApprovalTypeOK, RunsAsApproved
  <2> QED BY <2>1 DEF ApprovalInv, DecisionInv, DecisionAbout
<1> QED BY <1>1, ApprovalInvHolds, PTL

\* However many redemptions of one approval run at once, one operation runs at most
\* (MarkApprovalExecuted).
THEOREM SpentOnceAlways == ApprovalSpec => []SpentOnce
<1>1. ApprovalInv => SpentOnce
  BY DEF ApprovalInv
<1> QED BY <1>1, ApprovalInvHolds, PTL

\* What runs is what was approved, for the token that asked, and in time
\* (decideApproval, redeemApproval).
THEOREM HonouredAlways == ApprovalSpec => []ApprovalsAreHonoured
<1>1. ApprovalInv => ApprovalsAreHonoured
  BY DEF ApprovalInv, ApprovalsAreHonoured, NotHeldInReserve, DecisionInv, DecisionAbout
<1> QED BY <1>1, ApprovalInvHolds, PTL
=============================================================================
