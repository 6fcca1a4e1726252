------------------------------ MODULE Passkeys ------------------------------
(***************************************************************************)
(* WebAuthn ceremonies and the credentials they create and use             *)
(* (internal/webauthn/webauthn.go, internal/api/public.go,                 *)
(* internal/store/sqlite/challenge.go and credential.go), with the         *)
(* administrator's revocations (internal/api/admin.go, bulk.go).           *)
(*                                                                         *)
(* A begin route issues a challenge.  A request is a process that runs one *)
(* completion, or one revocation, and may name any challenge: its own, one *)
(* of another ceremony, or one that was used before.  A step is a store    *)
(* call; requests interleave between steps, and one that never takes its   *)
(* next step stands for a crash or a failing store.                        *)
(*                                                                         *)
(* The library's verification is external: it accepts a response signed by *)
(* the authenticator that holds the credential, with user verification     *)
(* where the session requires it.  Who signs, the counter they present and *)
(* whether the signature is good are chosen freely, so a copied key is one *)
(* of the signers.  There is one relying party: the comparison of RPID in  *)
(* consumeChallenge always succeeds here.                                  *)
(***************************************************************************)
EXTENDS Integers, Sequences, FiniteSets

CONSTANTS
    Subjects,
    Creds,            \* credential ids, one per authenticator
    Challenges,
    Reqs,
    MaxCredentials,   \* webauthn.max_credentials_per_subject
    ChallengeTTL,     \* webauthn.challenge_ttl
    Latency,          \* longest life of a request, in ticks
    MaxTime,          \* bound: last instant
    MaxCount,         \* bound: largest signature counter
    MaxInterventions  \* bound: bulk revocations and status changes

Nobody == "nobody"

Route == {"register", "named", "discoverable", "revoke"}

ASSUME PasskeyAssumption ==
    /\ Nobody \notin Subjects \cup Creds \cup Challenges \cup Reqs
    /\ Creds \cap Reqs = {} /\ IsFiniteSet(Creds) /\ IsFiniteSet(Reqs)
    /\ MaxCredentials \in Nat \ {0} /\ ChallengeTTL \in Nat /\ Latency \in Nat
    /\ MaxTime \in Nat /\ MaxCount \in Nat /\ MaxInterventions \in Nat

VARIABLES
    refuse,  \* webauthn.refuse_sign_count_regression, fixed for a behaviour
    clock,
    active,  \* the subjects whose status is active
    chal,    \* the webauthn_challenges table
    rows,    \* the webauthn_credentials table
    req,     \* the requests
    acts,    \* interventions so far
    log      \* history: the ceremonies that succeeded, in order

vars == <<refuse, clock, active, chal, rows, req, acts, log>>

\* A row is named by the request that inserted it, or by its credential if it
\* was there at the start.
RowIds == Reqs \cup Creds

Counts == 0..MaxCount

Row == [present : BOOLEAN, cred : Creds \cup {Nobody},
        subject : Subjects \cup {Nobody}, count : Counts,
        warned : BOOLEAN, revoked : BOOLEAN]

NoRow == [present |-> FALSE, cred |-> Nobody, subject |-> Nobody, count |-> 0,
          warned |-> FALSE, revoked |-> FALSE]

NewRow(cred, subject, count) ==
    [NoRow EXCEPT !.present = TRUE, !.cred = cred, !.subject = subject,
                  !.count = count]

\* ListCredentials without the revoked ones.
Held(s) == {i \in RowIds : rows[i].present /\ ~rows[i].revoked /\ rows[i].subject = s}

\* issued stays TRUE when the row is swept; present does not.
Challenge == [issued : BOOLEAN, present : BOOLEAN, consumed : BOOLEAN,
              ceremony : {"registration", "assertion"},
              subject : Subjects \cup {Nobody}, expires : Nat]

NoChallenge == [issued |-> FALSE, present |-> FALSE, consumed |-> FALSE,
                ceremony |-> "assertion", subject |-> Nobody, expires |-> 0]

Stage == {"idle", "consume", "lookup", "cap", "store", "list", "find", "subject",
          "mark", "touch", "advance", "count", "revoke", "done"}

Request ==
    [stage : Stage, route : Route \cup {Nobody},
     began : Nat,
     subject : Subjects \cup {Nobody},      \* the subject the handler read
     chal : Challenges \cup {Nobody},       \* the challenge it names
     cred : Creds \cup {Nobody},            \* registration: the new credential
     row : RowIds \cup {Nobody},            \* assertion: the credential it read
     read : Counts,                         \* its counter when it was read
     count : Counts,                        \* the counter presented
     uv : BOOLEAN,                          \* the user was verified
     allowLast : BOOLEAN,                   \* revocation: allow_last
     seen : Nat,                            \* history: Len(log) at that reading
     raced : BOOLEAN,                       \* history: others stored since the cap check
     down : SUBSET Subjects]                \* history: inactive since it began

Fresh == [stage |-> "idle", route |-> Nobody, began |-> 0, subject |-> Nobody,
          chal |-> Nobody, cred |-> Nobody, row |-> Nobody, read |-> 0,
          count |-> 0, uv |-> FALSE, allowLast |-> FALSE, seen |-> 0,
          raced |-> FALSE, down |-> {}]

Init ==
    /\ refuse \in BOOLEAN
    /\ clock = 1
    /\ active = Subjects
    /\ chal = [c \in Challenges |-> NoChallenge]
    /\ \E owner \in [Creds -> Subjects \cup {Nobody}], n \in [Creds -> {0, 1} \cap Counts] :
         rows = [i \in RowIds |-> IF i \in Creds /\ owner[i] # Nobody
                                  THEN NewRow(i, owner[i], n[i]) ELSE NoRow]
    /\ req = [r \in Reqs |-> Fresh]
    /\ acts = 0
    /\ log = <<>>

-----------------------------------------------------------------------------
(* The begin routes.  The listing that guards a begin is advisory, so it   *)
(* is one step with the insertion of the challenge.                        *)

\* persistChallenge, CreateChallenge.
Persist(c, ceremony, s) ==
    /\ ~chal[c].issued
    /\ chal' = [chal EXCEPT ![c] = [NoChallenge EXCEPT !.issued = TRUE, !.present = TRUE,
                                      !.ceremony = ceremony, !.subject = s,
                                      !.expires = clock + ChallengeTTL]]
    /\ UNCHANGED <<refuse, clock, active, rows, req, acts, log>>

BeginRegistration(c, s) ==
    /\ s \in active
    /\ Cardinality(Held(s)) < MaxCredentials
    /\ Persist(c, "registration", s)

BeginAssertion(c, s) ==
    /\ s \in active
    /\ Held(s) # {}
    /\ Persist(c, "assertion", s)

BeginDiscoverableAssertion(c) ==
    /\ Persist(c, "assertion", Nobody)

-----------------------------------------------------------------------------
(* The completions.                                                        *)

\* The handler returns and its locals are gone.
Return(r) == req' = [req EXCEPT ![r] = [Fresh EXCEPT !.stage = "done"]]

\* Mutant of Resolves: the status is not looked at.
ResolvesAnybody(route, s) ==
    IF route = "discoverable" THEN s = Nobody ELSE s \in Subjects

\* resolveSubject and Subject.Active: the named routes refuse a subject that is
\* not active; the discoverable one knows none yet.
Resolves(route, s) ==
    IF route = "discoverable" THEN s = Nobody ELSE s \in active

Complete(r, route, s, c) ==
    /\ req[r].stage = "idle"
    /\ route # "revoke"
    /\ Resolves(route, s)
    /\ chal[c].issued
    /\ req' = [req EXCEPT ![r] = [Fresh EXCEPT !.stage = "consume", !.route = route,
                                    !.began = clock, !.subject = s, !.chal = c,
                                    !.down = Subjects \ active]]
    /\ UNCHANGED <<refuse, clock, active, chal, rows, acts, log>>

\* Mutant of Consumable: a used challenge is taken again.
ConsumableAgain(c) == chal[c].present /\ chal[c].expires > clock

\* The WHERE clause of ConsumeChallenge.
Consumable(c) == chal[c].present /\ ~chal[c].consumed /\ chal[c].expires > clock

\* Mutant of Fits: the ceremony is compared, the subject is not.
FitsAnybody(r) ==
    chal[req[r].chal].ceremony = (IF req[r].route = "register" THEN "registration"
                                  ELSE "assertion")

\* consumeChallenge's comparison of the ceremony, and the comparison of the
\* subject in each of the three completions.
Fits(r) ==
    LET c == chal[req[r].chal]
    IN  /\ c.ceremony = (IF req[r].route = "register" THEN "registration" ELSE "assertion")
        /\ c.subject = req[r].subject

\* The challenge is spent whether or not it fits.
Consume(r) ==
    /\ req[r].stage = "consume"
    /\ \/ /\ ~Consumable(req[r].chal)
          /\ Return(r)
          /\ UNCHANGED chal
       \/ /\ Consumable(req[r].chal)
          /\ chal' = [chal EXCEPT ![req[r].chal].consumed = TRUE]
          /\ \/ /\ Fits(r)
                /\ req' = [req EXCEPT ![r].stage =
                             CASE req[r].route = "register" -> "lookup"
                               [] req[r].route = "named" -> "list"
                               [] OTHER -> "find"]
             \/ /\ ~Fits(r)
                /\ Return(r)
    /\ UNCHANGED <<refuse, clock, active, rows, acts, log>>

\* What a completed ceremony leaves in the history.
Entry(r, row, s) ==
    [by |-> r, route |-> req[r].route, chal |-> req[r].chal, row |-> row,
     subject |-> s, count |-> req[r].count, uv |-> req[r].uv,
     seen |-> req[r].seen, at |-> clock]

\* CompleteRegistration: the response verifies and passes the policy on models
\* and attestation, and its credential id is not known, revoked rows included.
\* The console's credentials live in a space of their own, which is not modelled.
Lookup(r) ==
    /\ req[r].stage = "lookup"
    /\ \/ \E k \in Creds, n \in Counts :
            /\ ~\E i \in RowIds : rows[i].present /\ rows[i].cred = k
            /\ req' = [req EXCEPT ![r].stage = "cap", ![r].cred = k, ![r].count = n]
       \/ Return(r)
    /\ UNCHANGED <<refuse, clock, active, chal, rows, acts, log>>

\* Mutant of WithinCap: off by one.
WithinCapOneMore(s) == Cardinality(Held(s)) <= MaxCredentials

WithinCap(s) == Cardinality(Held(s)) < MaxCredentials

\* checkCredentialCap.
Cap(r) ==
    /\ req[r].stage = "cap"
    /\ IF WithinCap(req[r].subject)
       THEN req' = [req EXCEPT ![r].stage = "store", ![r].raced = FALSE]
       ELSE Return(r)
    /\ UNCHANGED <<refuse, clock, active, chal, rows, acts, log>>

\* Mutant of Insertable: the index covers one subject's live credentials.
InsertablePerSubject(r) ==
    ~\E i \in Held(req[r].subject) : rows[i].cred = req[r].cred

\* The unique index wc_credential_uq.
Insertable(r) == ~\E i \in RowIds : rows[i].present /\ rows[i].cred = req[r].cred

\* CreateCredential.
Store(r) ==
    /\ req[r].stage = "store"
    /\ IF Insertable(r)
       THEN /\ rows' = [rows EXCEPT ![r] = NewRow(req[r].cred, req[r].subject, req[r].count)]
            /\ log' = Append(log, Entry(r, r, req[r].subject))
            /\ req' = [q \in Reqs |->
                         IF q = r THEN [Fresh EXCEPT !.stage = "done"]
                         ELSE IF req[q].stage = "store" /\ req[q].subject = req[r].subject
                         THEN [req[q] EXCEPT !.raced = TRUE] ELSE req[q]]
       ELSE /\ Return(r)
            /\ UNCHANGED <<rows, log>>
    /\ UNCHANGED <<refuse, clock, active, chal, acts>>

\* Where recordAssertion goes with a counter: absent on both sides, stuck, or
\* advanced.
Bookkeeping(read, count) ==
    IF read = 0 /\ count = 0 THEN "touch"
    ELSE IF count <= read THEN "mark" ELSE "advance"

\* The response verifies against row i with counter n; the rest of the handler
\* works on what was read here.
Validate(r, i, n, uv, next) ==
    req' = [req EXCEPT ![r].stage = next, ![r].row = i, ![r].read = rows[i].count,
                       ![r].count = n, ![r].uv = uv, ![r].seen = Len(log)]

\* CompleteAssertion: ListCredentials and ValidateLogin.
List(r) ==
    /\ req[r].stage = "list"
    /\ \/ \E i \in Held(req[r].subject), n \in Counts, uv \in BOOLEAN :
            Validate(r, i, n, uv, Bookkeeping(rows[i].count, n))
       \/ Return(r)
    /\ UNCHANGED <<refuse, clock, active, chal, rows, acts, log>>

\* CompleteDiscoverableAssertion: GetCredentialByID refuses a revoked row; the
\* session requires user verification.
Find(r) ==
    /\ req[r].stage = "find"
    /\ \/ \E i \in RowIds, n \in Counts :
            /\ rows[i].present /\ ~rows[i].revoked
            /\ Validate(r, i, n, TRUE, "subject")
       \/ Return(r)
    /\ UNCHANGED <<refuse, clock, active, chal, rows, acts, log>>

\* GetSubject on the owner of the credential, whose handle must match.
Subject(r) ==
    /\ req[r].stage = "subject"
    /\ LET s == rows[req[r].row].subject
       IN  IF s \in active
           THEN req' = [req EXCEPT ![r].subject = s,
                                   ![r].stage = Bookkeeping(req[r].read, req[r].count)]
           ELSE Return(r)
    /\ UNCHANGED <<refuse, clock, active, chal, rows, acts, log>>

\* Mutant of Regressed: asks the library's record, which never goes down.
RegressedPerLibrary(r) ==
    LET validated == IF req[r].count > req[r].read THEN req[r].count ELSE req[r].read
    IN  refuse /\ req[r].read # 0 /\ validated < req[r].read

\* The counter presented went backwards and the operator refuses that.
Regressed(r) == refuse /\ req[r].read # 0 /\ req[r].count < req[r].read

\* MarkCloneWarning, revoked or not, then the optional refusal.
Mark(r) ==
    /\ req[r].stage = "mark"
    /\ rows' = [rows EXCEPT ![req[r].row].warned = TRUE]
    /\ IF Regressed(r) THEN Return(r) ELSE req' = [req EXCEPT ![r].stage = "touch"]
    /\ UNCHANGED <<refuse, clock, active, chal, acts, log>>

\* Mutant of Touchable: revoked_at is not in the WHERE clause.
TouchableRevoked(r) == rows[req[r].row].present

\* The WHERE clause of TouchCredential.
Touchable(r) == rows[req[r].row].present /\ ~rows[req[r].row].revoked

\* TouchCredential; the time of use is not kept.
Touch(r) ==
    /\ req[r].stage = "touch"
    /\ log' = IF Touchable(r) THEN Append(log, Entry(r, req[r].row, req[r].subject)) ELSE log
    /\ Return(r)
    /\ UNCHANGED <<refuse, clock, active, chal, rows, acts>>

\* Mutant of Advanceable: no compare-and-swap.
AdvanceableAsRead(r) ==
    rows[req[r].row].present /\ ~rows[req[r].row].revoked /\ req[r].count > req[r].read

\* The WHERE clause of AdvanceSignCount.
Advanceable(r) ==
    LET row == rows[req[r].row]
    IN  row.present /\ ~row.revoked /\ row.count = req[r].read /\ req[r].count > row.count

\* Mutant of Advance: the counter expected next is written, not the one presented.
AdvancePastPresented(r) ==
    /\ req[r].stage = "advance"
    /\ IF Advanceable(r)
       THEN /\ rows' = [rows EXCEPT ![req[r].row].count = req[r].count + 1]
            /\ log' = Append(log, Entry(r, req[r].row, req[r].subject))
       ELSE UNCHANGED <<rows, log>>
    /\ Return(r)
    /\ UNCHANGED <<refuse, clock, active, chal, acts>>

Advance(r) ==
    /\ req[r].stage = "advance"
    /\ IF Advanceable(r)
       THEN /\ rows' = [rows EXCEPT ![req[r].row].count = req[r].count]
            /\ log' = Append(log, Entry(r, req[r].row, req[r].subject))
       ELSE UNCHANGED <<rows, log>>
    /\ Return(r)
    /\ UNCHANGED <<refuse, clock, active, chal, acts>>

-----------------------------------------------------------------------------
(* The administrator, the janitor and time.                                *)

\* handleAdminRevokeCredential, when its limiter lets it: the credential that
\* was read is live.
RevokeBegin(r, i, allowLast) ==
    /\ req[r].stage = "idle"
    /\ rows[i].present /\ ~rows[i].revoked
    /\ req' = [req EXCEPT ![r] = [Fresh EXCEPT !.stage = "count", !.route = "revoke",
                                    !.began = clock, !.row = i, !.allowLast = allowLast]]
    /\ UNCHANGED <<refuse, clock, active, chal, rows, acts, log>>

\* CountActiveCredentials refuses the last one without the override.
RevokeCount(r) ==
    /\ req[r].stage = "count"
    /\ IF Cardinality(Held(rows[req[r].row].subject)) <= 1 /\ ~req[r].allowLast
       THEN Return(r)
       ELSE req' = [req EXCEPT ![r].stage = "revoke"]
    /\ UNCHANGED <<refuse, clock, active, chal, rows, acts, log>>

\* RevokeCredential; a second revocation changes nothing.
Revoke(r) ==
    /\ req[r].stage = "revoke"
    /\ rows' = [rows EXCEPT ![req[r].row].revoked = TRUE]
    /\ Return(r)
    /\ UNCHANGED <<refuse, clock, active, chal, acts, log>>

\* RevokeAllCredentials, once approved.
RevokeAll(s) ==
    /\ acts < MaxInterventions
    /\ rows' = [i \in RowIds |-> IF i \in Held(s) THEN [rows[i] EXCEPT !.revoked = TRUE]
                                 ELSE rows[i]]
    /\ acts' = acts + 1
    /\ UNCHANGED <<refuse, clock, active, chal, req, log>>

\* SetSubjectStatus: an administrator locks or unlocks the subject.
SetStatus(s) ==
    /\ acts < MaxInterventions
    /\ active' = IF s \in active THEN active \ {s} ELSE active \cup {s}
    /\ req' = [r \in Reqs |-> [req[r] EXCEPT !.down = @ \ active']]
    /\ acts' = acts + 1
    /\ UNCHANGED <<refuse, clock, chal, rows, log>>

\* DeleteExpiredChallenges.
Sweep ==
    /\ \E c \in Challenges : chal[c].present /\ chal[c].expires < clock
    /\ chal' = [c \in Challenges |->
                  IF chal[c].expires < clock THEN [chal[c] EXCEPT !.present = FALSE]
                  ELSE chal[c]]
    /\ UNCHANGED <<refuse, clock, active, rows, req, acts, log>>

Tick ==
    /\ clock < MaxTime
    /\ \A r \in Reqs : req[r].stage \notin {"idle", "done"} => clock - req[r].began < Latency
    /\ clock' = clock + 1
    /\ UNCHANGED <<refuse, active, chal, rows, req, acts, log>>

Next ==
    \/ \E c \in Challenges : \/ \E s \in Subjects : BeginRegistration(c, s) \/ BeginAssertion(c, s)
                             \/ BeginDiscoverableAssertion(c)
    \/ \E r \in Reqs :
         \/ \E route \in Route, s \in Subjects \cup {Nobody}, c \in Challenges :
              Complete(r, route, s, c)
         \/ Consume(r) \/ Lookup(r) \/ Cap(r) \/ Store(r)
         \/ List(r) \/ Find(r) \/ Subject(r) \/ Mark(r) \/ Touch(r) \/ Advance(r)
         \/ \E i \in RowIds, allowLast \in BOOLEAN : RevokeBegin(r, i, allowLast)
         \/ RevokeCount(r) \/ Revoke(r)
    \/ \E s \in Subjects : RevokeAll(s) \/ SetStatus(s)
    \/ Sweep
    \/ Tick

Spec == Init /\ [][Next]_vars

-----------------------------------------------------------------------------
(* Properties.                                                             *)

\* Every variable keeps its type.
TypeOK ==
    /\ refuse \in BOOLEAN /\ clock \in Nat /\ active \subseteq Subjects /\ acts \in 0..MaxInterventions
    /\ chal \in [Challenges -> Challenge]
    /\ rows \in [RowIds -> Row]
    /\ req \in [Reqs -> Request]

\* One challenge completes one ceremony, whichever routes and requests present
\* it, together or one after the other (ConsumeChallenge).
ChallengeOnce ==
    \A i, j \in DOMAIN log : log[i].chal = log[j].chal => i = j

\* A ceremony ends as it was begun: an enrolment and a named assertion for the
\* subject the challenge was issued for, a discoverable one on a challenge that
\* names nobody and with the user verified, and always for the subject that owns
\* the credential.  No route finishes another's challenge.
EndsAsBegun ==
    \A i \in DOMAIN log :
        LET e == log[i]  c == chal[e.chal]
        IN  /\ c.subject = (IF e.route = "discoverable" THEN Nobody ELSE e.subject)
            /\ (e.route = "register") <=> (c.ceremony = "registration")
            /\ e.route = "discoverable" => e.uv
            /\ rows[e.row].subject = e.subject

\* An authenticator belongs to one subject for ever: two enrolments of it never
\* both stand, not under two subjects, and not after a revocation.
OneOwner ==
    \A i, j \in RowIds :
        (rows[i].present /\ rows[j].present /\ rows[i].cred = rows[j].cred) => i = j

\* A challenge completes one ceremony, the one it was issued for, and an authenticator
\* ends with one owner (ConsumeChallenge, CreateCredential).
CeremoniesAreSound == TypeOK /\ ChallengeOnce /\ EndsAsBegun /\ OneOwner

\* The cap on a subject's credentials is passed only by an enrolment during whose
\* last two store calls another one of the same subject was stored.
CapPassedOnlyByRace ==
    [][\A r \in Reqs :
         /\ Len(log') > Len(log)
         /\ log'[Len(log')].by = r
         /\ log'[Len(log')].route = "register"
         /\ \E s \in Subjects : s = req[r].subject /\ Cardinality(Held(s)') > MaxCredentials
         => req[r].raced]_vars

\* No ceremony succeeds with a credential that is revoked by then, whatever the
\* request had read before (TouchCredential, AdvanceSignCount).
RevokedAuthenticatesNothing ==
    [][\A i \in DOMAIN log' \ DOMAIN log : ~rows'[log'[i].row].revoked]_vars

\* A subject that has not been active at any time since the request began neither
\* authenticates nor enrols.
LockedGetsNothing ==
    [][\A i \in DOMAIN log' \ DOMAIN log :
         log'[i].subject \notin req[log'[i].by].down]_vars

\* A ceremony succeeds only for a subject that may authenticate, with a credential that
\* stands, and within the cap but for a race (TouchCredential, checkCredentialCap).
OnlyEntitledSucceed ==
    RevokedAuthenticatesNothing /\ LockedGetsNothing /\ CapPassedOnlyByRace

\* Assertions i and j used one credential, i first.
SameKey(i, j) == i < j /\ log[i].row = log[j].row /\ log[j].route # "register"

\* A counter value is accepted twice, or after a higher one that was accepted
\* before the credential was read, only if the clone warning has been recorded.
CloneIsSignalled ==
    \A i, j \in DOMAIN log :
        (/\ SameKey(i, j) /\ log[i].count # 0
         /\ \/ log[j].count = log[i].count
            \/ log[j].count < log[i].count /\ i <= log[j].seen)
        => rows[log[j].row].warned

\* With refuse_sign_count_regression on, no assertion is accepted whose counter is
\* below one that was accepted before the credential was read.
RegressionRefused ==
    refuse =>
        \A i, j \in DOMAIN log :
            (SameKey(i, j) /\ i <= log[j].seen) => log[j].count >= log[i].count

\* A signature counter that stalls or goes back is recorded, and refused where the
\* deployment says so (recordAssertion, AdvanceSignCount, MarkCloneWarning).
CountersHeeded == CloneIsSignalled /\ RegressionRefused

\* What CountActiveCredentials and AllowLast say of the revocation of a single
\* credential: a subject does not lose its last one without the override.
LastNeedsOverride ==
    [][\A r \in Reqs :
         (req[r].stage = "revoke" /\ req'[r].stage = "done" /\ ~req[r].allowLast) =>
            \A s \in Subjects : Held(s) # {} => Held(s)' # {}]_vars
=============================================================================
