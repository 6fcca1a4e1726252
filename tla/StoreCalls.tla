----------------------------- MODULE StoreCalls -----------------------------
(***************************************************************************)
(* The writing calls of the PostgreSQL store, as programs of SQL           *)
(* statements.  A statement is a partial function on rows: its domain is   *)
(* the WHERE clause, its values are what SET, DELETE or INSERT leave.      *)
(*                                                                         *)
(* AtomicStore runs a program in one step, which is how every other module *)
(* of this project takes a store call; PgStore runs it the way a READ      *)
(* COMMITTED transaction does, row by row, beside others.                  *)
(***************************************************************************)
EXTENDS Naturals, Sequences, FiniteSets, SequencesExt

CONSTANTS
    Sessions        \* database sessions; a session's name is also the id of the row it inserts

\* Rows that are there before any call of the run begins.
Stored == {"a", "b"}

Ids == Stored \cup Sessions

\* Instants: 0 stands for NULL where a column is nullable.
Instants == 0..2
Counts == 0..3

Absent == [absent |-> TRUE]

(***************************************************************************)
(* The tables, by the columns the statements test or set.  A row says by   *)
(* its columns which table it belongs to, so a statement over every id     *)
(* touches the rows of its own table only.                                 *)
(***************************************************************************)
Credential == [sign_count : 0..2, last_used : Instants, clone_warning : BOOLEAN,
               revoked_reason : {"none", "first", "second", "all"}]

Secret == [last_timestep : 0..2, sealed : {"old", "new"}, confirmed : BOOLEAN, revoked : BOOLEAN]

Code == [batch : {"first"} \cup Sessions, consumed_at : Instants]

Ceremony == [consumed_at : Instants, expires_at : 1..2, owned : BOOLEAN]

Key == [key_expires : Instants, key_revoked : Instants, key_used : Instants, principal : Ids]

Request == [status : {"pending", "approved", "rejected", "executed", "failed", "expired"},
            request_expires : 1..2, decided_by : {"nobody", "x", "y"}]

Bucket == [window_start : 1..2, attempts : Counts, failures : Counts,
           blocked_until : Instants, subject_id : BOOLEAN, updated_at : 1..2]

Subject == [subject_status : {"active", "locked", "pending_deletion"}, deleted : BOOLEAN]

Request_of_erasure == [erasure_status : {"pending", "cancelled", "purged"}, reason : BOOLEAN]

\* The alerts of one fingerprint: the occurrences of the open row, 0 when there is none,
\* and how many rows have been acknowledged, which is what tells the open row's id from
\* that of the ones before it.
Alert == [open : Counts, acknowledged : Counts]

(***************************************************************************)
(* Statements                                                              *)
(*                                                                         *)
(* on: the rows it ranges over; does: what it leaves of each row it        *)
(* matches; needs: the refusal when it matches none, or "nothing"; reads:  *)
(* it locks no row; indexed: it finds its row through a unique index, not  *)
(* through the statement's snapshot; key, among, unique: what it locks in  *)
(* an index, and the rows it must not be beside; sweeping: it ranges over  *)
(* rows its caller did not name; otherwise: it is sent only when the       *)
(* statement before it matched no row.                                     *)
(***************************************************************************)
Statement == [on |-> {}, does |-> <<>>, needs |-> "nothing", reads |-> FALSE, indexed |-> FALSE,
              key |-> {}, among |-> {}, unique |-> {}, sweeping |-> FALSE, otherwise |-> FALSE]

Update(id, does) == [Statement EXCEPT !.on = {id}, !.does = does, !.needs = "none"]
UpdateAny(id, does) == [Statement EXCEPT !.on = {id}, !.does = does]
Sweep(does) == [Statement EXCEPT !.on = Ids, !.does = does, !.sweeping = TRUE]
Retire(does) == [Statement EXCEPT !.on = Ids, !.does = does]
Insert(id, row, key, among, unique) ==
    [Statement EXCEPT !.on = {id}, !.does = [r \in {Absent} |-> row], !.needs = "conflict",
                      !.indexed = TRUE, !.key = key, !.among = among, !.unique = unique]
InsertNew(id, row) == Insert(id, row, {}, {}, {})
Upsert(id, does) == [Statement EXCEPT !.on = {id}, !.does = does, !.indexed = TRUE]
Select(id, where) ==
    [Statement EXCEPT !.on = {id}, !.does = [r \in where |-> r], !.needs = "none", !.reads = TRUE]
SelectForUpdate(id, where) ==
    [Statement EXCEPT !.on = {id}, !.does = [r \in where |-> r], !.needs = "none"]
Otherwise(s) == [s EXCEPT !.otherwise = TRUE]
AdvisoryLock(key) == [Statement EXCEPT !.key = {key}]

Deleted(rows) == [r \in rows |-> Absent]

(***************************************************************************)
(* Passkeys, of subjects and of administrators                             *)
(***************************************************************************)
Unrevoked == {r \in Credential : r.revoked_reason = "none"}

\* Every row a session inserts is of one authenticator, which the index on the
\* credential id tells from the ones there before.
CreateCredential(p) ==
    <<Insert(p, [sign_count |-> 0, last_used |-> 0, clone_warning |-> FALSE, revoked_reason |-> "none"],
             {"wc_credential_uq"}, Sessions, Credential)>>

AdvanceSignCount(id, prev, next) ==
    <<Update(id, [r \in {r \in Unrevoked : r.sign_count = prev /\ next > r.sign_count} |->
                    [r EXCEPT !.sign_count = next, !.last_used = 2]])>>

TouchCredential(id, at) == <<Update(id, [r \in Unrevoked |-> [r EXCEPT !.last_used = at]])>>

MarkCloneWarning(id) == <<Update(id, [r \in Credential |-> [r EXCEPT !.clone_warning = TRUE]])>>

RevokeCredential(id, reason) ==
    <<Update(id, [r \in Unrevoked |-> [r EXCEPT !.revoked_reason = reason]])>>

RevokeAllCredentials ==
    <<Sweep([r \in Unrevoked |-> [r EXCEPT !.revoked_reason = "all"]]),
      Sweep([r \in {r \in Secret : ~r.revoked} |-> [r EXCEPT !.revoked = TRUE]])>>

\* The console's passkeys: the same statements over admin_credentials.
CreateAdminCredential(p) == CreateCredential(p)
AdvanceAdminCredentialSignCount(id, prev, next) == AdvanceSignCount(id, prev, next)
TouchAdminCredential(id, at) == TouchCredential(id, at)
MarkAdminCredentialCloneWarning(id) == MarkCloneWarning(id)
RevokeAdminCredential(id, reason) == RevokeCredential(id, reason)

(***************************************************************************)
(* TOTP secrets                                                            *)
(***************************************************************************)
PendingRequest == {r \in Secret : ~r.confirmed /\ ~r.revoked}

\* The abandoned enrolment is revoked and the new one inserted in one transaction; the
\* index ts_pending_uq allows one pending secret per subject.
CreateTOTPSecret(p) ==
    <<Retire([r \in PendingRequest |-> [r EXCEPT !.revoked = TRUE]]),
      Insert(p, [last_timestep |-> 0, sealed |-> "new", confirmed |-> FALSE, revoked |-> FALSE],
             {"ts_pending_uq"}, Ids, PendingRequest)>>

ConfirmTOTPSecret(id) == <<Update(id, [r \in PendingRequest |-> [r EXCEPT !.confirmed = TRUE]])>>

RevokeTOTPSecret(id) ==
    <<Update(id, [r \in {r \in Secret : ~r.revoked} |-> [r EXCEPT !.revoked = TRUE]])>>

ConsumeTOTPStep(id, prev, step) ==
    <<Update(id, [r \in {r \in Secret : r.last_timestep = prev /\ step > r.last_timestep /\ ~r.revoked} |->
                    [r EXCEPT !.last_timestep = step]])>>

ReplaceSealed(id, old, new) ==
    <<Update(id, [r \in {r \in Secret : r.sealed = old} |-> [r EXCEPT !.sealed = new]])>>

(***************************************************************************)
(* Recovery codes                                                          *)
(***************************************************************************)
\* The advisory key of a subject's batch; the run has one subject.
RecoveryBatchLock == AdvisoryLock("recovery_codes")

\* Mutant of ReplaceRecoveryCodes: no lock on the subject's batches.
ReplaceRecoveryCodesUnlocked(p) ==
    <<Retire(Deleted({r \in Code : r.consumed_at = 0 /\ r.batch # p})),
      InsertNew(p, [batch |-> p, consumed_at |-> 0])>>

ReplaceRecoveryCodes(p) ==
    <<RecoveryBatchLock,
      Retire(Deleted({r \in Code : r.consumed_at = 0 /\ r.batch # p})),
      InsertNew(p, [batch |-> p, consumed_at |-> 0])>>

ConsumeRecoveryCode(id, at) ==
    <<Update(id, [r \in {r \in Code : r.consumed_at = 0} |-> [r EXCEPT !.consumed_at = at]])>>

DeleteConsumedRecoveryCodes(before) ==
    <<Sweep(Deleted({r \in Code : r.consumed_at # 0 /\ r.consumed_at < before}))>>

(***************************************************************************)
(* Challenges, of subjects and of the console                              *)
(***************************************************************************)
CreateChallenge(p) == <<InsertNew(p, [consumed_at |-> 0, expires_at |-> 2, owned |-> TRUE])>>

ConsumeChallenge(id, now) ==
    <<Update(id, [r \in {r \in Ceremony : r.consumed_at = 0 /\ r.expires_at > now} |->
                    [r EXCEPT !.consumed_at = now]])>>

DeleteExpiredChallenges(before) == <<Sweep(Deleted({r \in Ceremony : r.expires_at < before}))>>

CreateAdminChallenge(p) == CreateChallenge(p)
ConsumeAdminChallenge(id, now) == ConsumeChallenge(id, now)

(***************************************************************************)
(* API keys and administrative tokens                                      *)
(***************************************************************************)
Unwithdrawn == {r \in Key : r.key_revoked = 0}

NewKey(p, expires) == [key_expires |-> expires, key_revoked |-> 0, key_used |-> 0, principal |-> p]

CreateAPIKey(p, expires) == <<InsertNew(p, NewKey(p, expires))>>
CreateAdminToken(p, expires) == CreateAPIKey(p, expires)

RevokeAuthnRow(id, at) == <<Update(id, [r \in Unwithdrawn |-> [r EXCEPT !.key_revoked = at]])>>
RevokeAPIKey(id, at) == RevokeAuthnRow(id, at)
RevokeAdminToken(id, at) == RevokeAuthnRow(id, at)

TouchAuthnRow(id, at) == <<UpdateAny(id, [r \in Key |-> [r EXCEPT !.key_used = at]])>>

\* The predecessor's life is bounded; a predecessor that ends sooner already, which the
\* update leaves alone, is locked so that it is not revoked before the successor is there.
RotateAuthnRow(pred, at) ==
    <<UpdateAny(pred, [r \in {r \in Unwithdrawn : r.key_expires = 0 \/ r.key_expires > at} |->
                         [r EXCEPT !.key_expires = at]]),
      Otherwise(SelectForUpdate(pred, Unwithdrawn))>>

RotateAPIKey(p, pred, at) == RotateAuthnRow(pred, at) \o <<InsertNew(p, NewKey(p, 2))>>

\* The successor carries its predecessor's principal, which the first tokens of the run
\* are to themselves.
RotateAdminToken(p, pred, at) ==
    RotateAuthnRow(pred, at)
        \o <<InsertNew(p, NewKey(p, 2)), UpdateAny(p, [r \in Key |-> [r EXCEPT !.principal = pred]])>>

(***************************************************************************)
(* Approvals                                                               *)
(***************************************************************************)
CreateApproval(p) ==
    <<InsertNew(p, [status |-> "pending", request_expires |-> 2, decided_by |-> "nobody"])>>

\* The refusals are classified on a row read before the update; what they depend on is
\* written once, but for the status, which the update tests again.
DecideApproval(id, by, approve, at) ==
    <<Select(id, {r \in Request : r.status = "pending" /\ at < r.request_expires}),
      Update(id, [r \in {r \in Request : r.status = "pending"} |->
                    [r EXCEPT !.status = IF approve THEN "approved" ELSE "rejected", !.decided_by = by]])>>

MarkApprovalExecuted(id, failed) ==
    <<Update(id, [r \in {r \in Request : r.status = "approved"} |->
                    [r EXCEPT !.status = IF failed THEN "failed" ELSE "executed"]])>>

ExpireApprovals(before) ==
    <<Sweep([r \in {r \in Request : r.status = "pending" /\ r.request_expires < before} |->
               [r EXCEPT !.status = "expired"]])>>

(***************************************************************************)
(* Throttle buckets                                                        *)
(***************************************************************************)
\* One statement inserts the bucket or counts on it; the window of the run is one instant.
Hit(id, now, failed, subject) ==
    LET inc == IF failed THEN 1 ELSE 0
        counted(r) ==
            IF r.window_start < now
            THEN [r EXCEPT !.window_start = now, !.attempts = 1, !.failures = inc,
                           !.subject_id = @ \/ subject, !.updated_at = now]
            ELSE [r EXCEPT !.attempts = @ + 1, !.failures = @ + inc,
                           !.subject_id = @ \/ subject, !.updated_at = now]
        first == [window_start |-> now, attempts |-> 1, failures |-> inc, blocked_until |-> 0,
                  subject_id |-> subject, updated_at |-> now]
    IN <<Upsert(id, [r \in Bucket \cup {Absent} |-> IF r = Absent THEN first ELSE counted(r)])>>

Block(id, until, now) ==
    LET first == [window_start |-> now, attempts |-> 0, failures |-> 0, blocked_until |-> until,
                  subject_id |-> FALSE, updated_at |-> now]
    IN <<Upsert(id, [r \in Bucket \cup {Absent} |->
                       IF r = Absent THEN first
                       ELSE [r EXCEPT !.blocked_until = until, !.updated_at = now]])>>

ResetThrottle(id) == <<Update(id, Deleted(Bucket))>>

ResetSubjectThrottles == <<Sweep(Deleted({r \in Bucket : r.subject_id}))>>

DeleteStaleThrottles(before) ==
    <<Sweep(Deleted({r \in Bucket : r.updated_at < before /\ r.blocked_until < before}))>>

(***************************************************************************)
(* Subjects and erasure requests                                           *)
(***************************************************************************)
SetStatusCall(id, status) ==
    <<Update(id, [r \in {r \in Subject : ~r.deleted} |-> [r EXCEPT !.subject_status = status]])>>

\* A subject deleted already is no error, which the second statement tells from one that
\* is not there; that statement takes no lock.
SoftDeleteSubject(id) ==
    <<[UpdateAny(id, [r \in {r \in Subject : ~r.deleted} |->
                        [r EXCEPT !.subject_status = "pending_deletion", !.deleted = TRUE]])
         EXCEPT !.sweeping = TRUE],
      Otherwise(Select(id, Subject))>>

RestoreCall(id) ==
    <<Update(id, [r \in {r \in Subject : r.deleted /\ r.subject_status = "pending_deletion"} |->
                    [r EXCEPT !.subject_status = "active", !.deleted = FALSE]])>>

\* The row is locked by the read that asks whether it is pending deletion.  Buckets and
\* alerts go with the challenges.
PurgeCall(id) ==
    <<SelectForUpdate(id, Subject),
      Select(id, {r \in Subject : r.deleted}),
      Sweep(Deleted({r \in Ceremony : r.owned})),
      Sweep([r \in {r \in Request_of_erasure : r.reason} |-> [r EXCEPT !.reason = FALSE]]),
      UpdateAny(id, Deleted(Subject))>>

PendingErasure == {r \in Request_of_erasure : r.erasure_status = "pending"}

CreateErasure(p) ==
    <<Insert(p, [erasure_status |-> "pending", reason |-> TRUE], {"er_subject_uq"}, Ids, PendingErasure)>>

CancelErasure(id) ==
    <<Update(id, [r \in PendingErasure |-> [r EXCEPT !.erasure_status = "cancelled"]])>>

MarkErasurePurged(id) ==
    <<Update(id, [r \in PendingErasure |-> [r EXCEPT !.erasure_status = "purged"]])>>

(***************************************************************************)
(* Alerts                                                                  *)
(***************************************************************************)
\* An open row counts the repeat; when there is none a row is inserted.
RaiseAlert(id) ==
    LET none == [open |-> 1, acknowledged |-> 0]
    IN <<Upsert(id, [r \in Alert \cup {Absent} |-> IF r = Absent THEN none ELSE [r EXCEPT !.open = @ + 1]])>>

AcknowledgeAlert(id, nth) ==
    <<Update(id, [r \in {r \in Alert : r.open > 0 /\ r.acknowledged = nth} |->
                    [r EXCEPT !.open = 0, !.acknowledged = @ + 1]])>>

(***************************************************************************)
(* What the sessions of a run may call, table by table                     *)
(***************************************************************************)
\* The rows of each table that are there at the start, by id.
FirstRows ==
    [factors    |-> {<<[sign_count |-> 0, last_used |-> 0, clone_warning |-> FALSE, revoked_reason |-> "none"],
                       [last_timestep |-> 0, sealed |-> "old", confirmed |-> c, revoked |-> FALSE]>> :
                         c \in BOOLEAN},
     console    |-> {<<[sign_count |-> 0, last_used |-> 0, clone_warning |-> FALSE, revoked_reason |-> "none"],
                       [consumed_at |-> 0, expires_at |-> 2, owned |-> FALSE]>>},
     recovery   |-> {<<[batch |-> "first", consumed_at |-> 0], [batch |-> "first", consumed_at |-> 1]>>},
     challenges |-> {<<[consumed_at |-> 0, expires_at |-> 2, owned |-> TRUE],
                       [consumed_at |-> 0, expires_at |-> 1, owned |-> TRUE]>>},
     keys       |-> {<<[key_expires |-> e, key_revoked |-> 0, key_used |-> 0, principal |-> "a"], Absent>> :
                         e \in Instants},
     approvals  |-> {<<[status |-> s, request_expires |-> e, decided_by |-> "nobody"], Absent>> :
                         s \in {"pending", "approved"}, e \in 1..2},
     throttle   |-> {<<Absent, Absent>>,
                     <<[window_start |-> 1, attempts |-> 1, failures |-> 1, blocked_until |-> 0,
                        subject_id |-> TRUE, updated_at |-> 1], Absent>>},
     subjects   |-> {<<[subject_status |-> "pending_deletion", deleted |-> TRUE],
                       [erasure_status |-> "pending", reason |-> TRUE]>>,
                     <<[subject_status |-> "active", deleted |-> FALSE],
                       [erasure_status |-> "cancelled", reason |-> TRUE]>>},
     alerts     |-> {<<Absent, Absent>>, <<[open |-> 1, acknowledged |-> 0], Absent>>}]

Tables == DOMAIN FirstRows

\* The calls a session may make on each table, with the arguments that make them meet.
Menu(table, p) ==
    CASE table = "factors" ->
            <<CreateCredential(p), AdvanceSignCount("a", 0, 1), AdvanceSignCount("a", 0, 2),
              TouchCredential("a", 1), MarkCloneWarning("a"), RevokeCredential("a", "first"),
              RevokeCredential("a", "second"), RevokeAllCredentials, CreateTOTPSecret(p),
              ConfirmTOTPSecret("b"), RevokeTOTPSecret("b"), ConsumeTOTPStep("b", 0, 1),
              ConsumeTOTPStep("b", 0, 2), ReplaceSealed("b", "old", "new")>>
      [] table = "console" ->
            <<CreateAdminCredential(p), AdvanceAdminCredentialSignCount("a", 0, 1),
              AdvanceAdminCredentialSignCount("a", 0, 2), TouchAdminCredential("a", 1),
              MarkAdminCredentialCloneWarning("a"), RevokeAdminCredential("a", "first"),
              CreateAdminChallenge(p), ConsumeAdminChallenge("b", 1), DeleteExpiredChallenges(2)>>
      [] table = "recovery" ->
            <<ReplaceRecoveryCodes(p), ConsumeRecoveryCode("a", 1), ConsumeRecoveryCode("a", 2),
              DeleteConsumedRecoveryCodes(2)>>
      [] table = "challenges" ->
            <<CreateChallenge(p), ConsumeChallenge("a", 1), ConsumeChallenge("b", 1),
              DeleteExpiredChallenges(2)>>
      [] table = "keys" ->
            <<CreateAPIKey(p, 0), CreateAdminToken(p, 2), RevokeAPIKey("a", 1), RevokeAdminToken("a", 2),
              TouchAuthnRow("a", 1), RotateAPIKey(p, "a", 1), RotateAdminToken(p, "a", 2)>>
      [] table = "approvals" ->
            <<CreateApproval(p), DecideApproval("a", "x", TRUE, 1), DecideApproval("a", "y", FALSE, 1),
              MarkApprovalExecuted("a", FALSE), MarkApprovalExecuted("a", TRUE), ExpireApprovals(2)>>
      [] table = "throttle" ->
            <<Hit("a", 1, TRUE, TRUE), Hit("a", 2, TRUE, FALSE), Hit("a", 1, FALSE, TRUE),
              Block("a", 2, 1), ResetThrottle("a"), ResetSubjectThrottles, DeleteStaleThrottles(2)>>
      [] table = "subjects" ->
            <<SetStatusCall("a", "locked"), SoftDeleteSubject("a"), RestoreCall("a"),
              PurgeCall("a"), CreateErasure(p), CancelErasure("b"), MarkErasurePurged("b"),
              CreateChallenge(p)>>
      [] table = "alerts" -> <<RaiseAlert("a"), AcknowledgeAlert("a", 0), AcknowledgeAlert("a", 1)>>

RowsAtFirst(table) ==
    {[i \in Ids |-> IF i = "a" THEN first[1] ELSE IF i = "b" THEN first[2] ELSE Absent] :
        first \in FirstRows[table]}
=============================================================================
