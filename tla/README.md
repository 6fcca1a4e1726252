# Formal model of n0passtemps

n0passtemps is a self-hosted service for passwordless authentication: passkeys (WebAuthn), TOTP
codes and recovery codes for the subjects of an application, an administrative surface with roles,
dual approval and a tamper-evident audit log, over SQLite or PostgreSQL. This directory holds TLA+
modules translated from its source, the TLC configurations that check them on small instances, and
theorems that TLAPS checks for every value of the constants. `PROJECT.json` maps every definition to
the lines it models and lists the runs, the hazards of the code and the properties that watch them.

Run a check with `tlc -config MCCodes.cfg MCCodes`, a proof with `tlapm Throttle_proofs.tla`.

## 1. The system

A request arrives over HTTP (`internal/api`, or the console in `internal/admin/ui`), authenticates
(an API key on the public routes, an administrative token on the others, a session in the console),
and its handler makes a sequence of store calls (`internal/store`). Requests of one process share
little but the database: a mutex around the revocation of administrative tokens, a pool of Argon2id
slots, the console's sessions, the fold of refused credentials, the keyring and the signing key.
Processes of one deployment share the database and the files. A store call is one statement or one
transaction; everything between two calls interleaves with every other request, with the janitor,
the audit shipper, operators restarting processes, and the clock. Most of what can go wrong lies
there: a value is read in one call and used in a later one, and only the `WHERE` clause of the last
write decides.

| Component | State | Operations | Hard behaviour | What makes it correct |
|---|---|---|---|---|
| Throttle (`internal/throttle`) | `throttle_buckets`: window, failures, lockout, per subject and factor and per network | Check, Reserve, Fail, Succeed, Record, ResetSubject, sweep | bursts, late settlements, clock readings of different ages, store faults | the budget of a window holds, a lockout is bounded and ends early only for a known reason, a passkey never locks |
| TOTP (`internal/totp`, `public.go`) | `totp_secrets`: created, confirmed, revoked, last step | enrol, confirm, verify, revoke | two requests with one code; secret replaced under a request | a step is used once, only a confirmed live secret authenticates |
| Recovery codes | `recovery_codes`, the Argon2id pool | issue, redeem, sweep | redemption across a replacement; pool exhaustion | a code is used once and by whom it was issued to, one live batch, slots come back |
| WebAuthn (`internal/webauthn`) | `webauthn_challenges`, `webauthn_credentials` | begin and complete a registration, a named or a discoverable assertion; revoke | replays, crossed routes, counters, stale listings | a challenge is used once and as begun; a revoked key authenticates nothing; a clone is signalled |
| Administrative tokens | `admin_tokens`, the mutex | mint, rotate, revoke | revocations of each other, rotation under a revocation | an administrator remains, rotation never lengthens a life |
| Dual approval | `approval_requests` | queue, decide, redeem, expire | redemption races, one person with two tokens | two persons, once, as approved, in time |
| Enrolment tickets (`tickets.go`) | `enrolment_tickets` | issue, withdraw, redeem, expire | the credential is made before the ticket is spent, and the undo may fail | a ticket leaves no credential it was not spent on |
| Subjects and erasure | `subjects`, `erasure_requests` | resolve, lock, erase, cancel, purge | cancel racing a listed purge, two replicas, crash between purge and record | nothing restored is purged, what is due is purged, and recorded once |
| Audit chain (`internal/audit`) | `audit_log`, checkpoints | append, erase personal fields, trim, verify, read on | concurrent appends, numbers drawn before a lock, walks of several pages | what is left verifies, nothing recent is trimmed, no false break, nothing appears behind a reader |
| Audit export (`internal/auditsink`) | channel, watermark in memory and on disk | offer, flush, catch up, level, deliver, back off, restart | a full queue, crash between delivery and watermark | the receiver holds a prefix of the log that grows |
| Janitor (`internal/janitor`) | the sweep lock: a lease, or a session lock | sweep | two replicas, a lease that expires under work | one sweeper at a time while its lease lasts |
| Keys (`internal/crypto`, `bulk.go`) | the keyring file, what each replica read of it, sealed values | seal, rewrap, rotate, verify, retire | a rewrap racing writes, a replica not restarted | no value is left under a retired key, no older value comes back |
| Assertions (`internal/assertion`, `sdk/go/keys.go`) | the signing key, kept public keys, the SDK's cache | sign, publish, rotate, fetch | a rotation under a verifier's cache, failing fetches | nobody is refused by a rotation, a withdrawn key stops verifying |
| Alerts (`internal/alerts`, `auth.go`) | `alerts`, the fold by source | raise, fold, list, acknowledge, purge | rows that move between two pages, a full fold | no source is hidden, a walk skips nothing that stood still |
| Console (`internal/admin/ui`) | sessions, `admin_credentials`, `admin_webauthn_challenges` | sign in, act through a form, enrol and withdraw passkeys | revocation under a session, forms of another session, rotation under a passkey | a session ends with its token, a form acts for who it was rendered for |
| Stores (`internal/store`) | all tables | every call, migration, provisioning | READ COMMITTED between statements; two replicas migrating | a call behaves as one atomic step; a replica serves on its own schema |
| Server (`cmd`) | which replicas run | start, serve, drain, stop, crash | a handler that outlives the grace period | every replica comes up |
| Risk, configuration, health, wizard dialogue | see `PROJECT.json` | | | |

## 2. The modules

| Module | Models | Its state and the code's |
|---|---|---|
| `ThrottleStore` | one row of `throttle_buckets`, one operator per statement | `HitRow`, `BlockRow` and `Stale` are the statements of `sqlite/throttle.go` |
| `Throttle` | the limiter as the authentication routes use it | `rows` is the table, `req` the handlers with their clock reading and what they reserved, `unlock` the store calls an administrative unlock still has to make |
| `Totp` | the TOTP factor of one subject | `secrets` is the table; a request carries the secret and the last step it read |
| `Recovery` | recovery codes and the Argon2id pool | `rows` by code, `slots` the pool |
| `Passkeys` | WebAuthn ceremonies, credentials and their revocation | `chal` and `rows` are the two tables; a request carries the credential and the counter it read |
| `TokenStore` | the table `admin_tokens` | `tokens` is the table and `clock` the time, shared by the next two modules |
| `AdminTokens` | minting, rotation, revocation behind `guardLastFullAdministrator` | `mutex` is `adminRevocation` |
| `Approval` | dual approval over tokens that rotate | `approvals` is the table; a request carries the clock reading its handler took |
| `Tickets` | enrolment tickets and the registration each permits, on either store | `ticketRow` and `enrolled` are the two tables by the call that wrote each row, `call` the handlers |
| `AuditChain` | the log, its trims, erasures and readers, on either store | `log` and `checkpoints` are the tables; a hash is the record it commits to; `drawn` the sequence, `appendLock` the advisory lock, `walk` one `VerifyChain`, `pager` a reader of `next_seq` |
| `Witness` | abstract: a receiver holds a prefix of a log | |
| `AuditSink` | the shipper | `queue` the channel, `worker` the goroutine, `mark` and `markFile` the watermark, `received` what the receiver holds |
| `Erasure` | a subject's status, its erasure requests and the janitors of all replicas | `subject`, `erasure` the rows; `sweepLock` the lock of `TryAcquireJanitorLock`; `sweeper` each janitor's pass |
| `Sealing` | values sealed under the keyring through a rotation | `ring` the file, `loaded` what each replica read, `row` the sealed columns, `rewrap` the pass of `rewrapAll` |
| `Assertions` | the signing key, what the server publishes, and `RemoteKeySet` of the Go SDK | `issuer` the running server, `cache` and `notBefore` the SDK's fields |
| `Alerts` | the fold, the engine, the table and the operator's list, on either store | `folded` is `rejectionTally`, `alerts` the table, `listing` the console's walk |
| `Rbac` | `internal/rbac` | `RolePermissions` |
| `Console` | the console's sessions, passkeys and forms, beside rotation and revocation over the API | `session` is `sessionStore.live`, `jar` the browsers' cookies, `visit` the HTTP requests |
| `StoreCalls` | the writing calls of the store as programs of statements | one operator per call: its statements with their `WHERE` clause and what they set |
| `AtomicStore` | abstract: a call takes effect in one step or not at all | the assumption every other module makes |
| `PgStore` | the calls as READ COMMITTED transactions | `tx` is the transaction of each session, `rows` what is committed |
| `Lifecycle` | replicas starting, migrating, serving and stopping on one database | `schema` is `schema_migrations`, `stage` how far `run` has got |
| `MCCodes` | `Totp`, `Recovery` side by side | `scene` says which of them moves |
| `MCAdministration` | `AdminTokens`, `Approval`, one at a time over one table of tokens | `scene` |
| `MCRequests` | `AuditChain`, `Tickets`, `Console`, `Sealing`, `Assertions`, `Alerts` side by side | `scene` |
| `MCBackground` | `AuditSink`, `Erasure`, `Lifecycle`, `PgStore` side by side | `scene` |
| `Throttle_proofs`, `Totp_proofs`, `Recovery_proofs`, `Passkeys_proofs`, `Approval_proofs`, `AuditChain_proofs` | the theorems about the module each is named after (section 4) | none of their own; each extends its module |
| `Requests_proofs` | the theorems about `Tickets`, `Sealing`, `Assertions`, `Alerts` and `Console` | none of its own |
| `Background_proofs` | the theorems about `AuditSink`, `Erasure`, `Lifecycle` and `AdminTokens` | none of its own |
| other `MC*` | model values, loads and symmetry for TLC; `MCAuditTrim` and `MCSealing` run one part of `MCRequests` alone | |

The modules share a shape. A request is a process that runs one handler once. Its `stage` is the
next store call; its other fields are the handler's locals. An action is one store call with the
code around it up to the next call, its guard taken from the code's conditions and early returns and
from the statement's `WHERE` clause. A request need not take its next step, so a crash, a cancelled
context or a failing store after any call is among the behaviours. Where the order of the code's
reactions to a failure matters (`Throttle` fails open before an evaluation and loses the settlement
after it, `Tickets` undoes a credential, `AuditSink` and `Erasure` resume after a crash) the fault is
an action. History variables are written and never read by the handlers; the modules mark them
`history`, and in the first six they are `granted`, `accepted`, `redeemed`, `log`, `runs`, `born` and
`person`.

What is abstracted, everywhere: identifiers are model values; a code is the secret and the step it
was computed for, a signature is good or bad by choice of the environment, a hash is what it commits
to, a sealed value is its key version, its binding and its content; metrics and the wording of errors
are left out, and audit entries are modelled only in `AuditChain` and where a property counts them.

How the modules meet. `Throttle` stands in front of `Totp`, `Recovery` and `Passkeys`: in those it
only decides whether a request takes its next step, which no request is obliged to. `Approval` stands
in front of minting, bulk revocation and erasure in the same way. `Passkeys` stands under `Tickets`,
which takes a finished registration as its input, and under the console's passkeys. `Tickets`,
`AuditChain`, `Alerts` and `Erasure` model both stores where these differ. Every module takes a store
call in one step. On SQLite one write connection makes that true; on PostgreSQL it is what `PgStore`
refining `AtomicStore` shows, call by call and table by table, for the calls in `Menu`. The calls
that take two statements with a visible gap (the replacement of a ticket on PostgreSQL, the append to
the audit log and its retention pass) have their own steps in `Tickets` and `AuditChain`.

`MCCodes`, `MCAdministration`, `MCRequests` and `MCBackground` extend several parts, which share no
state but the table of tokens. Their initial state chooses the part that moves (`scene`); what belongs
to the others stays at one initial state, so each run is the union of the state
graphs of its parts and every property is checked on the part it is about.

Operators whose comment starts with "Mutant of" are wrong versions of the operator that follows them.
They are used by no specification; each shows that a property notices a plausible mistake. Where a
property is a conjunction (`CodesAreSound` is a type, single use, one live batch and redemption by the
subject a code was issued to) the mutants beside the code break its different conjuncts, and
`PROJECT.json` names one of them.

## 3. What the runs show

| Run | Shows | Bounds |
|---|---|---|
| `throttle` | `GuessBudget`; `LockoutsAreRight`: an exhausted budget is locked, for no longer than configured; `NoGuessWhileLocked`; `NothingForgottenEarly`: the end of a lockout is brought forward only by a right answer, by an administrator, or by a wrong guess that settles late, and then by at most the age of its reading; a network's count is kept; `TypeOK` | at most three requests at one subject: three plain guesses with a store fault or an unlock, or two requests of any factor with or without a network and both (`Load`); budgets of 1, so that each further attempt overruns; time past a window and a lockout |
| `codes`, TOTP | `StepSingleUse`; `RevokedStaysDead`; `EnrolmentIsSound`: one pending secret, confirmed by possession, in time | four requests: two enrolments, a confirmation and a verification racing; a skew of 2 reaches steps below the epoch |
| `codes`, recovery codes | `CodesAreSound`: a code once, for its own subject, one live batch; `RetiredStaysDead`: only a code of the latest batch that nobody has redeemed succeeds, and a row that left "unused" stays so; under fairness `SlotsReturned` | two issues and two redemptions over one slot; batches of one code, as codes of a batch do not interact |
| `passkeys` | `CeremoniesAreSound`: a challenge once, as begun, a key has one owner; `CountersHeeded`: a clone is signalled, a regression refused; `OnlyEntitledSucceed`: a revoked key or a locked subject gets nothing, the cap is passed only by a race | three loads, told apart by who owns the two credentials at the start: completions of two subjects with an intervention and the expiry; three assertions with one credential and counters 0 to 2; enrolments and revocations at a cap of one |
| `administration`, tokens | `StaysAdministrable`: one full administrator remains, and each revocation leaves one; `RotationIsNoEscape`: a rotation never lengthens a life, a revoked token has no successor | two administrators and three requests, a lifetime of 2 or none, graces up to 3 |
| `administration`, approvals | `TwoPersons`; `SpentOnce`; `ApprovalsAreHonoured`: what runs was approved and is not held in reserve | two administrators, four requests, two operations, time past the expiry |
| `requests`, audit chain | `LogIsWhole`: what is left verifies, and of the log a retention pass first read only old entries were trimmed; `NoFalseBreak`; `NothingBehindCursor` | two writing transactions at a time, three entries, dates 0 to 2 in any order, pages of 2, on both stores; one reader at a time (`ReadersLoad`) |
| `requests`, tickets | `TicketsAreSingle`: one live ticket, a spent one serves one redemption, was not withdrawn and is not replaced afterwards; `OnlyAuthorisedRemain` | four requests in three mixes around one ticket: two redemptions and a withdrawal; a second issue and a redemption of either; one death of a process; the expiry |
| `requests`, console | `SessionsEnd`: with the token's revocation and at the absolute deadline; `ActsAsRendered`: a form acts for who it was rendered for, and an auditor's is one of the auditor's own; `PasskeySignInIsSound` | six visits in the scenes of `MCVisitMixes`, one per hazard, among them an auditor who withdraws and enrols a passkey; two tokens of different roles |
| `requests`, sealing | `SealedValuesKept`: no value under a retired key, none older than the one written last | three calls, two replicas, two key versions, pages of one row |
| `requests`, assertions | `RotationRefusesNobody`; `CacheKeepsItsTimes`: a withdrawn key stops verifying within the cache's time, fetches are spaced | two verifications at once early on and one at a time after (`ChecksLoad`), two keys, time to 4 with a cache of 2 |
| `requests`, alerts | `CrowdingHidesNobody`; `WalkSkipsNothing` | two sources over a fold of one; two conditions, three occurrences, two rows, pages of one; refusals alone, as they are filed where nobody lists them (`AlertLoad`) |
| `background`, sink | `NoHoles` (refinement of `Witness`); under fairness `AcceptedIsDelivered` | two entries, a queue of one, batches of two, one crash or stop. A queue of one is already full with the second entry, and the second may be offered first |
| `background`, erasure | `PurgesAreSound`: only a deleted subject is purged, and a purged one is gone; `SweepsOnce`; under fairness `DueIsCompleted` | an erasure, a cancellation and a second erasure or a lock; two replicas; a crash or a deadline; lease, session lock or none |
| `background`, replicas | `ServesOnItsSchema`; under fairness `ReplicasComeUp` | two replicas of one binary, in an upgrade, or with an edited migration; two migrations; one signal or crash |
| `background`, PostgreSQL | `CallsAreAtomic` (refinement of `AtomicStore`) | two sessions, each with any call of the table's menu, over nine groups of tables with two rows stored |

A configuration allows deadlock because requests are served once: when all have been, nothing is
left to do. Symmetry is over requests and other model values whose names no property uses. In `codes`,
where liveness is checked of the requests for recovery codes, it is over the requests about TOTP only,
which neither the fairness nor that property names; elsewhere liveness is checked without. In
`administration` one request keeps its name: it is the first to queue an operation, which loses
nothing, as names are arbitrary. Time is bounded by each module's last instant; `Latency` bounds
the age of a clock reading when it is used and stands for the deadlines of a request, which are
seconds where windows and lifetimes are minutes and more.

**Fairness.**

- `codes`, on recovery codes: each handler that has started runs to its end. A Go handler is not
  abandoned by the scheduler, Argon2id terminates, and `acquireKDF` waits no longer than its deadline.
  No request is obliged to start, and nothing is assumed of the order in which waiting requests get
  the slot.
- `AuditSink`: the goroutine of `Run` takes its steps, a stopped process is started again, and the
  receiver, the store and the disk do not fail for ever (strong fairness of an attempt that
  succeeds). A tick finds the backoff over now and then.
- `Erasure`: a replica's pass goes on, some replica takes the lock when it is free, as the janitor's
  ticker makes each try again, and a lease that is not renewed expires. Crashes and deadlines are
  bounded, since without that bound nothing would ever finish.
- `Lifecycle`: a process that can take its next step of `run` takes it, and one that has exited is
  started again, as `deploy/` has it restarted.

**Refinement.** `NoHoles` is `Witness` with `witnessed <- received`: whatever the process does, the
receiver's entries are a prefix of the log and only grow. `CallsAreAtomic` is `AtomicSpec`: each call
of a session is asked once and answered once, its effect on the committed rows is that of the whole
program run alone at one instant, and a failed call has none. Two deviations are part of the abstract
specification because callers can see them. A statement over many rows may miss a row that another
session wrote while the call was running, and an answer may be lost after the commit.

### Disagreements found

Six runs state what a comment, a message or a page of the documentation says and are refuted by the
code.

- `throttle_reapply`: `validateThrottle` accepts `lockout_duration = window`, saying that this keeps a
  lockout from being reapplied by the first attempt after it. The lockout is counted from the reading
  of the request that overran, the window from that of the one that opened it, so at equality the
  lockout may end inside a window that is still over budget.
- `throttle_shortened`: `docs/CONFIGURATION.md:625` calls the lockout duration how long a tripped bucket
  refuses attempts. Fail stamps the lockout with the reading its request took when it arrived, and
  `Block` writes `blocked_until` unconditionally. A guess that arrived before the one whose overrun
  locked the bucket, and is found wrong after it, moves the end of the lockout back by the time
  between the two readings. `LockoutServed`, which `throttle` checks, says that it is no more than
  that.
- `admin_tokens_horizon`: `guardLastFullAdministrator` holds a mutex that rotation does not take. A
  self-rotation with a lifetime, between the guard's count and the write, leaves nobody at the
  horizon the guard looks at.
- `passkeys_last`: the count that protects a subject's last credential and the revocation are two
  store calls. Two revocations at once each count two.
- `audit_trim`: PostgreSQL's `PruneAuditLog` "removes entries older than before"
  (`postgres/audit.go:549`). It finds the first entry to keep, and then the last entry below that
  one, in two statements of a READ COMMITTED transaction that does not hold the append lock yet
  (572-596). When no entry is recent there is none to keep, and an entry appended between the two
  becomes the boundary and is deleted with the rest. On SQLite the two run under the write connection.
- `sealing_reference`: `Resolve` seals a new person's reference under the identifier it has just
  generated. When two calls meet, `UpsertSubject` keeps the first row's identifier and takes the
  second call's value, bound to an identifier that exists nowhere, so the reference never opens.

Nine more statements of the repository are written down as definitions and are refuted when they are
added to the `.cfg` of the run in brackets. They have no run of their own.

- `VerifiesAboveWatermark` (`AuditChain`, `requests`): `docs/MONITORING.md:503-506` says to verify from
  above the watermark after a trim. `VerifyChain` consults a checkpoint only for a walk that starts at
  1, so a walk from the watermark plus one finds no row before it, starts at genesis and reports a
  break in an untouched log.
- `DroppedIsDelivered` (`AuditSink`, `background`): `Offer` says of an entry dropped because the queue
  is full that "the next flush reads it from there, so the receiver ends up with it either way"
  (`sink.go:385-387`). `Offer` sets `resync` (399) and a catch-up that was level with the log a moment
  before clears it (660), so the newest entry waits until another one is written or the process is
  restarted.
- `LockSurvivesCancel` (`Erasure`, `background`): "cancelling one must not undo the other"
  (`sqlite/subject.go:254-256`). The soft delete overwrites the status of a locked subject, and the
  cancellation restores it to active.
- `NotPurgedUnderCancelled` (`Erasure`, `background`): the comment at `sqlite/subject.go:346-351`
  wants no purge under a request marked cancelled. The subject's status decides, not the request: when
  the erasure is asked for again after a cancellation, a sweep that listed the first request purges
  under it, although the second one is not due.
- `TicketYieldsOne` (`Tickets`, `requests`): a ticket "permits exactly one WebAuthn registration"
  (`tickets.go:21-22`). A redemption that loses the ticket revokes its credential afterwards; until it
  does, and for good when the process dies or the store fails there, two are active.
- `BurstBounds` (`Console`, `requests`): "the number of revocations one administrator may perform
  inside Window" (`config.go:464-465`). The burst is checked before the revocation and counted after
  it, so two forms sent at once pass together.
- `RequirementSurvivesRotation` (`Console`, `requests`): a rotation is refused while the token has
  console passkeys, "what keeps the requirement and the credentials together" (`rotate.go:280-283`).
  The passkeys are counted in one call and the token rotated in another, and an enrolment fits between.
- `ReferencesOpen` under `requests` is the statement of the run `sealing_reference`.
- `KeyedByThePepper` (`Lifecycle`, `background`): a request that outlives the grace period "is dropped"
  (`main.go:532-534`). `Shutdown` does not stop its handler, `run` goes on to zeroize the pepper, and
  until the store closes the handler creates a person under a lookup value no later request computes.

Found while modelling, and without a formula:

- The comment on `GetRecoveryCodeBySelector` says that the caller compares the verifier of a spent
  code before it decides; `handleRecoveryConsume` refuses it before the comparison.
- `ListAlerts` of the PostgreSQL store never reads `AfterID`: its second page is its first. On both
  stores a page holds at most 500 rows although `audit.max_query_limit` may be 10000, and a walk goes
  astray when the row its cursor names is purged or an occurrence is stored with an older date.
- Alerts about refused API keys are raised under the system tenant (`auth.go:409`), which no route
  lists. An acknowledgement closes occurrences that came after the page was shown, and an alert stored
  after a purge names the purged subject.
- `purgeDueErasures` erases the personal fields of a subject's audit entries (`janitor.go:367`) before
  `PurgeSubject` asks whether the subject is still pending (`janitor.go:376`): a request cancelled
  after the sweep listed it keeps its subject, whose earlier audit entries no longer name it.

## 4. What is proved

A theorem holds for every value of the constants that its module's assumptions allow: any finite or
infinite set of requests unless it says finite, any limit, window, lifetime and page size, any number
of replicas. Each is a property some run checks on a small instance, and each inductive invariant was
checked by TLC under that run's configuration before it was proved.

| Module | Theorem | States |
|---|---|---|
| `Throttle_proofs` | `TypeCorrect`, `GuessBudgetHolds`, `LockoutsStayRight` | `TypeOK`, `GuessBudget`, `LockoutsAreRight` |
| | `NoGuessUnderLock`, `NothingIsForgottenEarly` | the action properties `NoGuessWhileLocked`, `NothingForgottenEarly` |
| `Totp_proofs` | `StepsAreSingleUse`, `EnrolmentStaysSound` | `StepSingleUse`, `EnrolmentIsSound` |
| | `RevokedNeverReturns` | the action property `RevokedStaysDead` |
| `Recovery_proofs` | `CodesStaySound` | `CodesAreSound` |
| | `RetiredNeverRedeemed` | the action property `RetiredStaysDead` |
| `Passkeys_proofs` | `CeremoniesStaySound`, `CountersStayHeeded` | `CeremoniesAreSound`, `CountersHeeded` |
| | `OnlyTheEntitled` | the action properties of `OnlyEntitledSucceed` |
| `Approval_proofs` | `TwoPersonsAlways`, `SpentOnceAlways`, `HonouredAlways` | `TwoPersons`, `SpentOnce`, `ApprovalsAreHonoured` |
| `AuditChain_proofs` | `LogStaysWhole`, `BreaksAreReal`, `NothingIsMissed` | `LogIsWhole`, `NoFalseBreak`, `NothingBehindCursor` |
| `Background_proofs` | `ShipperWitnesses` | `NoHoles`: `AuditSink` implements `Witness` |
| | `PurgesStaySound`, `SweepsStaySingle` | `PurgesAreSound`, `SweepsOnce` |
| | `ReplicasServeTheirSchema` | `ServesOnItsSchema` |
| | `AdministratorsRemain`, `RotationEscapesNothing` | `StaysAdministrable`, `RotationIsNoEscape`, each an invariant and an action property |
| `Requests_proofs` | `TicketsStaySingle`, `OnlyAuthorisedEnrolments` | `TicketsAreSingle`, `OnlyAuthorisedRemain` |
| | `RotationsLoseNothing` | `SealedValuesKept` |
| | `RotationStaysUnnoticed`, `CachesKeepTime` | `RotationRefusesNobody`, `CacheKeepsItsTimes` |
| | `NobodyIsCrowdedOut`, `WalksAreComplete` | `CrowdingHidesNobody`, `WalkSkipsNothing` |
| | `SessionsDoEnd`, `FormsActAsRendered`, `PasskeySignInsAreSound` | `SessionsEnd`, `ActsAsRendered`, `PasskeySignInIsSound` |

**Assumptions.** What the configuration enforces (positive limits and windows, a lockout no shorter
than its window, one Argon2id slot or more, a buffer and a batch of one or more); that times and
bounds are natural numbers; that a distinguished value (`Nobody`, `None`, `Unheld`, `NoSubject`) is
none of the values it stands apart from; and, where a count is taken, that the requests are finitely
many (`Throttle`, `Recovery`, `Passkeys`, which also has finitely many authenticators, `AdminTokens`,
and the calls of `Sealing`). `Console` takes any mix of visits in which what happened before the
model begins (a sign-in, an enrolment) names one of the first two tokens and a rotation makes a third.
`Alerts` takes a page no larger than the store's own limit, beyond which `WalkSkipsNothing` is false
(section 3).

Four are about time. `Latency < Window` in `Throttle`: a request is over long before a window is. In
`AdminTokens` a lifetime, a day or more, is longer than a request. `FetchTimeout < CacheTTL` in
`Assertions`: 10 seconds (`client.go:22`) against 5 minutes (`keys.go:19`) by default, which the SDK
does not enforce. And the janitor keeps a throttle row for longer than a window and the age of a
reading together; the code keeps it for four windows (`janitor.go:301`). That last one was found by
the proof: a row's last attempt may be dated before its window, as Hit stores whatever reading its
request took, so a row swept at exactly one window since its last attempt could still be counting.

**The arguments.** None of the properties is inductive. What each invariant adds, and why:

- `BudgetInv` (`Throttle`). `GuessBudget` says nothing of the counter in the row, on which the next
  grant depends. The invariant adds that the reservations granted in a window are no more than the
  failures its row counts. Reserve counts before it judges, so a grant adds one to both sides and
  happens only within the limit; a roll of the window empties both; an unlock, a right answer and the
  sweep delete the row and with it the window.
- `LockoutInv` (`Throttle`). A lockout is bounded because of the readings at which requests under way
  will lock: none is past the window its row counts in, which survives a roll, a deletion and a new
  row, as a window opens at a recent reading. An exhausted budget is locked because somebody owes the
  lock: at a code the request refused as the one past the budget, at a network the wrong attempt that
  reached the limit and has not judged the network yet. That no second kind of attempt counts in a
  code's bucket needs the invariant that codes are evaluated on a reservation as long as the store
  answers. `StepStatement` reduces every action to the statement it runs on each row.
- `DatedInv` (`Throttle`) adds how far a row's dates may disagree, on which the janitor's sweep
  depends; `DeletionCause` lists who may delete a row. A statement that blocks a row dates the lockout
  by its request's reading, which is at most `Latency` old: that bounds what a late guess can take off
  a lockout in force.
- `TotpInv`. A handler past its read holds an existing row, whose accepted steps are no later than the
  row's last step; only the guarded update raises that step, so a step accepted twice would have to be
  above itself. A pending secret is retired in the transaction that inserts its successor.
- `RecoveryInv`. A slot count stands for the requests that hash, so giving one back never falls below
  zero. A code that was ever in the table belongs to a batch whose request is over, so it is not
  inserted again, and a redeemed one is not unused. What a redeemer holds past its read is a code of
  its own subject, since the selector is looked up under the subject.
- `CeremonyInv` (`Passkeys`). A request that has spent a challenge is the only one that holds it and no
  ceremony has ended with it; what the challenge was issued for is what the request is doing; the row
  a handler works on is there and its owner is the handler's subject. `EnvStep` and `Stands` say what
  every step of another request leaves alone, so that each action is judged by its own request.
- `AllEntitled` (`Passkeys`). A discoverable assertion learns its subject late, from a row: it finds it
  active, and no subject that was inactive throughout can be. An enrolment between the cap check and
  the insertion has room for its row or has been raced; every insertion marks the enrolments of that
  subject, and no other step lets a subject hold more (`LessHeld`).
- `AllCounted` (`Passkeys`). A row's counter is the highest accepted for it, and what a request read is
  no lower than any counter accepted before it read. An advance is compared with the row, so it passes
  all of them; a touch follows a warning on the row, or both counters are zero, in which case only a
  counter accepted after the reading can be above it, and such a one is no regression.
- `ApprovalInv`. A rotation keeps the principal with the person, although the token changes; who
  decided is another person than who asked, from the decision on; what a redemption checked stays so
  until it claims the approval, and the claim is a status that no step leaves, so one redemption runs.
- `TicketInv`. On PostgreSQL a replacement locks the rows it updates and inserts afterwards; the
  invariant says that those rows stay live for everybody else until it ends and that no two
  replacements hold one row. `SpentInv` remembers where a spent ticket's row points, and that it stays
  spent while the row is kept: a replacement and a withdrawal touch only rows that are live.
- `ChainInv` (`AuditChain`). An append, an erasure of personal fields and a trim each keep a chain
  (`AppendChains`, `EraseChains`, `TrimChains`). Only the holder of the append lock has drawn a number
  and read the head, so its number is above every row, cursor and snapshot and the head is still the
  same when it commits. What a retention pass knew before it held the lock (the first entry to keep,
  the boundary) is below that number too (`Knows`), and what it deletes is older than the cut or was
  committed after the pass had found the first entry to keep. A walk that no trim overtook stands at
  the hash of the row before its cursor, and a trim marks the walks it overtakes.
- `SinkInv` (`AuditSink`). The receiver's entries are a prefix of the log, the watermark in memory and
  the one on disk end within it, and a batch on its way begins where the watermark ends. A crash loses
  the memory, and the file is never ahead of the receiver. The refinement is proved from it: every
  step leaves `received` or extends it to a longer prefix.
- `ErasureInv`. While a due request is pending no handler is about to delete or restore the subject;
  a sweep marks only what it has purged; with a lock that can be held, the replica that sweeps is its
  owner; whoever is about to record a purge is alone in it, because the mark is one guarded update.

- `SchemaInv` (`Lifecycle`). A replica past the loop has found or applied every version of its binary
  as the binary has it, and no step takes a version out of the table or changes one: a migration is
  one transaction, in which a lost race fails on the DDL or on the primary key, so a crash leaves it
  whole or not begun, and what a start read of the table stays true however many others apply theirs.
- `SealInv`. A pass walks two tables by identifier, a page at a time, while requests write. Behind a
  pass that has met no failure (`WalksInv`) every readable value is under the key the pass aims at, or
  is on the page in hand as the pass read it, to be written only over that value. What a request
  writes behind the pass is under the same key, since all servers have restarted on the current ring
  before a pass of the rotation may begin (`PassesInv`). A clean report therefore licenses the removal
  of the old keys, and the ring only ever loses a key nothing is under.
- `KeysSound` (`Assertions`). A cached document is the published one of some instant between the request
  for it and its arrival (`SeenSince`), so a key withdrawn is at most a fetch and a cache lifetime
  behind. A key that is withdrawn without being leaked stopped signing a changeover before, which is
  longer than any assertion of it lives, skews included. What keeps a known key from verification is
  then only the spacing of fetches.
- `AlertsInv`. A run of the fold opens when its source was last reported, so a source evicted from the
  fold and refused again is reported at once. A walk that is not astray stands on a row that is still
  there and ahead of all it still owes; whatever is stored, counted up or closed in between keeps that
  order, and each page is the first of the rows behind the cursor.
- `ConsoleInv`. A session that lives was minted by a finished sign-in of its token. A visit under way
  carries that token and start; if it came after the token was revoked, the reading of the token's row
  stops it. Who acts sent the form from a page of the session the cookie names, and has the role the
  form asks for: an auditor's forms are those of the auditor's own session and passkeys, and the two
  that only read. A sign-in by passkey
  holds a challenge that is consumed, and no two hold the same one.
- `AdminInv`. What a revocation's guard has counted must still be true when it writes. Nobody else is
  past the mutex, minting adds, and a rotation that cuts the life of the administrator the guard counted
  puts in its place a successor that lives as long as the row did when it was read. For the long run
  the count at the horizon has to mean "for good": `CutPast` says that nobody the guard finds
  usable at the horizon has a life that was cut before the guard read the clock, since a cut ends at
  most `MaxRotationGrace` after the rotation's own reading; a life cut later has a successor for good.
  A row never outgrows what a request has read of it (`NoLonger`), which bounds a line of rotations by
  the expiry it was issued with.

**What the proofs changed.** In `Sealing`, `RetireOld` asked for a clean report without asking of which
rotation: a report from before a second rotation would have licensed the removal of the first key. The
code reports the key a pass aimed at and the operator compares it (`bulk.go:154-163,179-183,261-265`),
and so does the action now. `RotationRefusesNobody` allowed for any recent fetch, which made its second
disjunct idle; it now says which fetch or failure holds the verifier back. Without
`FetchTimeout < CacheTTL` the spacing of fetches fails, and TLC has a counterexample at equality.

Some definitions are stated so that they can be reasoned about: `UsableBatch` compares the entries of
a batch with their places instead of filtering them, `Prepare` updates a transaction's record, and
`Pending` is the one constructor of a caller's job.

**Only model-checked.** The refinement `CallsAreAtomic` (section 6 says what it lacks), and what no
proof here can reach: liveness under fairness (`SlotsReturned`, `AcceptedIsDelivered`,
`DueIsCompleted`, `ReplicasComeUp`). No module declares a RECURSIVE operator; the folds of the
community modules are used where the code loops.

## 5. What is not modelled

Cryptography (signatures, HMAC, Argon2id, the envelope) and encodings; the HTTP layer beyond
authentication and the console's forms; configuration parsing; drivers and connection pools; rendering
of the console; metrics, logging and health; the dialogue of the wizard; the request wrappers of the
client libraries. Risk signals: a scoring function of one request, without state. In `Throttle`, the
volume dimensions (requests per API key or per ticket selector). In `Passkeys`, a change of the
relying party between begin and completion, and attestation policy. Two server processes revoking
administrative tokens: each has a mutex of its own, which the code's comment concedes. In `AuditSink`,
a retention trim of entries the receiver has not had (`sink.go:665-680`): the shipper logs the break
and goes on, and the receiver then holds the log with that gap. In `Lifecycle`,
`database.auto_migrate: false` (`main.go:125`): such a replica serves on whatever schema an operator
left it. In `Console`, the audit entries of sign-ins. In `Sealing`, the guard of `BeginPass` that
every server has restarted on the current ring is the operator's procedure; the rewrap route
(`bulk.go:199-212`) does not ask. API keys: they rotate by the statements `TokenStore` has for
administrative tokens, and nothing guards the last one. Properties across the parts of `MCRequests`
are not stated; what the parts say of each other is in section 2.

The bounds leave out, knowingly: three transactions at once in one PostgreSQL table, a log longer
than three entries or an outage longer than two, three replicas, and a rewrap of more than two
versions. Each of the hazards listed needs two actors and one intervention, which the bounds include.

## 6. Plan

What is left:

1. `PgStore` to `AtomicStore`, call by call: the point at which a call takes effect is its last
   statement's snapshot, or its commit. `Run` folds a program with `FoldLeft`, whose unfolding is an
   induction, so it first has to be restated over programs of at most five statements.
2. Shorter proofs of the longest modules (`Throttle_proofs`, `Passkeys_proofs`, `AuditChain_proofs`):
   lemmas shared by the steps that touch one row.
