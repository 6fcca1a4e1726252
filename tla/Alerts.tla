------------------------------- MODULE Alerts -------------------------------
(***************************************************************************)
(* The alert engine, the fold in front of it and the queue an operator     *)
(* works from.                                                             *)
(*                                                                         *)
(* A condition is raised by internal/alerts: its fingerprint collapses     *)
(* repeats onto the one row that is open.  Refused credentials are folded  *)
(* by source address before they reach the engine (rejectionTally of       *)
(* internal/api/auth.go), because nothing but an address is needed to be   *)
(* refused.  The console pages through the open rows with a cursor and     *)
(* acknowledges them one at a time.                                        *)
(*                                                                         *)
(* Three moments of one request are separate steps: the fold under its     *)
(* mutex, the engine's reading of the clock, and the store's statement.    *)
(* The store's statement is one upsert in both engines and is atomic.      *)
(***************************************************************************)
EXTENDS Naturals, FiniteSets, FiniteSetsExt, TLC

CONSTANTS
  Requests,     \* requests in flight at once
  Sources,      \* source addresses that get refused
  Occurrences,  \* <<type, subject, resource>> raised by the other components
  Subjects,     \* subjects an erasure may purge
  Window,       \* rejectionWindow, in ticks
  MaxTracked,   \* maxTrackedSources
  PageLimit,    \* the page size the operator asks for
  StoreLimit,   \* the store's own cap on a page
  RowIds,       \* identifiers the engine may mint, a bound on rows
  MaxAlertTime, \* bound on the clock
  MaxRefusals,  \* bound on refusals
  MaxRaised     \* bound on occurrences of the other conditions

\* The cap of the store is at least what the console asks for, as it is with
\* the default audit.max_query_limit of 500.  A larger setting is accepted by
\* the configuration and is described in the README.
ASSUME AlertsAssumption ==
  /\ Window \in Nat \ {0} /\ MaxTracked \in Nat \ {0}
  /\ PageLimit \in Nat \ {0} /\ StoreLimit \in Nat /\ PageLimit <= StoreLimit
  /\ RowIds \subseteq Nat \ {0}

NoId == "absent"       \* an empty subject or resource identifier
Tenant == "deployment"   \* the configured tenant
SystemTenant == "system" \* store.SystemTenantID

VARIABLES
  backend,  \* the store: "sqlite" or "postgres", for good
  now,      \* wall clock
  folded,     \* the fold: source -> what it has gathered since its last report
  asking,   \* request -> where it is
  alerts,   \* the alerts table
  audited,  \* refusals covered by audit entries
  raised,   \* occurrences of the other conditions so far
  refused,  \* history: source -> when it was last refused, and how often in all
  told,     \* history: source -> when a refusal of it was last reported
  listing   \* the operator's walk of the open alerts

alertVars ==
  <<backend, now, folded, asking, alerts, audited, raised, refused, told, listing>>

-----------------------------------------------------------------------------
(***************************** The conditions ******************************)

\* Which identifiers take part in each condition's identity.
Identity ==
  [ type \in {"auth.failure_burst.subject", "recovery.exhausted",
              "recovery.low", "risk.high"} |-> {"subject"} ]
  @@ [ type \in {"webauthn.sign_count_regression",
                 "enrolment_ticket.factor_override"}
         |-> {"subject", "resource"} ]
  @@ [ type \in {"auth.failure_burst.ip", "credential.bulk_revoked",
                 "api_key.rejected", "admin.denied", "kek.rotation_overdue",
                 "audit.sink_failing"} |-> {"resource"} ]
  @@ [ type \in {"audit.chain_broken"} |-> {} ]

Severity(type) ==
  CASE type = "audit.chain_broken" -> "critical"
    [] type \in {"recovery.low", "kek.rotation_overdue"} -> "info"
    [] OTHER -> "warning"

Input(tenant, type, subject, resource) ==
  [ tenant |-> tenant, type |-> type,
    subject |-> IF "subject" \in Identity[type] THEN subject ELSE NoId,
    resource |-> IF "resource" \in Identity[type] THEN resource ELSE NoId ]

\* SHA-256 over length-prefixed fields, taken to be injective.  Neither the
\* clock nor the detail takes part.
Fingerprint(in) == <<in.type, in.tenant, in.subject, in.resource>>

-----------------------------------------------------------------------------
(************************ The fold of the refusals *************************)

Stale(run) == now - run.openedAt >= Window

\* evictLocked: elapsed runs go first; if the map is still full, so does the
\* run opened earliest.
Evicted(held) ==
  IF Cardinality(DOMAIN held) < MaxTracked THEN { held }
  ELSE LET open == { s \in DOMAIN held : ~Stale(held[s]) }
           oldest == { s \in open : \A o \in open :
                         held[s].openedAt <= held[o].openedAt }
       IN IF Cardinality(open) < MaxTracked
          THEN { [ s \in open |-> held[s] ] }
          ELSE { [ s \in open \ {gone} |-> held[s] ] : gone \in oldest }

Empty == [openedAt |-> now, refusals |-> 0, credentials |-> 0]

\* The outcomes of observe: the fold afterwards, and what it reports, if it
\* does.  The order of a Go map decides which of two runs of one age goes.
Fold(source, credential) ==
  IF source \in DOMAIN folded
  THEN LET run == folded[source] IN
       IF ~Stale(run)
       THEN { [ runs |-> [folded EXCEPT
                  ![source].refusals = @ + 1,
                  ![source].credentials = @ + credential],
                report |-> FALSE, refusals |-> 0, credentials |-> 0 ] }
       ELSE { [ runs |-> [folded EXCEPT ![source] = Empty],
                report |-> TRUE, refusals |-> run.refusals + 1,
                credentials |-> run.credentials + credential ] }
  ELSE { [ runs |-> [ s \in DOMAIN held \cup {source} |->
                         IF s = source THEN Empty ELSE held[s] ],
           report |-> TRUE, refusals |-> 1, credentials |-> credential ] :
         held \in Evicted(folded) }

\* Mutant of Observe: a full map takes no new address, and reports none.
ObserveWhileRoom(source, credential) ==
  IF source \notin DOMAIN folded /\ Cardinality(DOMAIN folded) >= MaxTracked
  THEN { [ runs |-> folded, report |-> FALSE, refusals |-> 0, credentials |-> 0 ] }
  ELSE Fold(source, credential)

Observe(source, credential) == Fold(source, credential)

NotAsking == [at |-> "idle"]

Proceed(q, to) == asking' = [asking EXCEPT ![q] = to]

\* A refused credential, or none presented at all: RequireAPIKey and
\* RequireAdmin call recordRejection, which folds it under the mutex.
RefuseCredential(q, source, credential) ==
  /\ asking[q] = NotAsking /\ refused.count < MaxRefusals
  /\ \E fold \in Observe(source, credential) :
       /\ folded' = fold.runs
       /\ told' = IF fold.report THEN [told EXCEPT ![source] = now] ELSE told
       /\ Proceed(q, IF ~fold.report THEN NotAsking
                  ELSE [ at |-> IF fold.credentials > 0 THEN "record" ELSE "raise",
                         in |-> Input(SystemTenant, "api_key.rejected",
                                      NoId, source),
                         refusals |-> fold.refusals ])
  /\ refused' = [ count |-> refused.count + 1,
                  last |-> [refused.last EXCEPT ![source] = now] ]
  /\ UNCHANGED <<backend, now, alerts, audited, raised, listing>>

\* The folded entry is recorded, or is not and the failure is logged.
RecordRejection(q) ==
  /\ asking[q].at = "record"
  /\ \/ audited' = audited + asking[q].refusals
     \/ audited' = audited
  /\ Proceed(q, [asking[q] EXCEPT !.at = "raise"])
  /\ UNCHANGED <<backend, now, folded, alerts, raised, refused, told, listing>>

-----------------------------------------------------------------------------
(******************************* The engine ********************************)

\* Another component meets one of its conditions and calls the engine.
Occur(q, occurrence) ==
  /\ asking[q] = NotAsking /\ raised < MaxRaised
  /\ raised' = raised + 1
  /\ Proceed(q, [ at |-> "raise",
               in |-> Input(Tenant, occurrence[1], occurrence[2], occurrence[3]),
               refusals |-> 0 ])
  /\ UNCHANGED <<backend, now, folded, alerts, audited, refused, told, listing>>

\* Raise dates the occurrence before it calls the store.
DateOccurrence(q) ==
  /\ asking[q].at = "raise"
  /\ Proceed(q, [at |-> "store", in |-> asking[q].in, seen |-> now])
  /\ UNCHANGED <<backend, now, folded, alerts, audited, raised, refused, told, listing>>

IsOpenRow(r) == r.open

\* The row a repeat falls on: the partial unique index holds one open row for
\* a fingerprint.
Conflicting(in) == { r \in alerts : IsOpenRow(r) /\ Fingerprint(r.in) = Fingerprint(in) }

\* INSERT ... ON CONFLICT DO UPDATE.  Only the count and last_seen_at move,
\* and last_seen_at takes the reading the occurrence came with, later or not.
Upserted(in, seen, id) ==
  IF Conflicting(in) = {}
  THEN alerts \cup { [ id |-> id, in |-> in, severity |-> Severity(in.type),
                     occurrences |-> 1, last |-> seen, open |-> TRUE ] }
  ELSE { IF r \in Conflicting(in)
         THEN [r EXCEPT !.occurrences = @ + 1, !.last = seen] ELSE r : r \in alerts }

Touched(in) == { r.id : r \in Conflicting(in) }

\* What a change of the rows does to the walk's history: rows that moved are
\* no longer owed to it, and a cursor that moved back has left rows behind.
WalkAfterMove(ids, seen) ==
  [listing EXCEPT !.owed = @ \ ids,
     !.astray = @ \/ \E r \in alerts : r.id = listing.cursor /\ r.id \in ids /\ seen < r.last]

StoreAlert(q) ==
  LET in == asking[q].in
      seen == asking[q].seen
      free == RowIds \ { r.id : r \in alerts }
  IN /\ asking[q].at = "store"
     /\ Conflicting(in) = {} => free # {}
     /\ \E id \in IF Conflicting(in) = {} THEN free ELSE {0} :
          alerts' = Upserted(in, seen, id)
     /\ listing' = WalkAfterMove(Touched(in), seen)
     /\ Proceed(q, NotAsking)
     /\ UNCHANGED <<backend, now, folded, audited, raised, refused, told>>

\* The store failed.  The caller logs it and its decision stands.
RaiseLost(q) ==
  /\ asking[q].at = "store"
  /\ Proceed(q, NotAsking)
  /\ UNCHANGED <<backend, now, folded, alerts, audited, raised, refused, told, listing>>

-----------------------------------------------------------------------------
(**************************** The operator's queue *************************)

\* ORDER BY last_seen_at DESC, id DESC
Ahead(r, s) == r.last > s.last \/ (r.last = s.last /\ r.id > s.id)

OpenAlerts == { r \in alerts : r.in.tenant = Tenant /\ IsOpenRow(r) }

\* Mutant of Beyond: the next page skips as many rows as were shown.
BeyondByOffset(cursor) ==
  { r \in OpenAlerts : Cardinality({ q \in OpenAlerts : Ahead(q, r) }) >= Cardinality(listing.seen) }

\* The rows a page is taken from.  SQLite compares with the cursor row as it
\* is now, and with nothing when the row is gone; PostgreSQL does not look at
\* the cursor at all.
Beyond(cursor) ==
  IF cursor = 0 \/ backend = "postgres" THEN OpenAlerts
  ELSE { r \in OpenAlerts : \E c \in alerts : c.id = cursor /\ Ahead(c, r) }

PageOf(candidates) ==
  { r \in candidates :
      Cardinality({ q \in candidates : Ahead(q, r) }) < Min({PageLimit, StoreLimit}) }

Resting == [ at |-> "idle", cursor |-> 0, seen |-> {},
             owed |-> {}, astray |-> FALSE ]

\* handleAlertList and handleAdminListAlerts.  With a full page the console
\* offers the next, after the last row shown.
ShowPage(before, cursor) ==
  LET page == PageOf(Beyond(cursor))
      last == CHOOSE r \in page : \A q \in page : q = r \/ Ahead(q, r)
  IN listing' = [before EXCEPT
       !.at = IF Cardinality(page) = PageLimit THEN "paging" ELSE "ended",
       !.cursor = IF Cardinality(page) = PageLimit THEN last.id ELSE 0,
       !.seen = @ \cup { r.id : r \in page }]

\* The page with no cursor.  The rows open now are owed to the walk that starts
\* here; one walk is followed.
FirstAlerts ==
  /\ listing.at = "idle"
  /\ ShowPage([Resting EXCEPT !.owed = { r.id : r \in OpenAlerts }], 0)
  /\ UNCHANGED <<backend, now, folded, asking, alerts, audited, raised, refused, told>>

NextAlerts ==
  /\ listing.at = "paging"
  /\ ShowPage(listing, listing.cursor)
  /\ UNCHANGED <<backend, now, folded, asking, alerts, audited, raised, refused, told>>

\* AcknowledgeAlert: it closes the row, if it is open still, whatever has been
\* counted on it since it was shown.
Closed(id) ==
  { IF r.id = id /\ IsOpenRow(r) THEN [r EXCEPT !.open = FALSE] ELSE r : r \in alerts }

\* An operator acknowledges a row some page showed, this walk's or another's.
CloseAlert(id) ==
  /\ \E r \in OpenAlerts : r.id = id
  /\ alerts' = Closed(id)
  /\ listing' = [listing EXCEPT !.owed = @ \ {id}]
  /\ UNCHANGED <<backend, now, folded, asking, audited, raised, refused, told>>

\* PurgeSubject deletes the alerts that name the subject.
PurgeAlerts(subject) ==
  LET gone == { r \in alerts : r.in.tenant = Tenant /\ r.in.subject = subject }
      ids == { r.id : r \in gone }
  IN /\ gone # {}
     /\ alerts' = alerts \ gone
     /\ listing' = [listing EXCEPT !.owed = @ \ ids,
                   !.astray = @ \/ (listing.at = "paging" /\ listing.cursor \in ids)]
     /\ UNCHANGED <<backend, now, folded, asking, audited, raised, refused, told>>

AlertClock ==
  /\ now < MaxAlertTime
  /\ now' = now + 1
  /\ UNCHANGED <<backend, folded, asking, alerts, audited, raised, refused, told, listing>>

-----------------------------------------------------------------------------
NotYet == 0 \* the clock starts at one

AlertsInit ==
  /\ backend \in {"sqlite", "postgres"}
  /\ now = 1
  /\ folded = [ s \in {} |-> Empty ]
  /\ asking = [ q \in Requests |-> NotAsking ]
  /\ alerts = {}
  /\ audited = 0
  /\ raised = 0
  /\ refused = [ count |-> 0, last |-> [ s \in Sources |-> NotYet ] ]
  /\ told = [ s \in Sources |-> NotYet ]
  /\ listing = Resting

AlertsNext ==
  \/ \E q \in Requests :
       \/ \E s \in Sources, credential \in 0 .. 1 : RefuseCredential(q, s, credential)
       \/ RecordRejection(q)
       \/ \E occurrence \in Occurrences : Occur(q, occurrence)
       \/ DateOccurrence(q)
       \/ StoreAlert(q)
       \/ RaiseLost(q)
  \/ FirstAlerts
  \/ NextAlerts
  \/ \E id \in RowIds : CloseAlert(id)
  \/ \E subject \in Subjects : PurgeAlerts(subject)
  \/ AlertClock

AlertsSpec == AlertsInit /\ [][AlertsNext]_alertVars

-----------------------------------------------------------------------------
(******************************* Properties ********************************)

\* No address is made invisible by crowding the fold from others, as the
\* comment on evictLocked has it: a refused address has been reported since
\* one window before its latest refusal.
CrowdingHidesNobody ==
  \A s \in Sources :
    refused.last[s] # NotYet =>
      told[s] # NotYet /\ refused.last[s] - told[s] < Window

\* A walk of the queue that has come to its end has shown every alert that
\* was open from its start to its end and did not move, however many others
\* were raised, repeated and acknowledged between the pages.  The two things
\* that do lead a walk astray are the ones ListAlerts cannot see: an erasure
\* deletes the row the cursor names, and an occurrence dated before another
\* but stored after it takes that row's last_seen_at back.
WalkSkipsNothing ==
  listing.at = "ended" /\ ~listing.astray => listing.owed \subseteq listing.seen
=============================================================================
