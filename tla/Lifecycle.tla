----------------------------- MODULE Lifecycle ------------------------------
(***************************************************************************)
(* How server processes come up on one database and go down again: run and *)
(* serve in cmd/n0passtemps-server/main.go, with Migrate of the two stores *)
(* and the subject service a request goes through while the process stops. *)
(*                                                                         *)
(* A replica opens its keyring and its store, applies the migrations its   *)
(* binary embeds one transaction at a time, provisions the tenant, records *)
(* that it starts and serves.  On a signal it stops accepting, waits for   *)
(* the requests in flight no longer than the grace period, and unwinds     *)
(* run's deferred calls: janitor, audit sink, subject service, store.      *)
(* Whoever runs the process starts it again when it has exited.            *)
(***************************************************************************)
EXTENDS Naturals, FiniteSets, FiniteSetsExt

CONSTANTS
    Servers,        \* server processes
    LastVersion,    \* the newest migration a binary may embed
    Checksums,      \* what a migration file may hash to
    Builds,         \* which binaries the replicas may run: a set of functions on Replicas
    LifeCalls,      \* requests that resolve a person not known yet
    MaxStops        \* signals and crashes of the run together

ASSUME LifecycleAssumption ==
    /\ LastVersion \in Nat
    /\ MaxStops \in Nat
    /\ \A b \in Builds : \A r \in Servers :
          \E n \in 0..LastVersion : b[r] \in [1..n -> Checksums]

VARIABLES
    build,      \* by replica: the checksums of the migrations its binary embeds
    schema,     \* schema_migrations: by version applied, its checksum
    provisioned,\* the tenant's row is there
    stage,      \* by replica: how far run has got
    known,      \* by replica: schema_migrations as it was read
    at,         \* by replica: the version the loop is at
    open,       \* by replica: its migration's transaction is open
    answering,  \* by call: the request in progress
    people,     \* the lookup values subjects have been created under
    stops       \* signals and crashes so far

lifeVars == <<build, schema, provisioned, stage, known, at, open, answering, people, stops>>

Nothing == [v \in {} |-> ""]
NotArrived == [stage |-> "none"]

LifeInit ==
    /\ build \in Builds
    /\ schema = Nothing
    /\ provisioned = FALSE
    /\ stage = [r \in Servers |-> "off"]
    /\ known = [r \in Servers |-> Nothing]
    /\ at = [r \in Servers |-> 0]
    /\ open = [r \in Servers |-> FALSE]
    /\ answering = [c \in LifeCalls |-> NotArrived]
    /\ people = {}
    /\ stops = 0

InFlight(r) ==
    {c \in LifeCalls : answering[c].stage \notin {"none", "done"} /\ answering[c].on = r}

\* The process ends: an open transaction is rolled back and its requests die with it.
Exited(r) ==
    /\ stage' = [stage EXCEPT ![r] = "off"]
    /\ open' = [open EXCEPT ![r] = FALSE]
    /\ answering' = [c \in LifeCalls |->
                        IF c \in InFlight(r) THEN [answering[c] EXCEPT !.stage = "done"]
                        ELSE answering[c]]

(***************************************************************************)
(* Coming up                                                               *)
(***************************************************************************)

\* run, to the keyring: the configuration is loaded and validated.
Launch(r) ==
    /\ stage[r] = "off"
    /\ stage' = [stage EXCEPT ![r] = "launched"]
    /\ UNCHANGED <<build, schema, provisioned, known, at, open, answering, people, stops>>

OpenKeyring(r) ==
    /\ stage[r] = "launched"
    /\ stage' = [stage EXCEPT ![r] = "keyring"]
    /\ UNCHANGED <<build, schema, provisioned, known, at, open, answering, people, stops>>

OpenStore(r) ==
    /\ stage[r] = "keyring"
    /\ stage' = [stage EXCEPT ![r] = "opened"]
    /\ UNCHANGED <<build, schema, provisioned, known, at, open, answering, people, stops>>

\* The first reads of Migrate: the bookkeeping table, created when it is not there, and
\* what it holds, read once.
ReadSchema(r) ==
    /\ stage[r] = "opened"
    /\ stage' = [stage EXCEPT ![r] = "migrating"]
    /\ known' = [known EXCEPT ![r] = schema]
    /\ at' = [at EXCEPT ![r] = 1]
    /\ UNCHANGED <<build, schema, provisioned, open, answering, people, stops>>

\* A migration recorded already is compared and passed over; another checksum ends the
\* start.
Mismatch(r) == known[r][at[r]] # build[r][at[r]]

\* Mutant of SkipApplied: a migration already applied is not compared with the file.
SkipAppliedUnread(r) ==
    /\ stage[r] = "migrating"
    /\ ~open[r]
    /\ at[r] \in DOMAIN build[r] \cap DOMAIN known[r]
    /\ at' = [at EXCEPT ![r] = @ + 1]
    /\ UNCHANGED <<build, schema, provisioned, stage, known, open, answering, people, stops>>

SkipApplied(r) ==
    /\ stage[r] = "migrating"
    /\ ~open[r]
    /\ at[r] \in DOMAIN build[r] \cap DOMAIN known[r]
    /\ IF Mismatch(r)
       THEN Exited(r) /\ UNCHANGED at
       ELSE at' = [at EXCEPT ![r] = @ + 1] /\ UNCHANGED <<stage, open, answering>>
    /\ UNCHANGED <<build, schema, provisioned, known, people, stops>>

\* A transaction runs the migration's statements.  Its first statement creates what
\* another replica's transaction on the same version is creating, so it waits for it.
BeginMigration(r) ==
    /\ stage[r] = "migrating"
    /\ ~open[r]
    /\ at[r] \in DOMAIN build[r] \ DOMAIN known[r]
    /\ \A q \in Servers \ {r} : ~(open[q] /\ at[q] = at[r])
    /\ open' = [open EXCEPT ![r] = TRUE]
    /\ UNCHANGED <<build, schema, provisioned, stage, known, at, answering, people, stops>>

\* What the statements create is there when another replica committed the version since
\* schema_migrations was read: the transaction fails and the process with it.
EndMigration(r) ==
    /\ open[r]
    /\ IF at[r] \in DOMAIN schema
       THEN Exited(r) /\ UNCHANGED <<schema, at>>
       ELSE /\ schema' = [v \in DOMAIN schema \cup {at[r]} |->
                             IF v = at[r] THEN build[r][v] ELSE schema[v]]
            /\ open' = [open EXCEPT ![r] = FALSE]
            /\ at' = [at EXCEPT ![r] = @ + 1]
            /\ UNCHANGED <<stage, answering>>
    /\ UNCHANGED <<build, provisioned, known, people, stops>>

Migrated(r) == stage[r] = "migrating" /\ at[r] \notin DOMAIN build[r]

\* Mutant of LookUpTenant: the row is inserted at every start.
LookUpTenantInserts(r) ==
    /\ Migrated(r)
    /\ stage' = [stage EXCEPT ![r] = "provisioning"]
    /\ UNCHANGED <<build, schema, provisioned, known, at, open, answering, people, stops>>

\* ensureTenant reads the row first; between that and the insert another replica may have
\* written it, and then this start fails on the conflict.
LookUpTenant(r) ==
    /\ Migrated(r)
    /\ stage' = [stage EXCEPT ![r] = IF provisioned THEN "provisioned" ELSE "provisioning"]
    /\ UNCHANGED <<build, schema, provisioned, known, at, open, answering, people, stops>>

CreateTenant(r) ==
    /\ stage[r] = "provisioning"
    /\ IF provisioned
       THEN Exited(r)
       ELSE stage' = [stage EXCEPT ![r] = "provisioned"] /\ UNCHANGED <<open, answering>>
    /\ provisioned' = TRUE
    /\ UNCHANGED <<build, schema, known, at, people, stops>>

\* The chain is verified where the configuration asks for it, the janitor and the sink
\* are started, the start is recorded, and the listener is up.
Serve(r) ==
    /\ stage[r] = "provisioned"
    /\ stage' = [stage EXCEPT ![r] = "serving"]
    /\ UNCHANGED <<build, schema, provisioned, known, at, open, answering, people, stops>>

(***************************************************************************)
(* Requests                                                                *)
(***************************************************************************)
Arrive(c, r) ==
    /\ answering[c].stage = "none"
    /\ stage[r] = "serving"
    /\ answering' = [answering EXCEPT ![c] = [stage |-> "arrived", on |-> r, key |-> ""]]
    /\ UNCHANGED <<build, schema, provisioned, stage, known, at, open, people, stops>>

\* RefHMAC: the lookup value, under the pepper the service holds.  Once Close has been
\* through it that is an empty key.
PepperOf(r) == IF stage[r] = "unkeyed" THEN "no pepper" ELSE "the pepper"

DeriveKey(c) ==
    /\ answering[c].stage = "arrived"
    /\ answering' = [answering EXCEPT ![c].stage = "keyed", ![c].key = PepperOf(answering[c].on)]
    /\ UNCHANGED <<build, schema, provisioned, stage, known, at, open, people, stops>>

\* The subject of the lookup value, created when there is none; a closed store refuses.
ResolveSubject(c) ==
    /\ answering[c].stage = "keyed"
    /\ people' = IF stage[answering[c].on] = "closed" THEN people ELSE people \cup {answering[c].key}
    /\ answering' = [answering EXCEPT ![c].stage = "done"]
    /\ UNCHANGED <<build, schema, provisioned, stage, known, at, open, stops>>

(***************************************************************************)
(* Going down                                                              *)
(***************************************************************************)

\* serve, on the signal: the listener is closed and the drain begins.
Signal(r) ==
    /\ stage[r] = "serving"
    /\ stops < MaxStops
    /\ stops' = stops + 1
    /\ stage' = [stage EXCEPT ![r] = "draining"]
    /\ UNCHANGED <<build, schema, provisioned, known, at, open, answering, people>>

\* Shutdown returns: nothing is in flight, or the grace period is over.  It interrupts no
\* handler.
DrainEnds(r) ==
    /\ stage[r] = "draining"
    /\ stage' = [stage EXCEPT ![r] = "unwinding"]
    /\ UNCHANGED <<build, schema, provisioned, known, at, open, answering, people, stops>>

\* The deferred calls, last first: the janitor and the sink are waited for, ...
CloseSubjects(r) ==
    /\ stage[r] = "unwinding"
    /\ stage' = [stage EXCEPT ![r] = "unkeyed"]
    /\ UNCHANGED <<build, schema, provisioned, known, at, open, answering, people, stops>>

CloseStore(r) ==
    /\ stage[r] = "unkeyed"
    /\ stage' = [stage EXCEPT ![r] = "closed"]
    /\ UNCHANGED <<build, schema, provisioned, known, at, open, answering, people, stops>>

Exit(r) ==
    /\ stage[r] = "closed"
    /\ Exited(r)
    /\ UNCHANGED <<build, schema, provisioned, known, at, people, stops>>

KillReplica(r) ==
    /\ stage[r] # "off"
    /\ stops < MaxStops
    /\ stops' = stops + 1
    /\ Exited(r)
    /\ UNCHANGED <<build, schema, provisioned, known, at, people>>

LifeNext ==
    \/ \E r \in Servers :
          \/ Launch(r)
          \/ OpenKeyring(r)
          \/ OpenStore(r)
          \/ ReadSchema(r)
          \/ SkipApplied(r)
          \/ BeginMigration(r)
          \/ EndMigration(r)
          \/ LookUpTenant(r)
          \/ CreateTenant(r)
          \/ Serve(r)
          \/ Signal(r)
          \/ DrainEnds(r)
          \/ CloseSubjects(r)
          \/ CloseStore(r)
          \/ Exit(r)
          \/ KillReplica(r)
    \/ \E c \in LifeCalls :
          \/ \E r \in Servers : Arrive(c, r)
          \/ DeriveKey(c)
          \/ ResolveSubject(c)

LifeSpec == LifeInit /\ [][LifeNext]_lifeVars

\* A process that is up, is coming up or has gone down takes its next step.
RunsOn(r) ==
    \/ Launch(r) \/ OpenKeyring(r) \/ OpenStore(r) \/ ReadSchema(r)
    \/ SkipApplied(r) \/ BeginMigration(r) \/ EndMigration(r)
    \/ LookUpTenant(r) \/ CreateTenant(r) \/ Serve(r)
    \/ DrainEnds(r) \/ CloseSubjects(r) \/ CloseStore(r) \/ Exit(r)

\* A process runs on, and one that has exited is started again by whoever runs it; no
\* request has to arrive, nor any signal.
FairLifeSpec == LifeSpec /\ \A r \in Servers : WF_lifeVars(RunsOn(r))

(***************************************************************************)
(* Properties                                                              *)
(***************************************************************************)

\* A replica that serves has every migration of its binary applied, from the file it
\* embeds, and the versions applied have no gap: whatever replicas migrated at once and
\* wherever one of them failed or crashed, no process runs on a schema it does not expect
\* (Migrate's transaction per version and its checksum test).
ServesOnItsSchema ==
    /\ DOMAIN schema = 1..Cardinality(DOMAIN schema)
    /\ \A r \in Servers :
          stage[r] = "serving" =>
              \A v \in DOMAIN build[r] : v \in DOMAIN schema /\ schema[v] = build[r][v]

\* Replicas whose binaries agree on the migrations they share all come to serve, though
\* those that lose a race on a migration or on the tenant's row exit, as run does on any
\* error, and have to be started again.
Agreeing ==
    \A r, q \in Servers : \A v \in DOMAIN build[r] \cap DOMAIN build[q] : build[r][v] = build[q][v]

ReplicasComeUp == []<>(Agreeing => \A r \in Servers : stage[r] = "serving")

\* What serve says of a request that outlives the grace period: it is dropped, and the
\* user retries "rather than ending up in an inconsistent state".
KeyedByThePepper == people \subseteq {"the pepper"}
=============================================================================
