------------------------------ MODULE Tickets -------------------------------
(***************************************************************************)
(* Enrolment tickets of one subject: issued by an application or by an     *)
(* operator, withdrawn, and redeemed by one WebAuthn registration          *)
(* (internal/api/tickets.go, the two stores' ticket.go).                   *)
(*                                                                         *)
(* A request is a process that runs once, and a step is a store call.  A   *)
(* ticket is named by the request that issues it, a credential by the      *)
(* redemption that creates it.  SQLite replaces the live ticket in one     *)
(* transaction behind the write lock; Postgres in two statements, which    *)
(* another transaction may come between.                                   *)
(***************************************************************************)
EXTENDS Integers, FiniteSets

CONSTANTS
    TicketCalls,    \* requests
    TicketMixes,    \* what the requests may ask for: their kind, the guard of an
                    \* issue, the target of a revocation or a redemption
    TicketTTL,      \* tickets.ttl
    MaxTicketTime,  \* bound: the clock
    MaxDeaths       \* bound: requests whose process dies

NoTicket == [state |-> "absent", expires |-> 0, cred |-> "none"]

VARIABLES
    ticketEngine, \* "sqlite" or "postgres"
    holder,       \* the subject's row: "active", "locked" or "gone"
    totpHeld,     \* the subject has a confirmed TOTP secret
    ticketRow,    \* enrolment_tickets, by the call that issued each
    enrolled,     \* webauthn_credentials made with a ticket, by redemption
    call,         \* the requests
    tnow,         \* the clock
    ticketsWithdrawn, \* history: tickets an operator was told are revoked
    stranded,     \* history: redemptions whose undo failed
    deaths        \* history: calls that died half-way

ticketVars == <<ticketEngine, holder, totpHeld, ticketRow, enrolled, call, tnow,
                ticketsWithdrawn, stranded, deaths>>

CallKinds == {"issue", "admin issue", "revoke", "redeem"}

Asked == [kind : CallKinds, guard : BOOLEAN, target : TicketCalls]

FreshCall(ask) == [stage |-> "idle", kind |-> ask.kind, guard |-> ask.guard,
                   target |-> ask.target, row |-> NoTicket, seen |-> {}]

ASSUME TicketAssumption ==
    /\ TicketMixes \subseteq [TicketCalls -> Asked]
    /\ TicketTTL \in Nat

TicketsInit ==
    /\ ticketEngine \in {"sqlite", "postgres"}
    /\ holder = "active"
    /\ totpHeld \in BOOLEAN
    /\ ticketRow = [t \in TicketCalls |-> NoTicket]
    /\ enrolled = [c \in TicketCalls |-> "none"]
    /\ \E mix \in TicketMixes : call = [c \in TicketCalls |-> FreshCall(mix[c])]
    /\ tnow = 0
    /\ ticketsWithdrawn = {}
    /\ stranded = {}
    /\ deaths = 0

\* consumed_at IS NULL AND revoked_at IS NULL, which is what et_live_uq covers.
Unspent(row) == row.state = "live"

LiveTickets == {t \in TicketCalls : Unspent(ticketRow[t])}

Redeemable(row, now) == Unspent(row) /\ now < row.expires

\* subjectFactors: an active credential or a confirmed TOTP secret.
SubjectFactors == totpHeld \/ \E c \in TicketCalls : enrolled[c] = "active"

Advance(c, stage) == call' = [call EXCEPT ![c].stage = stage]

\* A row an open Postgres transaction has updated.
TicketLocked(t) == \E c \in TicketCalls : call[c].stage = "insert" /\ t \in call[c].seen

Surroundings == <<ticketEngine, totpHeld, tnow, deaths>>

-----------------------------------------------------------------------------
(* Issuing.                                                                *)

\* handleIssueEnrolmentTicket, handleAdminIssueEnrolmentTicket: the subject must be
\* there and active.
ResolveHolder(c) ==
    /\ call[c].stage = "idle"
    /\ call[c].kind \in {"issue", "admin issue"}
    /\ Advance(c, IF holder = "active" THEN "factors" ELSE "done")
    /\ UNCHANGED Surroundings
    /\ UNCHANGED <<holder, ticketRow, enrolled, ticketsWithdrawn, stranded>>

\* issueTicket reads the factors, and refuses a subject who has one unless the
\* request waives the guard.
GateOnFactors(c) ==
    /\ call[c].stage = "factors"
    /\ Advance(c, IF SubjectFactors /\ call[c].guard THEN "done" ELSE "replace")
    /\ UNCHANGED Surroundings
    /\ UNCHANGED <<holder, ticketRow, enrolled, ticketsWithdrawn, stranded>>

NewTicket == [state |-> "live", expires |-> tnow + TicketTTL, cred |-> "none"]

\* The audit entry and, over an existing factor, the alert follow.
TicketIssued(c) == Advance(c, "issued")

\* ReplaceEnrolmentTicket on SQLite.
ReplaceTicket(c) ==
    /\ call[c].stage = "replace"
    /\ ticketEngine = "sqlite"
    /\ holder # "gone"
    /\ ticketRow' = [t \in TicketCalls |->
                        IF t = c THEN NewTicket
                        ELSE IF t \in LiveTickets THEN [ticketRow[t] EXCEPT !.state = "revoked"]
                        ELSE ticketRow[t]]
    /\ TicketIssued(c)
    /\ UNCHANGED Surroundings
    /\ UNCHANGED <<holder, enrolled, ticketsWithdrawn, stranded>>

\* On Postgres: the UPDATE, which waits for the rows another transaction updated.
PgReplaceUpdate(c) ==
    /\ call[c].stage = "replace"
    /\ ticketEngine = "postgres"
    /\ holder # "gone"
    /\ \A t \in LiveTickets : ~TicketLocked(t)
    /\ call' = [call EXCEPT ![c].stage = "insert", ![c].seen = LiveTickets]
    /\ UNCHANGED Surroundings
    /\ UNCHANGED <<holder, ticketRow, enrolled, ticketsWithdrawn, stranded>>

\* Mutant of PgReplaceInsert: no unique index on the live ticket of a subject.
PgReplaceUnindexed(c) ==
    /\ call[c].stage = "insert"
    /\ ticketRow' = [t \in TicketCalls |->
                        IF t = c THEN NewTicket
                        ELSE IF t \in call[c].seen THEN [ticketRow[t] EXCEPT !.state = "revoked"]
                        ELSE ticketRow[t]]
    /\ TicketIssued(c)
    /\ UNCHANGED Surroundings
    /\ UNCHANGED <<holder, enrolled, ticketsWithdrawn, stranded>>

\* The INSERT and the commit, refused when another live ticket appeared since.
PgReplaceInsert(c) ==
    /\ call[c].stage = "insert"
    /\ IF LiveTickets \subseteq call[c].seen /\ holder # "gone"
       THEN /\ ticketRow' = [t \in TicketCalls |->
                        IF t = c THEN NewTicket
                        ELSE IF t \in call[c].seen THEN [ticketRow[t] EXCEPT !.state = "revoked"]
                        ELSE ticketRow[t]]
            /\ TicketIssued(c)
       ELSE Advance(c, "done") /\ UNCHANGED ticketRow
    /\ UNCHANGED Surroundings
    /\ UNCHANGED <<holder, enrolled, ticketsWithdrawn, stranded>>

-----------------------------------------------------------------------------
(* Withdrawing.                                                            *)

\* RevokeEnrolmentTicket's condition: an expired ticket may be revoked too.
Revocable(row) == Unspent(row)

\* handleAdminRevokeEnrolmentTicket; anything else is a 404 or a conflict.
RevokeTicket(c) ==
    /\ call[c].stage = "idle"
    /\ call[c].kind = "revoke"
    /\ ~TicketLocked(call[c].target)
    /\ Advance(c, "done")
    /\ IF Revocable(ticketRow[call[c].target])
       THEN /\ ticketRow' = [ticketRow EXCEPT ![call[c].target].state = "revoked"]
            /\ ticketsWithdrawn' = ticketsWithdrawn \cup {call[c].target}
       ELSE UNCHANGED <<ticketRow, ticketsWithdrawn>>
    /\ UNCHANGED Surroundings
    /\ UNCHANGED <<holder, enrolled, stranded>>

-----------------------------------------------------------------------------
(* Redeeming.  handleTicketRegisterBegin resolves the ticket the same way   *)
(* and spends nothing, so only the completion is followed.  The throttle's *)
(* part, which admits or refuses the attempt first, is module Throttle.    *)

\* GetEnrolmentTicketBySelector: what it reads is used by the steps that follow.  An
\* unknown selector, a ticket presented with the wrong verifier and an unavailable
\* key derivation end it here.
FetchTicket(c) ==
    /\ call[c].stage = "idle"
    /\ call[c].kind = "redeem"
    /\ call' = [call EXCEPT ![c].row = ticketRow[call[c].target],
                            ![c].stage = IF ticketRow[call[c].target] = NoTicket THEN "done"
                                         ELSE "check"]
    /\ UNCHANGED Surroundings
    /\ UNCHANGED <<holder, ticketRow, enrolled, ticketsWithdrawn, stranded>>

\* Redeemable on the row as it was read, then GetSubject.
CheckTicket(c) ==
    /\ call[c].stage = "check"
    /\ Advance(c, IF Redeemable(call[c].row, tnow) /\ holder = "active" THEN "register" ELSE "done")
    /\ UNCHANGED Surroundings
    /\ UNCHANGED <<holder, ticketRow, enrolled, ticketsWithdrawn, stranded>>

\* CompleteRegistration creates the credential or refuses the response.
RegisterWithTicket(c) ==
    /\ call[c].stage = "register"
    /\ \/ /\ holder # "gone"
          /\ enrolled' = [enrolled EXCEPT ![c] = "active"]
          /\ Advance(c, "consume")
       \/ Advance(c, "done") /\ UNCHANGED enrolled
    /\ UNCHANGED Surroundings
    /\ UNCHANGED <<holder, ticketRow, ticketsWithdrawn, stranded>>

\* Mutant of Consumable: the condition is left to the check made before.
ConsumableAny(row) == row # NoTicket

\* ConsumeEnrolmentTicket's condition, the expiry included.
Consumable(row) == Redeemable(row, tnow)

\* Mutant of AfterConsume: only a refusal is undone, not a failure of the store.
AfterConsumeLeaves(done, failed) == IF done \/ failed THEN "redeemed" ELSE "undo"

\* Anything but a clean success is undone.
AfterConsume(done, failed) == IF done /\ ~failed THEN "redeemed" ELSE "undo"

\* The compare-and-swap; the store may report an error whether or not it took.
ConsumeTicket(c) ==
    /\ call[c].stage = "consume"
    /\ ~TicketLocked(call[c].target)
    /\ \E failed \in BOOLEAN, written \in BOOLEAN :
          LET t == call[c].target
              done == written /\ Consumable(ticketRow[t])
          IN  /\ ~failed => written
              /\ ticketRow' = IF done THEN [ticketRow EXCEPT ![t].state = "consumed", ![t].cred = c]
                              ELSE ticketRow
              /\ Advance(c, AfterConsume(done, failed))
    /\ UNCHANGED Surroundings
    /\ UNCHANGED <<holder, enrolled, ticketsWithdrawn, stranded>>

\* undoUnauthorisedEnrolment, on a context of its own: RevokeCredential, which may
\* fail and is then only logged.
UndoEnrolment(c) ==
    /\ call[c].stage = "undo"
    /\ \/ /\ enrolled' = [enrolled EXCEPT ![c] = IF @ = "active" THEN "revoked" ELSE @]
          /\ UNCHANGED stranded
       \/ UNCHANGED enrolled /\ stranded' = stranded \cup {c}
    /\ Advance(c, "done")
    /\ UNCHANGED Surroundings
    /\ UNCHANGED <<holder, ticketRow, ticketsWithdrawn>>

-----------------------------------------------------------------------------
(* The rest of the system, and faults.                                     *)

\* Another request locks or unlocks the subject, or a purge removes it with its
\* tickets and credentials.
ChangeHolder(status) ==
    /\ holder # "gone"
    /\ status # holder
    /\ holder' = status
    /\ IF status = "gone"
       THEN /\ \A t \in TicketCalls : ~TicketLocked(t)
            /\ ticketRow' = [t \in TicketCalls |-> NoTicket]
            /\ enrolled' = [c \in TicketCalls |-> "none"]
       ELSE UNCHANGED <<ticketRow, enrolled>>
    /\ UNCHANGED Surroundings
    /\ UNCHANGED <<call, ticketsWithdrawn, stranded>>

\* DeleteExpiredEnrolmentTickets, spent ones too.
SweepTickets ==
    LET past == {t \in TicketCalls : ticketRow[t] # NoTicket /\ ticketRow[t].expires < tnow
                                     /\ ~TicketLocked(t)}
    IN  /\ past # {}
        /\ ticketRow' = [t \in TicketCalls |-> IF t \in past THEN NoTicket ELSE ticketRow[t]]
        /\ UNCHANGED Surroundings
        /\ UNCHANGED <<holder, enrolled, call, ticketsWithdrawn, stranded>>

TickTickets ==
    /\ tnow < MaxTicketTime
    /\ tnow' = tnow + 1
    /\ UNCHANGED <<ticketEngine, holder, totpHeld, ticketRow, enrolled, call, ticketsWithdrawn, stranded, deaths>>

\* The process dies; an open transaction is rolled back.
DieHalfway(c) ==
    /\ deaths < MaxDeaths
    /\ call[c].stage \notin {"idle", "issued", "redeemed", "done"}
    /\ deaths' = deaths + 1
    /\ Advance(c, "dead")
    /\ UNCHANGED <<ticketEngine, holder, totpHeld, ticketRow, enrolled, tnow, ticketsWithdrawn, stranded>>

ServeTicketCall(c) ==
    \/ ResolveHolder(c) \/ GateOnFactors(c) \/ ReplaceTicket(c) \/ PgReplaceUpdate(c)
    \/ PgReplaceInsert(c) \/ RevokeTicket(c) \/ FetchTicket(c) \/ CheckTicket(c)
    \/ RegisterWithTicket(c) \/ ConsumeTicket(c) \/ UndoEnrolment(c)

TicketsNext ==
    \/ \E c \in TicketCalls : ServeTicketCall(c) \/ DieHalfway(c)
    \/ \E status \in {"active", "locked", "gone"} : ChangeHolder(status)
    \/ SweepTickets
    \/ TickTickets

TicketsSpec == TicketsInit /\ [][TicketsNext]_ticketVars

-----------------------------------------------------------------------------
(* Properties.                                                             *)

\* A subject has one live ticket at most, however the replacements of two callers
\* interleave on either engine (ReplaceEnrolmentTicket, et_live_uq).
OneLiveTicket == Cardinality(LiveTickets) <= 1

\* A ticket authorises one enrolment: two redemptions are never both told they
\* succeeded, whatever happens to the ticket between its check and its
\* consumption; none is when an operator was told the ticket is withdrawn; and as
\* long as its row is kept the ticket is recorded as spent on the redemption that
\* succeeded, so it had not been replaced (ConsumeEnrolmentTicket,
\* RevokeEnrolmentTicket, ReplaceEnrolmentTicket).
TicketSpentOnce ==
    \A c, d \in TicketCalls :
        call[c].stage = "redeemed" =>
            /\ call[d].stage = "redeemed" /\ call[d].target = call[c].target => c = d
            /\ call[c].target \notin ticketsWithdrawn
            /\ LET row == ticketRow[call[c].target]
               IN  row # NoTicket => row.state = "consumed" /\ row.cred = c

\* One ticket at a time, for one enrolment (ReplaceEnrolmentTicket,
\* ConsumeEnrolmentTicket).
TicketsAreSingle == OneLiveTicket /\ TicketSpentOnce

\* Every credential a finished redemption leaves active is the one its ticket was
\* spent on, as long as the ticket's row is kept, unless the store failed to undo
\* it or the process died (handleTicketRegisterComplete, undoUnauthorisedEnrolment).
OnlyAuthorisedRemain ==
    \A c \in TicketCalls :
        enrolled[c] = "active" /\ call[c].stage \in {"redeemed", "done"} /\ c \notin stranded =>
            ticketRow[call[c].target] = NoTicket \/ ticketRow[call[c].target].cred = c

\* "a single-use, short-lived secret that permits exactly one WebAuthn registration
\* for one subject" (tickets.go): no ticket leaves two active credentials behind.
TicketYieldsOne ==
    \A c, d \in TicketCalls :
        /\ enrolled[c] = "active" /\ enrolled[d] = "active"
        /\ call[c].target = call[d].target
        /\ {call[c].stage, call[d].stage} \subseteq {"redeemed", "dead"}
        => c = d
=============================================================================
