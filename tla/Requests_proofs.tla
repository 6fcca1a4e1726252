--------------------------- MODULE Requests_proofs ---------------------------
(***************************************************************************)
(* Machine-checked proofs about the parts requests go through and share    *)
(* state in: the enrolment tickets (Tickets), on either engine, for every  *)
(* set of requests and every lifetime of a ticket; the sealed values and   *)
(* the keys that seal them (Sealing), for every number of servers, calls,  *)
(* batch sizes and rotations; the keys of the assertions (Assertions), for *)
(* every number of rotations and withdrawals and every lifetime of a cache *)
(* that outlives a fetch; the alerts (Alerts), for every number of sources *)
(* and occurrences and every window, bound and page; and the               *)
(* administration console (Console), for every set of visits, browsers and *)
(* deadlines.                                                              *)
(***************************************************************************)
EXTENDS Tickets, Sealing, Assertions, Alerts, Console, FiniteSetTheorems,
        WellFoundedInduction, TLAPS

-----------------------------------------------------------------------------
(* The inductive invariant.                                                *)

CallStage == {"idle", "factors", "replace", "insert", "issued", "check", "register",
              "consume", "undo", "redeemed", "dead", "done"}

TicketRow == [state : {"absent", "live", "revoked", "consumed"}, expires : Nat,
              cred : TicketCalls \cup {"none"}]

TicketCall == [stage : CallStage, kind : CallKinds, guard : BOOLEAN, target : TicketCalls,
               row : TicketRow, seen : SUBSET TicketCalls]

\* Every variable the proofs reason about keeps its type.
TicketTypes ==
    /\ ticketRow \in [TicketCalls -> TicketRow]
    /\ enrolled \in [TicketCalls -> {"none", "active", "revoked"}]
    /\ call \in [TicketCalls -> TicketCall]
    /\ ticketsWithdrawn \subseteq TicketCalls
    /\ tnow \in Nat

Inserting(c) == call[c].stage = "insert"

\* A ticket has a row only once its issue is over, so none is issued twice.
RowsInv == \A t \in TicketCalls : ticketRow[t].state # "absent" => call[t].stage = "issued"

\* A ticket that was redeemed, or reported withdrawn, is not live and never will be; the
\* row of a redeemed one names its credential as long as it is kept.
SpentInv ==
    /\ \A c \in TicketCalls : call[c].stage = "redeemed" =>
         LET t == call[c].target
         IN  /\ call[t].stage = "issued" /\ ticketRow[t].state # "live"
             /\ t \notin ticketsWithdrawn
             /\ \/ ticketRow[t] = NoTicket
                \/ ticketRow[t].state = "consumed" /\ ticketRow[t].cred = c
    /\ \A t \in ticketsWithdrawn : call[t].stage = "issued" /\ ticketRow[t].state # "live"
    /\ \A c, d \in TicketCalls :
         /\ call[c].stage = "redeemed" /\ call[d].stage = "redeemed"
         /\ call[c].target = call[d].target
         => c = d

\* The rows an open replacement has updated stay live for everybody else until it ends,
\* and no two replacements have updated one row.
LockedInv ==
    /\ \A c \in TicketCalls : Inserting(c) => \A t \in call[c].seen : ticketRow[t].state = "live"
    /\ \A c, d \in TicketCalls :
         Inserting(c) /\ Inserting(d) /\ c # d => call[c].seen \cap call[d].seen = {}
    /\ \A c \in TicketCalls : Inserting(c) => ticketEngine = "postgres"

\* A credential is active only between its creation and the end of its redemption, and
\* afterwards if the ticket authorised it, the undo failed or the process died.
EnrolledInv ==
    \A c \in TicketCalls : enrolled[c] = "active" =>
        \/ call[c].stage \in {"consume", "undo", "redeemed", "dead"}
        \/ call[c].stage = "done" /\ c \in stranded

\* At most one ticket is live.
LiveInv ==
    \A s, t \in TicketCalls :
        ticketRow[s].state = "live" /\ ticketRow[t].state = "live" => s = t

TicketInv ==
    TicketTypes /\ RowsInv /\ SpentInv /\ LockedInv /\ EnrolledInv /\ LiveInv

-----------------------------------------------------------------------------
(* Lemmas.                                                                 *)

\* A ticket that does not exist and a new one are rows.
LEMMA RowTypes ==
    ASSUME tnow \in Nat
    PROVE  NoTicket \in TicketRow /\ NewTicket \in TicketRow
BY TicketAssumption DEF NoTicket, NewTicket, TicketRow

\* Moving one request on changes its stage alone.
LEMMA AdvanceEffect ==
    ASSUME call \in [TicketCalls -> TicketCall], NEW c \in TicketCalls,
           NEW stage \in CallStage, Advance(c, stage)
    PROVE  /\ call' \in [TicketCalls -> TicketCall]
           /\ call'[c].stage = stage
           /\ call'[c].target = call[c].target /\ call'[c].seen = call[c].seen
           /\ \A d \in TicketCalls \ {c} : call'[d] = call[d]
BY DEF Advance, TicketCall

\* A request that moves before it has written anything, or after it has nothing left to
\* write, keeps the invariant.
LEMMA OnlyCall ==
    ASSUME TicketInv, NEW c \in TicketCalls, call' \in [TicketCalls -> TicketCall],
           \A d \in TicketCalls \ {c} : call'[d] = call[d],
           UNCHANGED <<ticketEngine, ticketRow, enrolled, ticketsWithdrawn, stranded>>,
           tnow' \in Nat,
           call[c].stage # "issued", call[c].stage # "redeemed",
           call'[c].stage # "redeemed", call'[c].stage # "insert",
           enrolled[c] = "active" =>
             \/ call'[c].stage \in {"consume", "undo", "dead"}
             \/ call'[c].stage = "done" /\ c \in stranded
    PROVE  TicketInv'
<1>1. TicketTypes'
  BY DEF TicketInv, TicketTypes
<1>2. RowsInv' /\ EnrolledInv' /\ LiveInv'
  BY DEF TicketInv, RowsInv, EnrolledInv, LiveInv
<1>3. SpentInv'
  <2>1. \A d \in TicketCalls : call'[d].stage = "redeemed" => d # c /\ call'[d] = call[d]
    OBVIOUS
  <2>2. \A t \in TicketCalls : call[t].stage = "issued" => call'[t].stage = "issued"
    OBVIOUS
  <2>3. \A d \in TicketCalls : call[d].target \in TicketCalls
    BY DEF TicketInv, TicketTypes, TicketCall
  <2> QED BY <2>1, <2>2, <2>3 DEF TicketInv, TicketTypes, SpentInv
<1>4. LockedInv'
  BY DEF TicketInv, LockedInv, Inserting
<1> QED BY <1>1, <1>2, <1>3, <1>4 DEF TicketInv

\* A request that has created no credential leaves none behind.
LEMMA NoCredential ==
    ASSUME TicketInv, NEW c \in TicketCalls,
           call[c].stage \in {"idle", "factors", "replace", "insert", "check", "register"}
    PROVE  enrolled[c] # "active"
BY DEF TicketInv, EnrolledInv

-----------------------------------------------------------------------------
(* The invariant holds.                                                    *)

\* There is no ticket and no request has started.
LEMMA TicketInit == TicketsInit => TicketInv
<1> SUFFICES ASSUME TicketsInit PROVE TicketInv
  OBVIOUS
<1>1. PICK mix \in TicketMixes : call = [c \in TicketCalls |-> FreshCall(mix[c])]
  BY DEF TicketsInit
<1>2. mix \in [TicketCalls -> Asked]
  BY TicketAssumption
<1>3. tnow \in Nat /\ NoTicket \in TicketRow
  BY RowTypes DEF TicketsInit
<1>4. call \in [TicketCalls -> TicketCall] /\ \A c \in TicketCalls : call[c].stage = "idle"
  BY <1>1, <1>2, <1>3 DEF FreshCall, Asked, TicketCall, CallStage
<1>5. \A t \in TicketCalls : ticketRow[t].state = "absent" /\ enrolled[t] = "none"
  BY DEF TicketsInit, NoTicket
<1> QED
  BY <1>3, <1>4, <1>5
     DEF TicketsInit, TicketInv, TicketTypes, RowsInv, SpentInv, LockedInv, Inserting,
         EnrolledInv, LiveInv

\* A replacement that commits retires every live ticket and issues one.
LEMMA ReplaceKeeps ==
    ASSUME TicketInv, NEW c \in TicketCalls, call[c].stage \in {"replace", "insert"},
           UNCHANGED <<ticketEngine, enrolled, ticketsWithdrawn, stranded, tnow>>,
           Advance(c, "issued"),
           NEW gone \in SUBSET TicketCalls, LiveTickets \subseteq gone,
           \A t \in gone : ticketRow[t].state = "live",
           \A d \in TicketCalls \ {c} : Inserting(d) => call[d].seen \cap gone = {},
           ticketRow' = [t \in TicketCalls |->
                           IF t = c THEN NewTicket
                           ELSE IF t \in gone THEN [ticketRow[t] EXCEPT !.state = "revoked"]
                           ELSE ticketRow[t]]
    PROVE  TicketInv'
<1> USE DEF CallStage
<1>t. /\ ticketRow \in [TicketCalls -> TicketRow] /\ tnow \in Nat
      /\ call \in [TicketCalls -> TicketCall]
      /\ \A d \in TicketCalls : call[d].target \in TicketCalls
      /\ \A d \in TicketCalls : call[d].seen \subseteq TicketCalls
  BY DEF TicketInv, TicketTypes, TicketCall
<1>1. /\ call' \in [TicketCalls -> TicketCall] /\ call'[c].stage = "issued"
      /\ \A d \in TicketCalls \ {c} : call'[d] = call[d]
  BY <1>t, AdvanceEffect
<1>2. /\ NewTicket \in TicketRow /\ ticketRow[c].state = "absent"
      /\ NewTicket.state = "live" /\ c \notin gone
  BY <1>t, RowTypes DEF TicketInv, RowsInv, NewTicket
<1>3. /\ ticketRow' \in [TicketCalls -> TicketRow]
      /\ ticketRow'[c].state = "live"
      /\ \A t \in gone : ticketRow'[t].state = "revoked"
      /\ \A t \in TicketCalls \ (gone \cup {c}) :
           ticketRow'[t] = ticketRow[t] /\ ticketRow[t].state # "live"
  <2>1. \A t \in TicketCalls :
          /\ [ticketRow[t] EXCEPT !.state = "revoked"] \in TicketRow
          /\ [ticketRow[t] EXCEPT !.state = "revoked"].state = "revoked"
    BY <1>t DEF TicketRow
  <2> QED BY <1>t, <1>2, <2>1 DEF LiveTickets, Unspent
<1>4. TicketTypes'
  BY <1>1, <1>3 DEF TicketInv, TicketTypes
<1>5. RowsInv'
  BY <1>1, <1>3 DEF TicketInv, RowsInv
<1>6. SpentInv'
  <2>1. \A t \in TicketCalls : call[t].stage = "issued" => call'[t].stage = "issued" /\ t # c
    BY <1>1
  <2>2. \A d \in TicketCalls : call'[d].stage = "redeemed" => d # c /\ call'[d] = call[d]
    BY <1>1
  <2>3. \A d \in TicketCalls : call[d].stage = "redeemed" =>
          call[d].target \notin gone /\ call[d].target # c
    BY <1>t, <2>1 DEF TicketInv, SpentInv
  <2>4. \A t \in ticketsWithdrawn : t \in TicketCalls /\ t \notin gone /\ t # c
    BY <2>1 DEF TicketInv, TicketTypes, SpentInv
  <2> QED BY <1>t, <1>3, <2>1, <2>2, <2>3, <2>4 DEF TicketInv, SpentInv
<1>7. LockedInv'
  <2>1. \A d \in TicketCalls : Inserting(d)' => d # c /\ call'[d] = call[d] /\ Inserting(d)
    BY <1>1 DEF Inserting
  <2>2. \A d \in TicketCalls \ {c} : Inserting(d) =>
          \A t \in call[d].seen : t \in TicketCalls /\ t \notin gone /\ t # c
    BY <1>t, <1>2 DEF TicketInv, LockedInv
  <2> QED BY <1>3, <2>1, <2>2 DEF TicketInv, LockedInv
<1>8. EnrolledInv' /\ LiveInv'
  BY <1>1, <1>3 DEF TicketInv, EnrolledInv, LiveInv
<1> QED BY <1>4, <1>5, <1>6, <1>7, <1>8 DEF TicketInv

\* Every step of a request, of the sweep, of the subject's life and of the clock keeps
\* the invariant.
LEMMA TicketStep == TicketInv /\ [TicketsNext]_ticketVars => TicketInv'
<1> SUFFICES ASSUME TicketInv, [TicketsNext]_ticketVars PROVE TicketInv'
  OBVIOUS
<1> USE DEF CallStage
<1>t. /\ TicketTypes
      /\ ticketRow \in [TicketCalls -> TicketRow] /\ tnow \in Nat
      /\ enrolled \in [TicketCalls -> {"none", "active", "revoked"}]
      /\ call \in [TicketCalls -> TicketCall]
      /\ \A d \in TicketCalls : call[d].target \in TicketCalls
      /\ \A d \in TicketCalls : call[d].seen \subseteq TicketCalls
      /\ ticketsWithdrawn \subseteq TicketCalls
  BY DEF TicketInv, TicketTypes, TicketCall
<1>1. ASSUME NEW c \in TicketCalls,
             ResolveHolder(c) \/ GateOnFactors(c) \/ CheckTicket(c)
      PROVE  TicketInv'
  <2>1. PICK stage \in {"factors", "replace", "register", "done"} : Advance(c, stage)
    BY <1>1 DEF ResolveHolder, GateOnFactors, CheckTicket
  <2>2. /\ UNCHANGED <<ticketEngine, ticketRow, enrolled, ticketsWithdrawn, stranded, tnow>>
        /\ call[c].stage \in {"idle", "factors", "check"}
    BY <1>1 DEF ResolveHolder, GateOnFactors, CheckTicket, Surroundings
  <2> QED BY <1>t, <2>1, <2>2, AdvanceEffect, NoCredential, OnlyCall
<1>2. ASSUME NEW c \in TicketCalls, ReplaceTicket(c) PROVE TicketInv'
  <2>1. /\ UNCHANGED <<ticketEngine, enrolled, ticketsWithdrawn, stranded, tnow>>
        /\ Advance(c, "issued") /\ call[c].stage = "replace" /\ ticketEngine = "sqlite"
        /\ LiveTickets \in SUBSET TicketCalls
        /\ \A t \in LiveTickets : ticketRow[t].state = "live"
    BY <1>2 DEF ReplaceTicket, Surroundings, TicketIssued, LiveTickets, Unspent
  <2>2. \A d \in TicketCalls : ~Inserting(d)
    BY <2>1 DEF TicketInv, LockedInv
  <2> QED BY <1>2, <2>1, <2>2, ReplaceKeeps DEF ReplaceTicket
<1>3. ASSUME NEW c \in TicketCalls, PgReplaceUpdate(c) PROVE TicketInv'
  <2>1. /\ UNCHANGED <<ticketEngine, ticketRow, enrolled, ticketsWithdrawn, stranded, tnow>>
        /\ call[c].stage = "replace" /\ ticketEngine = "postgres"
        /\ \A t \in LiveTickets : ~TicketLocked(t)
        /\ call' = [call EXCEPT ![c].stage = "insert", ![c].seen = LiveTickets]
    BY <1>3 DEF PgReplaceUpdate, Surroundings
  <2>2. LiveTickets \subseteq TicketCalls /\ \A t \in LiveTickets : ticketRow[t].state = "live"
    BY DEF LiveTickets, Unspent
  <2>3. /\ call' \in [TicketCalls -> TicketCall]
        /\ call'[c].stage = "insert" /\ call'[c].seen = LiveTickets
        /\ \A d \in TicketCalls \ {c} : call'[d] = call[d]
    <3> DEFINE next == [call[c] EXCEPT !.stage = "insert", !.seen = LiveTickets]
    <3>1. call' = [call EXCEPT ![c] = next]
      BY <1>t, <2>1
    <3>2. next \in TicketCall /\ next.stage = "insert" /\ next.seen = LiveTickets
      <4>1. call[c] \in TicketCall /\ LiveTickets \in SUBSET TicketCalls
        BY <1>t, <2>2
      <4> QED BY <4>1 DEF TicketCall
    <3> HIDE DEF next
    <3> QED BY <1>t, <3>1, <3>2
  <2>4. TicketTypes' /\ RowsInv' /\ EnrolledInv' /\ LiveInv'
    BY <1>t, <2>1, <2>3 DEF TicketInv, TicketTypes, RowsInv, EnrolledInv, LiveInv
  <2>5. SpentInv'
    BY <1>t, <2>1, <2>3 DEF TicketInv, SpentInv
  <2>6. LockedInv'
    <3>1. \A d \in TicketCalls \ {c} : Inserting(d) => call[d].seen \cap LiveTickets = {}
      BY <2>1 DEF TicketLocked, Inserting
    <3> QED BY <2>1, <2>2, <2>3, <3>1 DEF TicketInv, LockedInv, Inserting
  <2> QED BY <2>4, <2>5, <2>6 DEF TicketInv
<1>4. ASSUME NEW c \in TicketCalls, PgReplaceInsert(c) PROVE TicketInv'
  <2>1. /\ UNCHANGED <<ticketEngine, enrolled, ticketsWithdrawn, stranded, tnow>>
        /\ call[c].stage = "insert"
    BY <1>4 DEF PgReplaceInsert, Surroundings
  <2>2. CASE LiveTickets \subseteq call[c].seen /\ holder # "gone"
    <3> DEFINE gone == call[c].seen
    <3>1. /\ gone \in SUBSET TicketCalls /\ \A t \in gone : ticketRow[t].state = "live"
          /\ \A d \in TicketCalls \ {c} : Inserting(d) => call[d].seen \cap gone = {}
      BY <1>t, <2>1 DEF TicketInv, LockedInv, Inserting
    <3>2. /\ Advance(c, "issued")
          /\ ticketRow' = [t \in TicketCalls |->
                             IF t = c THEN NewTicket
                             ELSE IF t \in gone THEN [ticketRow[t] EXCEPT !.state = "revoked"]
                             ELSE ticketRow[t]]
      BY <1>4, <2>2 DEF PgReplaceInsert, TicketIssued
    <3> HIDE DEF gone
    <3> QED BY <2>1, <2>2, <3>1, <3>2, ReplaceKeeps DEF gone
  <2>3. CASE ~(LiveTickets \subseteq call[c].seen /\ holder # "gone")
    <3>1. Advance(c, "done") /\ UNCHANGED ticketRow
      BY <1>4, <2>3 DEF PgReplaceInsert
    <3> QED BY <1>t, <2>1, <3>1, AdvanceEffect, NoCredential, OnlyCall
  <2> QED BY <2>2, <2>3
<1>5. ASSUME NEW c \in TicketCalls, RevokeTicket(c) PROVE TicketInv'
  <2> DEFINE t == call[c].target
  <2>1. /\ UNCHANGED <<ticketEngine, enrolled, stranded, tnow>> /\ call[c].stage = "idle"
        /\ ~TicketLocked(t) /\ Advance(c, "done") /\ t \in TicketCalls
    BY <1>5, <1>t DEF RevokeTicket, Surroundings
  <2>2. /\ call' \in [TicketCalls -> TicketCall] /\ call'[c].stage = "done"
        /\ \A d \in TicketCalls \ {c} : call'[d] = call[d]
    BY <1>t, <2>1, AdvanceEffect
  <2>3. CASE ~Revocable(ticketRow[t])
    BY <1>5, <1>t, <2>1, <2>2, <2>3, NoCredential, OnlyCall DEF RevokeTicket
  <2>4. CASE Revocable(ticketRow[t])
    <3>1. /\ ticketRow' = [ticketRow EXCEPT ![t].state = "revoked"]
          /\ ticketsWithdrawn' = ticketsWithdrawn \cup {t} /\ ticketRow[t].state = "live"
      BY <1>5, <2>4 DEF RevokeTicket, Revocable, Unspent
    <3>2. /\ ticketRow' \in [TicketCalls -> TicketRow] /\ ticketRow'[t].state = "revoked"
          /\ \A u \in TicketCalls \ {t} : ticketRow'[u] = ticketRow[u]
      BY <1>t, <2>1, <3>1 DEF TicketRow
    <3>3. call[t].stage = "issued" /\ t # c
      BY <2>1, <3>1 DEF TicketInv, RowsInv
    <3>4. TicketTypes' /\ RowsInv' /\ LiveInv'
      BY <1>t, <2>1, <2>2, <3>1, <3>2, <3>3 DEF TicketInv, TicketTypes, RowsInv, LiveInv
    <3>5. SpentInv'
      <4>1. \A d \in TicketCalls : call[d].stage = "redeemed" => call[d].target # t
        BY <3>1 DEF TicketInv, SpentInv
      <4>2. \A u \in TicketCalls : call[u].stage = "issued" => call'[u].stage = "issued"
        BY <2>1, <2>2
      <4>3. \A d \in TicketCalls : call'[d].stage = "redeemed" => d # c /\ call'[d] = call[d]
        BY <2>2
      <4> QED BY <1>t, <3>1, <3>2, <3>3, <4>1, <4>2, <4>3 DEF TicketInv, SpentInv
    <3>6. LockedInv'
      <4>1. \A d \in TicketCalls : Inserting(d) => t \notin call[d].seen
        BY <2>1 DEF TicketLocked, Inserting
      <4>2. \A d \in TicketCalls : Inserting(d)' => call'[d] = call[d] /\ Inserting(d)
        BY <2>2 DEF Inserting
      <4> QED BY <1>t, <2>1, <3>2, <4>1, <4>2 DEF TicketInv, LockedInv
    <3>7. EnrolledInv'
      BY <2>1, <2>2, NoCredential DEF TicketInv, EnrolledInv
    <3> QED BY <3>4, <3>5, <3>6, <3>7 DEF TicketInv
  <2> QED BY <2>3, <2>4
<1>6. ASSUME NEW c \in TicketCalls, FetchTicket(c) PROVE TicketInv'
  <2>1. /\ UNCHANGED <<ticketEngine, ticketRow, enrolled, ticketsWithdrawn, stranded, tnow>>
        /\ call[c].stage = "idle" /\ ticketRow[call[c].target] \in TicketRow
    BY <1>6, <1>t DEF FetchTicket, Surroundings
  <2>2. PICK stage \in {"done", "check"} :
          call' = [call EXCEPT ![c].row = ticketRow[call[c].target], ![c].stage = stage]
    BY <1>6 DEF FetchTicket
  <2>3. /\ call' \in [TicketCalls -> TicketCall] /\ call'[c].stage = stage
        /\ \A d \in TicketCalls \ {c} : call'[d] = call[d]
    BY <1>t, <2>1, <2>2 DEF TicketCall
  <2> QED BY <1>t, <2>1, <2>3, NoCredential, OnlyCall
<1>7. ASSUME NEW c \in TicketCalls, RegisterWithTicket(c) PROVE TicketInv'
  <2>1. /\ UNCHANGED <<ticketEngine, ticketRow, ticketsWithdrawn, stranded, tnow>>
        /\ call[c].stage = "register"
    BY <1>7 DEF RegisterWithTicket, Surroundings
  <2>2. CASE Advance(c, "done") /\ UNCHANGED enrolled
    BY <1>t, <2>1, <2>2, AdvanceEffect, NoCredential, OnlyCall
  <2>3. CASE enrolled' = [enrolled EXCEPT ![c] = "active"] /\ Advance(c, "consume")
    <3>1. /\ call' \in [TicketCalls -> TicketCall] /\ call'[c].stage = "consume"
          /\ \A d \in TicketCalls \ {c} : call'[d] = call[d]
      BY <1>t, <2>3, AdvanceEffect
    <3>2. TicketTypes' /\ RowsInv' /\ LiveInv' /\ EnrolledInv'
      BY <1>t, <2>1, <2>3, <3>1
         DEF TicketInv, TicketTypes, RowsInv, LiveInv, EnrolledInv
    <3>3. SpentInv' /\ LockedInv'
      BY <1>t, <2>1, <3>1 DEF TicketInv, SpentInv, LockedInv, Inserting
    <3> QED BY <3>2, <3>3 DEF TicketInv
  <2> QED BY <1>7, <2>2, <2>3 DEF RegisterWithTicket
<1>8. ASSUME NEW c \in TicketCalls, ConsumeTicket(c) PROVE TicketInv'
  <2> DEFINE t == call[c].target
  <2>1. /\ UNCHANGED <<ticketEngine, enrolled, ticketsWithdrawn, stranded, tnow>>
        /\ call[c].stage = "consume" /\ ~TicketLocked(t) /\ t \in TicketCalls
    BY <1>8, <1>t DEF ConsumeTicket, Surroundings
  <2>2. PICK done \in BOOLEAN, failed \in BOOLEAN :
          /\ done => ticketRow[t].state = "live"
          /\ ticketRow' = IF done THEN [ticketRow EXCEPT ![t].state = "consumed", ![t].cred = c]
                          ELSE ticketRow
          /\ Advance(c, AfterConsume(done, failed))
    BY <1>8 DEF ConsumeTicket, Consumable, Redeemable, Unspent
  <2>3. CASE ~done
    <3>1. Advance(c, "undo") /\ UNCHANGED ticketRow
      BY <2>2, <2>3 DEF AfterConsume
    <3> QED BY <1>t, <2>1, <3>1, AdvanceEffect, OnlyCall
  <2>4. CASE done
    <3>1. PICK stage \in {"redeemed", "undo"} : Advance(c, stage)
      BY <2>2 DEF AfterConsume
    <3>2. /\ call' \in [TicketCalls -> TicketCall] /\ call'[c].stage = stage
          /\ call'[c].target = t
          /\ \A d \in TicketCalls \ {c} : call'[d] = call[d]
      BY <1>t, <3>1, AdvanceEffect
    <3>3. /\ ticketRow[t].state = "live"
          /\ ticketRow' \in [TicketCalls -> TicketRow]
          /\ ticketRow'[t].state = "consumed" /\ ticketRow'[t].cred = c
          /\ \A u \in TicketCalls \ {t} : ticketRow'[u] = ticketRow[u]
      BY <1>t, <2>1, <2>2, <2>4 DEF TicketRow
    <3>4. /\ call[t].stage = "issued" /\ t # c /\ t \notin ticketsWithdrawn
          /\ \A d \in TicketCalls : call[d].stage = "redeemed" => call[d].target # t
      BY <2>1, <3>3 DEF TicketInv, RowsInv, SpentInv
    <3>5. TicketTypes' /\ RowsInv' /\ LiveInv' /\ EnrolledInv'
      BY <1>t, <2>1, <3>2, <3>3, <3>4
         DEF TicketInv, TicketTypes, RowsInv, LiveInv, EnrolledInv
    <3>6. SpentInv'
      <4>1. \A u \in TicketCalls : call[u].stage = "issued" => call'[u].stage = "issued"
        BY <2>1, <3>2
      <4>2. ASSUME NEW d \in TicketCalls, call'[d].stage = "redeemed"
            PROVE  /\ call'[call'[d].target].stage = "issued"
                   /\ ticketRow'[call'[d].target].state # "live"
                   /\ call'[d].target \notin ticketsWithdrawn'
                   /\ \/ ticketRow'[call'[d].target] = NoTicket
                      \/ /\ ticketRow'[call'[d].target].state = "consumed"
                         /\ ticketRow'[call'[d].target].cred = d
                   /\ d # c => call'[d].target # t
        <5>1. CASE d = c
          BY <2>1, <3>2, <3>3, <3>4, <4>1, <5>1
        <5>2. CASE d # c
          <6>1. call'[d] = call[d] /\ call[d].target # t /\ call[d].target \in TicketCalls
            BY <1>t, <3>2, <3>4, <4>2, <5>2
          <6> QED BY <2>1, <3>3, <4>1, <4>2, <6>1 DEF TicketInv, SpentInv
        <5> QED BY <5>1, <5>2
      <4>3. \A u \in ticketsWithdrawn : call'[u].stage = "issued" /\ ticketRow'[u].state # "live"
        BY <1>t, <3>3, <3>4, <4>1 DEF TicketInv, SpentInv
      <4>4. \A d, e \in TicketCalls :
              /\ call'[d].stage = "redeemed" /\ call'[e].stage = "redeemed"
              /\ call'[d].target = call'[e].target
              => d = e
        BY <3>2, <4>2 DEF TicketInv, SpentInv
      <4> QED BY <2>1, <4>2, <4>3, <4>4 DEF SpentInv
    <3>7. LockedInv'
      <4>1. \A d \in TicketCalls : Inserting(d) => t \notin call[d].seen
        BY <2>1 DEF TicketLocked, Inserting
      <4>2. \A d \in TicketCalls : Inserting(d)' => call'[d] = call[d] /\ Inserting(d)
        BY <3>2 DEF Inserting
      <4> QED BY <1>t, <2>1, <3>3, <4>1, <4>2 DEF TicketInv, LockedInv
    <3> QED BY <3>5, <3>6, <3>7 DEF TicketInv
  <2> QED BY <2>3, <2>4
<1>9. ASSUME NEW c \in TicketCalls, UndoEnrolment(c) PROVE TicketInv'
  <2>1. /\ UNCHANGED <<ticketEngine, ticketRow, ticketsWithdrawn, tnow>>
        /\ call[c].stage = "undo" /\ Advance(c, "done")
        /\ stranded \subseteq stranded'
    BY <1>9 DEF UndoEnrolment, Surroundings
  <2>2. /\ call' \in [TicketCalls -> TicketCall] /\ call'[c].stage = "done"
        /\ \A d \in TicketCalls \ {c} : call'[d] = call[d]
    BY <1>t, <2>1, AdvanceEffect
  <2>3. /\ enrolled' \in [TicketCalls -> {"none", "active", "revoked"}]
        /\ \A d \in TicketCalls \ {c} : enrolled'[d] = enrolled[d]
        /\ enrolled'[c] = "active" => c \in stranded'
    BY <1>9, <1>t DEF UndoEnrolment
  <2>4. TicketTypes' /\ RowsInv' /\ LiveInv' /\ EnrolledInv'
    BY <1>t, <2>1, <2>2, <2>3 DEF TicketInv, TicketTypes, RowsInv, LiveInv, EnrolledInv
  <2>5. SpentInv' /\ LockedInv'
    BY <1>t, <2>1, <2>2 DEF TicketInv, SpentInv, LockedInv, Inserting
  <2> QED BY <2>4, <2>5 DEF TicketInv
<1>10. ASSUME NEW c \in TicketCalls, DieHalfway(c) PROVE TicketInv'
  <2>1. /\ UNCHANGED <<ticketEngine, ticketRow, enrolled, ticketsWithdrawn, stranded, tnow>>
        /\ call[c].stage \notin {"idle", "issued", "redeemed", "done"} /\ Advance(c, "dead")
    BY <1>10 DEF DieHalfway
  <2> QED BY <1>t, <2>1, AdvanceEffect, OnlyCall
<1>11. ASSUME NEW status \in {"active", "locked", "gone"}, ChangeHolder(status)
       PROVE  TicketInv'
  <2>1. /\ UNCHANGED <<ticketEngine, call, ticketsWithdrawn, stranded, tnow>>
    BY <1>11 DEF ChangeHolder, Surroundings
  <2>2. CASE status # "gone"
    BY <1>11, <2>1, <2>2
       DEF ChangeHolder, TicketInv, TicketTypes, RowsInv, SpentInv, LockedInv, Inserting,
           EnrolledInv, LiveInv
  <2>3. CASE status = "gone"
    <3>1. /\ \A t \in TicketCalls : ~TicketLocked(t)
          /\ ticketRow' = [t \in TicketCalls |-> NoTicket]
          /\ enrolled' = [c \in TicketCalls |-> "none"]
      BY <1>11, <2>3 DEF ChangeHolder
    <3>2. \A t \in TicketCalls : ticketRow'[t] = NoTicket /\ ticketRow'[t].state = "absent"
      BY <3>1 DEF NoTicket
    <3>3. \A c \in TicketCalls : Inserting(c) => call[c].seen = {}
      BY <1>t, <3>1 DEF TicketLocked, Inserting
    <3>4. TicketTypes' /\ RowsInv' /\ EnrolledInv' /\ LiveInv'
      BY <1>t, <2>1, <3>1, <3>2, RowTypes
         DEF TicketTypes, RowsInv, EnrolledInv, LiveInv
    <3>5. SpentInv' /\ LockedInv'
      BY <1>t, <2>1, <3>2, <3>3 DEF TicketInv, SpentInv, LockedInv, Inserting
    <3> QED BY <3>4, <3>5 DEF TicketInv
  <2> QED BY <2>2, <2>3
<1>12. ASSUME SweepTickets PROVE TicketInv'
  <2>1. UNCHANGED <<ticketEngine, enrolled, call, ticketsWithdrawn, stranded, tnow>>
    BY <1>12 DEF SweepTickets, Surroundings
  <2>2. PICK past \in SUBSET TicketCalls :
          /\ \A t \in past : ~TicketLocked(t)
          /\ ticketRow' = [t \in TicketCalls |-> IF t \in past THEN NoTicket ELSE ticketRow[t]]
    BY <1>12 DEF SweepTickets
  <2>3. /\ \A t \in past : ticketRow'[t] = NoTicket /\ ticketRow'[t].state = "absent"
        /\ \A t \in TicketCalls \ past : ticketRow'[t] = ticketRow[t]
    BY <2>2 DEF NoTicket
  <2>4. \A c \in TicketCalls : Inserting(c) => call[c].seen \cap past = {}
    BY <2>2 DEF TicketLocked, Inserting
  <2>5. TicketTypes' /\ RowsInv' /\ EnrolledInv' /\ LiveInv'
    BY <1>t, <2>1, <2>2, <2>3, RowTypes
       DEF TicketInv, TicketTypes, RowsInv, EnrolledInv, LiveInv
  <2>6. SpentInv'
    BY <1>t, <2>1, <2>3 DEF TicketInv, SpentInv
  <2>7. LockedInv'
    BY <1>t, <2>1, <2>3, <2>4 DEF TicketInv, LockedInv, Inserting
  <2> QED BY <2>5, <2>6, <2>7 DEF TicketInv
<1>13. ASSUME TickTickets \/ UNCHANGED ticketVars PROVE TicketInv'
  <2>1. /\ UNCHANGED <<ticketEngine, ticketRow, enrolled, call, ticketsWithdrawn, stranded>>
        /\ tnow' \in Nat
    BY <1>13, <1>t DEF TickTickets, ticketVars
  <2> QED
    BY <2>1 DEF TicketInv, TicketTypes, RowsInv, SpentInv, LockedInv, Inserting, EnrolledInv,
                LiveInv
<1> QED
  BY <1>1, <1>2, <1>3, <1>4, <1>5, <1>6, <1>7, <1>8, <1>9, <1>10, <1>11, <1>12, <1>13
     DEF TicketsNext, ServeTicketCall

-----------------------------------------------------------------------------
(* What follows.                                                           *)

\* Every reachable state satisfies the invariant.
LEMMA TicketInvHolds == TicketsSpec => []TicketInv
BY TicketInit, TicketStep, PTL DEF TicketsSpec

\* A subject has one live ticket at most; and a ticket authorises one enrolment at most,
\* none once an operator was told it is withdrawn, and, while its row is kept, only the
\* one it is recorded as spent on, on either engine (ReplaceEnrolmentTicket,
\* ConsumeEnrolmentTicket, RevokeEnrolmentTicket).
THEOREM TicketsStaySingle == TicketsSpec => []TicketsAreSingle
<1>1. TicketInv => OneLiveTicket
  <2> SUFFICES ASSUME TicketInv PROVE Cardinality(LiveTickets) <= 1
    BY DEF OneLiveTicket
  <2>1. CASE LiveTickets = {}
    BY <2>1, FS_EmptySet
  <2>2. CASE LiveTickets # {}
    <3>1. PICK t \in LiveTickets : TRUE
      BY <2>2
    <3>2. LiveTickets = {t}
      BY <3>1 DEF TicketInv, LiveInv, LiveTickets, Unspent
    <3> QED BY <3>2, FS_Singleton
  <2> QED BY <2>1, <2>2
<1>2. TicketInv => TicketSpentOnce
  BY DEF TicketInv, SpentInv, TicketSpentOnce
<1>3. TicketInv => TicketsAreSingle
  BY <1>1, <1>2 DEF TicketsAreSingle
<1> QED BY <1>3, TicketInvHolds, PTL

\* What a finished redemption leaves active is what its ticket was spent on, unless the
\* store failed to undo it or the process died (handleTicketRegisterComplete,
\* undoUnauthorisedEnrolment).
THEOREM OnlyAuthorisedEnrolments == TicketsSpec => []OnlyAuthorisedRemain
<1>1. TicketInv => OnlyAuthorisedRemain
  BY DEF TicketInv, EnrolledInv, SpentInv, OnlyAuthorisedRemain
<1> QED BY <1>1, TicketInvHolds, PTL

-----------------------------------------------------------------------------
(* The sealed values: the inductive invariant.                             *)

SealedValue == [version : Nat, bound : Nat, content : SealCalls]

SealedRow == [kind : {"ref", "secret"}, state : {"live", "revoked", "deleted"},
              value : SealedValue]

Keyring == [keys : SUBSET Nat, current : Nat]

RewrapPass == [stage : {"list", "each", "reported"}, kind : {"ref", "secret"}, after : Nat,
               page : SUBSET [id : SealCalls, value : SealedValue], full : BOOLEAN,
               failed : BOOLEAN, inUse : SUBSET Nat, cut : BOOLEAN, current : Nat]

\* Every variable keeps its type.
SealTypes ==
    /\ ring \in Keyring
    /\ loaded \in [KeyServers -> Keyring]
    /\ row \in [SealCalls -> SealedRow \cup {Gone}]
    /\ sealCall \in [SealCalls -> [kind : {"before", "resolve", "enrol"},
                                   value : SealedValue \cup {NoValue},
                                   server : KeyServers \cup {"none"},
                                   stage : {"idle", "seal", "write", "done"}]]
    /\ rewrap \in [KeyServers -> RewrapPass \cup {NoPass}]
    /\ rotating \in BOOLEAN
    /\ newest \in [SealCalls -> SealCalls]

\* The current key is the newest the file holds, and the one a server seals under is
\* still in the file.
KeysInv ==
    /\ ring.current \in ring.keys
    /\ \A k \in ring.keys : k <= ring.current
    /\ \A s \in KeyServers : loaded[s].current \in ring.keys

\* A value not written yet is sealed under the keyring of its server, for its row.
CallsInv ==
    \A c \in SealCalls :
        /\ sealCall[c].stage \in {"seal", "write"} => sealCall[c].server \in KeyServers
        /\ sealCall[c].stage = "write" => sealCall[c].value = SealedBy(sealCall[c].server, c, c)

\* The row a call inserts is of its kind, and a secret is never given a second value.
RowKindsInv ==
    \A r \in SealCalls :
        /\ row[r].kind = "ref" => sealCall[r].kind = "resolve"
        /\ sealCall[r].kind # "resolve" => newest[r] = r

UnderWay(s) == rewrap[s].stage # "none"

\* A pass aims at the key its server reads as current, and while it is the file's no
\* server reads an older file.
PassesInv ==
    \A s \in KeyServers : UnderWay(s) =>
        /\ rewrap[s].current = loaded[s].current
        /\ rotating /\ rewrap[s].current = ring.current => AllRestarted

\* The pass has nothing more to read of this row.
WalkedPast(s, r) ==
    \/ rewrap[s].stage = "reported"
    \/ row[r].kind = "secret" /\ rewrap[s].kind = "ref"
    \/ /\ row[r].kind = rewrap[s].kind
       /\ \/ r <= rewrap[s].after
          \/ rewrap[s].stage = "each" /\ ~rewrap[s].full

\* The pass holds the row as it is, and will rewrap it.
InHand(s, r) ==
    /\ rewrap[s].stage = "each"
    /\ \E rec \in rewrap[s].page : rec.id = r /\ rec.value = row[r].value

\* Rows whose value the service may still read.
Readable == Listed("secret") \cup Listed("ref")

Clean(s) ==
    UnderWay(s) /\ rotating /\ rewrap[s].current = ring.current
    /\ ~rewrap[s].cut /\ ~rewrap[s].failed

\* Behind a pass that has met no failure nothing is under an older key.
WalksInv ==
    \A s \in KeyServers : Clean(s) =>
        \A r \in Readable : WalkedPast(s, r) =>
            row[r].value.version = ring.current \/ InHand(s, r)

SealInv ==
    /\ SealTypes
    /\ KeysInv
    /\ CallsInv
    /\ RowKindsInv
    /\ PassesInv
    /\ WalksInv
    /\ SealedValuesKept

-----------------------------------------------------------------------------
(* Pages: finite sets of numbers, and the first of them.                   *)

\* A finite set of numbers has a greatest, and Max finds it.
LEMMA FiniteMax ==
    ASSUME NEW S \in SUBSET Nat, IsFiniteSet(S), S # {}
    PROVE  Max(S) \in S /\ \A x \in S : x <= Max(S)
<1> DEFINE HasMax(A) == \E m \in A : \A x \in A : x <= m
           Without == {A \in FiniteSubsetsOf(S) : A # {} /\ ~HasMax(A)}
<1>1. HasMax(S)
  <2>1. ASSUME Without # {} PROVE FALSE
    <3>1. IsWellFoundedOn(StrictSubsetOrdering(S), FiniteSubsetsOf(S))
      BY FS_StrictSubsetOrderingWellFounded
    <3>2. PICK A \in Without : \A B \in Without : ~(<<B, A>> \in StrictSubsetOrdering(S))
      <4> HIDE DEF Without
      <4>1. Without \subseteq FiniteSubsetsOf(S)
        BY DEF Without
      <4> QED BY <2>1, <3>1, <4>1, WFMin
    <3>3. A \in SUBSET S /\ IsFiniteSet(A) /\ A # {} /\ ~HasMax(A)
      BY <3>2 DEF FiniteSubsetsOf
    <3>4. PICK x \in A : TRUE
      BY <3>3
    <3>5. A \ {x} \in SUBSET S /\ IsFiniteSet(A \ {x}) /\ A \ {x} # A
      BY <3>3, <3>4, FS_RemoveElement
    <3>6. <<A \ {x}, A>> \in StrictSubsetOrdering(S)
      BY <3>3, <3>5 DEF StrictSubsetOrdering
    <3>7. A \ {x} = {} \/ HasMax(A \ {x})
      <4> SUFFICES A \ {x} \in FiniteSubsetsOf(S)
        BY <3>2, <3>6
      <4> QED BY <3>5 DEF FiniteSubsetsOf
    <3>8. CASE A \ {x} = {}
      <4>1. \A y \in A : y = x
        BY <3>8
      <4>2. x <= x
        BY <3>3, <3>4
      <4> QED BY <3>3, <3>4, <4>1, <4>2
    <3>9. CASE HasMax(A \ {x})
      <4>1. PICK m \in A \ {x} : \A y \in A \ {x} : y <= m
        BY <3>9
      <4>2. \A y \in A : y \in Nat
        BY <3>3
      <4>3. (\A y \in A : y <= m) \/ (\A y \in A : y <= x)
        BY <3>4, <4>1, <4>2
      <4> QED BY <3>3, <3>4, <4>1, <4>3
    <3> QED BY <3>7, <3>8, <3>9
  <2>2. S \in FiniteSubsetsOf(S)
    BY DEF FiniteSubsetsOf
  <2> QED BY <2>1, <2>2
<1>2. PICK m \in S : \A x \in S : x <= m
  BY <1>1
<1>3. \E y \in S : \A x \in S : y >= x
  BY <1>2
<1>4. Max(S) \in S /\ \A x \in S : Max(S) >= x
  <2> HIDE DEF HasMax
  <2> QED BY <1>3 DEF Max
<1> QED BY <1>4

\* A set of numbers that is not empty has a least.
LEMMA LeastOf ==
    ASSUME NEW S \in SUBSET Nat, S # {}
    PROVE  \E m \in S : \A x \in S : m <= x
<1>1. PICK m \in S : \A x \in S : ~(<<x, m>> \in OpToRel(<, Nat))
  BY NatLessThanWellFounded, WFMin
<1>2. \A x \in S : ~(x < m)
  BY <1>1 DEF OpToRel
<1> QED BY <1>2

\* The rows of a page are the first, up to its last; and a page that is not full is all
\* there was.
LEMMA PageIsFirst ==
    ASSUME NEW L \in SUBSET Nat, IsFiniteSet(L), NEW N \in Nat \ {0},
           NEW found, \A r : r \in found <=> r \in L /\ Cardinality({x \in L : x <= r}) <= N
    PROVE  /\ IsFiniteSet(found) /\ found \subseteq L
           /\ \A f \in found : \A r \in L : r <= f => r \in found
           /\ Cardinality(found) # N => found = L
<1> DEFINE UpTo(r) == {x \in L : x <= r}
<1>1. \A r \in L : IsFiniteSet(UpTo(r)) /\ Cardinality(UpTo(r)) \in Nat
  BY FS_Subset, FS_CardinalityType
<1>2. found \subseteq L /\ IsFiniteSet(found) /\ Cardinality(found) \in Nat
  BY FS_Subset, FS_CardinalityType
<1>3. ASSUME NEW f \in found, NEW r \in L, r <= f PROVE r \in found
  <2>1. UpTo(r) \subseteq UpTo(f)
    <3> SUFFICES ASSUME NEW x \in UpTo(r) PROVE x \in UpTo(f)
      OBVIOUS
    <3>1. x \in L /\ x <= r /\ r \in Nat /\ f \in Nat /\ x \in Nat
      BY <1>2, <1>3
    <3> QED BY <1>3, <3>1
  <2>2. Cardinality(UpTo(r)) <= Cardinality(UpTo(f))
    BY <1>1, <1>2, <2>1, FS_Subset
  <2>3. Cardinality(UpTo(f)) <= N
    OBVIOUS
  <2>4. Cardinality(UpTo(r)) <= N
    <3> HIDE DEF UpTo
    <3> QED BY <1>1, <1>2, <2>2, <2>3
  <2> QED BY <2>4
<1>4. Cardinality(found) <= N
  <2>1. CASE found = {}
    BY <2>1, FS_EmptySet
  <2>2. CASE found # {}
    <3>1. Max(found) \in found /\ \A x \in found : x <= Max(found)
      BY <1>2, <2>2, FiniteMax
    <3>2. UpTo(Max(found)) = found
      BY <1>2, <1>3, <3>1
    <3> QED BY <3>1, <3>2
  <2> QED BY <2>1, <2>2
<1>5. ASSUME Cardinality(found) # N PROVE found = L
  <2> SUFFICES ASSUME L \ found # {} PROVE FALSE
    BY <1>2
  <2>1. PICK m \in L \ found : \A x \in L \ found : m <= x
    BY LeastOf
  <2>2. UpTo(m) = found \cup {m}
    <3>1. \A x \in UpTo(m) : x \in found \cup {m}
      BY <2>1
    <3>2. \A f \in found : f \in UpTo(m)
      BY <1>2, <1>3, <2>1
    <3>3. m \in UpTo(m)
      BY <2>1
    <3> HIDE DEF UpTo
    <3> QED BY <3>1, <3>2, <3>3
  <2>3. Cardinality(found \cup {m}) = Cardinality(found) + 1
    BY <1>2, <2>1, FS_AddElement
  <2>4. ~(Cardinality(UpTo(m)) <= N)
    BY <2>1
  <2>5. Cardinality(found) < N
    BY <1>2, <1>4, <1>5
  <2> HIDE DEF UpTo
  <2> QED BY <1>2, <2>2, <2>3, <2>4, <2>5
<1> QED BY <1>2, <1>3, <1>5

-----------------------------------------------------------------------------
(* The steps.                                                              *)

\* What Readable holds.
LEMMA ReadableIs ==
    \A r : r \in Readable <=>
             /\ r \in SealCalls
             /\ \/ row[r].kind = "ref"
                \/ row[r].kind = "secret" /\ row[r].state # "revoked"
BY DEF Readable, Listed, Rows

\* A value of a row that may be read is what it was, or is under the key of a server.
Written ==
    \A r \in Readable' :
        \/ r \in Readable /\ row'[r].kind = row[r].kind /\ row'[r].value = row[r].value
        \/ \E t \in KeyServers : row'[r].value.version = loaded[t].current

\* Nothing is written under a key that has left the file.
LEMMA WrittenKept ==
    ASSUME SealInv, Written, UNCHANGED ring
    PROVE  NothingLost'
<1> SUFFICES ASSUME NEW r \in Readable' PROVE row'[r].value.version \in ring.keys
  BY DEF NothingLost, Readable
<1>1. CASE r \in Readable /\ row'[r].value = row[r].value
  BY <1>1 DEF SealInv, SealedValuesKept, NothingLost, Readable
<1>2. CASE \E t \in KeyServers : row'[r].value.version = loaded[t].current
  BY <1>2 DEF SealInv, KeysInv
<1> QED BY <1>1, <1>2 DEF Written

\* What is behind a pass stays so, whatever the requests and the other passes write.
LEMMA WrittenWalked ==
    ASSUME SealInv, Written, UNCHANGED <<ring, loaded, rotating>>,
           NEW s \in KeyServers, rewrap'[s] = rewrap[s], Clean(s)'
    PROVE  \A r \in Readable' : WalkedPast(s, r)' =>
               row'[r].value.version = ring'.current \/ InHand(s, r)'
<1> SUFFICES ASSUME NEW r \in Readable', WalkedPast(s, r)'
             PROVE  row'[r].value.version = ring.current \/ InHand(s, r)'
  OBVIOUS
<1>1. Clean(s)
  BY DEF Clean, UnderWay
<1>2. AllRestarted
  BY <1>1 DEF Clean, SealInv, PassesInv
<1>3. CASE r \in Readable /\ row'[r].kind = row[r].kind /\ row'[r].value = row[r].value
  <2>1. WalkedPast(s, r)
    BY <1>3 DEF WalkedPast
  <2>2. row[r].value.version = ring.current \/ InHand(s, r)
    BY <1>1, <1>3, <2>1 DEF SealInv, WalksInv
  <2> QED BY <1>3, <2>2 DEF InHand
<1>4. CASE \E t \in KeyServers : row'[r].value.version = loaded[t].current
  BY <1>2, <1>4 DEF AllRestarted
<1> QED BY <1>3, <1>4 DEF Written

\* A request reads or seals, and writes no row.
LEMMA CallStep ==
    ASSUME SealInv, NEW c \in SealCalls, NEW s \in KeyServers,
           LookUpRef(c, s) \/ SealRef(c) \/ SealSecret(c, s)
    PROVE  SealInv'
<1>1. UNCHANGED <<ring, loaded, rewrap, rotating, row, newest>>
  BY DEF LookUpRef, SealRef, SealSecret, Operator
<1>2. SealTypes /\ CallsInv /\ RowKindsInv /\ KeysInv
  BY DEF SealInv
<1>3. \A t \in KeyServers : \A d \in SealCalls : SealedBy(t, d, d) \in SealedValue
  BY <1>2, SealingAssumption DEF SealTypes, SealedBy, SealedValue, Keyring
<1>4. /\ sealCall' \in [SealCalls -> [kind : {"before", "resolve", "enrol"},
                                      value : SealedValue \cup {NoValue},
                                      server : KeyServers \cup {"none"},
                                      stage : {"idle", "seal", "write", "done"}]]
      /\ \A d \in SealCalls : sealCall'[d].kind = sealCall[d].kind
      /\ CallsInv'
  <2>1. CASE LookUpRef(c, s)
    BY <1>1, <1>2, <2>1 DEF LookUpRef, SealTypes, CallsInv, SealedBy
  <2>2. ASSUME NEW t \in KeyServers, NEW next,
               next = [sealCall[c] EXCEPT !.server = t, !.value = SealedBy(t, c, c),
                                          !.stage = "write"],
               sealCall' = [sealCall EXCEPT ![c] = next]
        PROVE  /\ sealCall' \in [SealCalls -> [kind : {"before", "resolve", "enrol"},
                                               value : SealedValue \cup {NoValue},
                                               server : KeyServers \cup {"none"},
                                               stage : {"idle", "seal", "write", "done"}]]
               /\ \A d \in SealCalls : sealCall'[d].kind = sealCall[d].kind
               /\ CallsInv'
    <3> DEFINE v == SealedBy(t, c, c)
    <3>1. v \in SealedValue
      BY <1>3
    <3> HIDE DEF v
    <3>2. /\ next \in [kind : {"before", "resolve", "enrol"}, value : SealedValue \cup {NoValue},
                       server : KeyServers \cup {"none"},
                       stage : {"idle", "seal", "write", "done"}]
          /\ next.kind = sealCall[c].kind /\ next.stage = "write" /\ next.server = t /\ next.value = v
      <4>1. next = [sealCall[c] EXCEPT !.server = t, !.value = v, !.stage = "write"]
        BY <2>2 DEF v
      <4>2. sealCall[c] \in [kind : {"before", "resolve", "enrol"},
                             value : SealedValue \cup {NoValue},
                             server : KeyServers \cup {"none"},
                             stage : {"idle", "seal", "write", "done"}]
        BY <1>2 DEF SealTypes
      <4> QED BY <3>1, <4>1, <4>2
    <3>3. \A d \in SealCalls : sealCall'[d] = IF d = c THEN next ELSE sealCall[d]
      BY <1>2, <2>2 DEF SealTypes
    <3>4. CallsInv'
      <4>1. SUFFICES ASSUME NEW d \in SealCalls
                     PROVE  /\ sealCall'[d].stage \in {"seal", "write"} =>
                                 sealCall'[d].server \in KeyServers
                            /\ sealCall'[d].stage = "write" =>
                                 sealCall'[d].value = SealedBy(sealCall'[d].server, d, d)
        BY <1>1 DEF CallsInv, SealedBy
      <4>2. CASE d = c
        BY <3>2, <3>3, <4>2 DEF v
      <4>3. CASE d # c
        BY <1>2, <3>3, <4>3 DEF CallsInv
      <4> QED BY <4>2, <4>3
    <3> QED BY <1>2, <2>2, <3>2, <3>3, <3>4 DEF SealTypes
  <2>3. CASE SealRef(c)
    <3>1. sealCall[c].server \in KeyServers
      BY <1>2, <2>3 DEF SealRef, CallsInv
    <3>2. sealCall' = [sealCall EXCEPT
            ![c] = [sealCall[c] EXCEPT !.server = sealCall[c].server,
                      !.value = SealedBy(sealCall[c].server, c, c), !.stage = "write"]]
      BY <1>2, <2>3 DEF SealRef, SealTypes
    <3> QED BY <2>2, <3>1, <3>2
  <2>4. CASE SealSecret(c, s)
    <3>1. sealCall' = [sealCall EXCEPT
            ![c] = [sealCall[c] EXCEPT !.server = s, !.value = SealedBy(s, c, c),
                                       !.stage = "write"]]
      BY <1>2, <2>4 DEF SealSecret, SealTypes
    <3> QED BY <2>2, <3>1
  <2> QED BY <2>1, <2>3, <2>4
<1>5. SealTypes'
  BY <1>1, <1>2, <1>4 DEF SealTypes
<1>6. KeysInv' /\ PassesInv' /\ WalksInv' /\ SealedValuesKept'
  BY <1>1 DEF SealInv, KeysInv, PassesInv, AllRestarted, UnderWay, WalksInv, Clean, Readable,
       WalkedPast, InHand, Listed, Rows, SealedValuesKept, NothingLost, NewestIsKept
<1>7. RowKindsInv'
  BY <1>1, <1>2, <1>4 DEF RowKindsInv
<1> QED BY <1>4, <1>5, <1>6, <1>7 DEF SealInv

\* A request's transaction: what it writes is under the key of its server.
LEMMA RowStep ==
    ASSUME SealInv, UNCHANGED Operator, Written, SealTypes', CallsInv', RowKindsInv',
           NewestIsKept'
    PROVE  SealInv'
<1>1. UNCHANGED <<ring, loaded, rewrap, rotating>>
  BY DEF Operator
<1>2. KeysInv' /\ PassesInv'
  BY <1>1 DEF SealInv, KeysInv, PassesInv, AllRestarted, UnderWay
<1>3. NothingLost'
  BY <1>1, WrittenKept
<1>4. WalksInv'
  BY <1>1, WrittenWalked DEF WalksInv
<1> QED BY <1>2, <1>3, <1>4 DEF SealInv, SealedValuesKept

\* Resolve's row: a new one, or the one of the person, sealed again.
LEMMA UpsertStep ==
    ASSUME SealInv, NEW c \in SealCalls, UpsertSubject(c)
    PROVE  SealInv'
<1> DEFINE existing == Rows("ref")
           id == IF existing = {} THEN c ELSE CHOOSE r \in existing : TRUE
           state == IF existing = {} THEN "live" ELSE row[id].state
<1>1. SealTypes /\ CallsInv /\ RowKindsInv /\ NewestIsKept
  BY DEF SealInv, SealedValuesKept
<1>2. /\ sealCall[c].kind = "resolve" /\ sealCall[c].stage = "write"
      /\ sealCall[c].server \in KeyServers
      /\ sealCall[c].value = SealedBy(sealCall[c].server, c, c)
  BY <1>1 DEF UpsertSubject, CallsInv
<1>3. sealCall[c].value \in SealedValue
  BY <1>1, <1>2, SealingAssumption DEF SealTypes, SealedBy, SealedValue, Keyring
<1>4. id \in SealCalls /\ sealCall[id].kind = "resolve" /\ state \in {"live", "revoked", "deleted"}
  <2>1. CASE existing = {}
    BY <1>2, <2>1
  <2>2. CASE existing # {}
    <3>1. id \in SealCalls /\ row[id].kind = "ref"
      BY <2>2 DEF Rows
    <3>2. row[id] \in SealedRow
      BY <1>1, <3>1 DEF SealTypes, Gone
    <3> QED BY <1>1, <2>2, <3>1, <3>2 DEF RowKindsInv, SealedRow
  <2> QED BY <2>1, <2>2
<1>5. /\ row' = [row EXCEPT ![id] = [kind |-> "ref", value |-> sealCall[c].value,
                                     state |-> state]]
      /\ newest' = [newest EXCEPT ![id] = c]
      /\ sealCall' = [sealCall EXCEPT ![c].stage = "done"]
      /\ UNCHANGED <<ring, loaded, rewrap, rotating>>
  BY DEF UpsertSubject, Operator
<1> HIDE DEF existing, id, state
<1>6. [kind |-> "ref", value |-> sealCall[c].value, state |-> state] \in SealedRow
  BY <1>3, <1>4 DEF SealedRow
<1>7. SealTypes'
  BY <1>1, <1>4, <1>5, <1>6 DEF SealTypes
<1>8. CallsInv' /\ RowKindsInv'
  BY <1>1, <1>4, <1>5 DEF SealTypes, CallsInv, RowKindsInv, SealedBy
<1>9. NewestIsKept'
  <2> SUFFICES ASSUME NEW r \in (Rows("secret") \cup Rows("ref"))'
               PROVE  row'[r].value.content = newest'[r]
    BY DEF NewestIsKept
  <2>1. CASE r = id
    BY <1>1, <1>2, <1>4, <1>5, <2>1 DEF SealTypes, SealedBy
  <2>2. CASE r # id
    BY <1>1, <1>4, <1>5, <2>2 DEF SealTypes, NewestIsKept, Rows
  <2> QED BY <2>1, <2>2
<1>10. Written
  <2> SUFFICES ASSUME NEW r \in Readable'
               PROVE  \/ r \in Readable /\ row'[r].kind = row[r].kind
                                        /\ row'[r].value = row[r].value
                      \/ \E t \in KeyServers : row'[r].value.version = loaded[t].current
    BY DEF Written
  <2>1. CASE r = id
    BY <1>1, <1>2, <1>4, <1>5, <2>1 DEF SealTypes, SealedBy
  <2>2. CASE r # id
    BY <1>1, <1>4, <1>5, <2>2 DEF SealTypes, Readable, Listed, Rows
  <2> QED BY <2>1, <2>2
<1> QED BY <1>5, <1>7, <1>8, <1>9, <1>10, RowStep DEF Operator

\* CreateTOTPSecret.
LEMMA CreateStep ==
    ASSUME SealInv, NEW c \in SealCalls, CreateSealed(c)
    PROVE  SealInv'
<1>1. SealTypes /\ CallsInv /\ RowKindsInv /\ NewestIsKept
  BY DEF SealInv, SealedValuesKept
<1>2. /\ sealCall[c].kind = "enrol" /\ sealCall[c].stage = "write"
      /\ sealCall[c].server \in KeyServers
      /\ sealCall[c].value = SealedBy(sealCall[c].server, c, c)
      /\ newest[c] = c
  BY <1>1 DEF CreateSealed, CallsInv, RowKindsInv
<1>3. sealCall[c].value \in SealedValue
  BY <1>1, <1>2, SealingAssumption DEF SealTypes, SealedBy, SealedValue, Keyring
<1>4. [kind |-> "secret", state |-> "live", value |-> sealCall[c].value] \in SealedRow
  BY <1>3 DEF SealedRow
<1>5. /\ row' = [row EXCEPT ![c] = [kind |-> "secret", state |-> "live",
                                    value |-> sealCall[c].value]]
      /\ sealCall' = [sealCall EXCEPT ![c].stage = "done"]
      /\ UNCHANGED <<ring, loaded, rewrap, rotating, newest>>
  BY DEF CreateSealed, Operator
<1>6. SealTypes'
  BY <1>1, <1>4, <1>5 DEF SealTypes
<1>7. CallsInv' /\ RowKindsInv'
  BY <1>1, <1>5 DEF SealTypes, CallsInv, RowKindsInv, SealedBy
<1>8. NewestIsKept'
  BY <1>1, <1>2, <1>5 DEF SealTypes, NewestIsKept, Rows, SealedBy
<1>9. Written
  <2> SUFFICES ASSUME NEW r \in Readable'
               PROVE  \/ r \in Readable /\ row'[r].kind = row[r].kind
                                        /\ row'[r].value = row[r].value
                      \/ \E t \in KeyServers : row'[r].value.version = loaded[t].current
    BY DEF Written
  <2>1. CASE r = c
    BY <1>1, <1>2, <1>5, <2>1 DEF SealTypes, SealedBy
  <2>2. CASE r # c
    BY <1>1, <1>5, <2>2 DEF SealTypes, Readable, Listed, Rows
  <2> QED BY <2>1, <2>2
<1> QED BY <1>5, <1>6, <1>7, <1>8, <1>9, RowStep DEF Operator

\* A revocation, a soft deletion and its cancellation: no row is read again that was
\* not read before.
LEMMA StateStep ==
    ASSUME SealInv, NEW r \in SealCalls,
           RevokeSecret(r) \/ DeleteSubject(r) \/ RestoreSubject(r)
    PROVE  SealInv'
<1>1. SealTypes /\ CallsInv /\ RowKindsInv /\ NewestIsKept
  BY DEF SealInv, SealedValuesKept
<1>2. PICK before, after, kind : /\ SetState(r, before, after, kind)
                                 /\ after \in {"live", "revoked", "deleted"}
                                 /\ kind \in {"ref", "secret"}
                                 /\ kind = "secret" => before = "live"
  BY DEF RevokeSecret, DeleteSubject, RestoreSubject
<1>3. /\ row[r].kind = kind /\ row[r].state = before
      /\ row' = [row EXCEPT ![r].state = after]
      /\ UNCHANGED <<ring, loaded, rewrap, rotating, sealCall, newest>>
  BY <1>2 DEF SetState, Operator
<1>4. row[r] \in SealedRow
  BY <1>1, <1>2, <1>3 DEF SealTypes, Gone
<1>5. \A x \in SealCalls : /\ row'[x].kind = row[x].kind
                           /\ row[x].kind \in {"ref", "secret"} => row'[x].value = row[x].value
                           /\ row'[x] \in SealedRow \cup {Gone}
                           /\ x # r => row'[x] = row[x]
  BY <1>1, <1>2, <1>3, <1>4 DEF SealTypes, SealedRow
<1>6. row' \in [SealCalls -> SealedRow \cup {Gone}]
  BY <1>1, <1>3, <1>5 DEF SealTypes
<1>7. SealTypes'
  BY <1>1, <1>3, <1>6 DEF SealTypes
<1>8. CallsInv' /\ RowKindsInv'
  BY <1>1, <1>3, <1>5 DEF CallsInv, RowKindsInv, SealedBy
<1>9. NewestIsKept'
  BY <1>1, <1>3, <1>5 DEF NewestIsKept, Rows
<1>10. Written
  BY <1>2, <1>3, <1>5 DEF Written, Readable, Listed, Rows
<1> QED BY <1>3, <1>7, <1>8, <1>9, <1>10, RowStep DEF Operator

\* PurgeSubject leaves nothing to read.
LEMMA PurgeStep ==
    ASSUME SealInv, NEW r \in SealCalls, PurgeSubject(r)
    PROVE  SealInv'
<1>1. SealTypes /\ CallsInv /\ RowKindsInv
  BY DEF SealInv
<1>2. /\ row' = [x \in SealCalls |-> Gone]
      /\ UNCHANGED <<ring, loaded, rewrap, rotating, sealCall, newest>>
  BY DEF PurgeSubject, Operator
<1>3. \A x \in SealCalls : row'[x].kind = "none"
  BY <1>2 DEF Gone
<1>4. SealTypes'
  BY <1>1, <1>2 DEF SealTypes
<1>5. CallsInv' /\ RowKindsInv'
  BY <1>1, <1>2, <1>3 DEF CallsInv, RowKindsInv, SealedBy
<1>6. NewestIsKept' /\ Written
  BY <1>3 DEF NewestIsKept, Written, Readable, Listed, Rows
<1> QED BY <1>2, <1>4, <1>5, <1>6, RowStep DEF Operator

\* A step of a pass that writes no row: the other passes are as they were.
LEMMA PassStep ==
    ASSUME SealInv, NEW s \in KeyServers,
           UNCHANGED <<ring, loaded, row, sealCall, rotating, newest>>,
           NEW next \in RewrapPass, rewrap' = [rewrap EXCEPT ![s] = next],
           next.current = loaded[s].current,
           rotating /\ next.current = ring.current => AllRestarted,
           \A r \in Readable' : Clean(s)' /\ WalkedPast(s, r)' =>
               row'[r].value.version = ring'.current \/ InHand(s, r)'
    PROVE  SealInv'
<1>1. SealTypes
  BY DEF SealInv
<1>2. rewrap'[s] = next /\ \A t \in KeyServers \ {s} : rewrap'[t] = rewrap[t]
  BY <1>1 DEF SealTypes
<1>3. SealTypes'
  BY <1>1 DEF SealTypes
<1>4. KeysInv' /\ CallsInv' /\ RowKindsInv' /\ SealedValuesKept'
  BY DEF SealInv, KeysInv, CallsInv, RowKindsInv, SealedBy, SealedValuesKept, NothingLost,
         NewestIsKept, Listed, Rows
<1>5. PassesInv'
  <2> SUFFICES ASSUME NEW t \in KeyServers, UnderWay(t)'
               PROVE  /\ rewrap'[t].current = loaded[t].current
                      /\ rotating /\ rewrap'[t].current = ring.current => AllRestarted
    BY DEF PassesInv, AllRestarted
  <2>1. CASE t = s
    BY <1>2, <2>1
  <2>2. CASE t # s
    BY <1>2, <2>2 DEF SealInv, PassesInv, UnderWay
  <2> QED BY <2>1, <2>2
<1>6. Written
  BY DEF Written, Readable, Listed, Rows
<1>7. WalksInv'
  <2> SUFFICES ASSUME NEW t \in KeyServers, Clean(t)', NEW r \in Readable', WalkedPast(t, r)'
               PROVE  row'[r].value.version = ring'.current \/ InHand(t, r)'
    BY DEF WalksInv
  <2>1. CASE t = s
    BY <2>1
  <2>2. CASE t # s
    BY <1>2, <1>6, <2>2, WrittenWalked
  <2> QED BY <2>1, <2>2
<1> QED BY <1>3, <1>4, <1>5, <1>7 DEF SealInv

\* A pass under way has a record's fields.
LEMMA PassIs ==
    ASSUME SealTypes, NEW s \in KeyServers, UnderWay(s)
    PROVE  rewrap[s] \in RewrapPass
BY DEF SealTypes, UnderWay, NoPass

LEMMA BeginStep ==
    ASSUME SealInv, NEW s \in KeyServers, BeginPass(s)
    PROVE  SealInv'
<1> DEFINE next == [stage |-> "list", kind |-> "secret", after |-> 0, page |-> {},
                    full |-> FALSE, failed |-> FALSE, inUse |-> {}, cut |-> FALSE,
                    current |-> loaded[s].current]
<1>1. SealTypes
  BY DEF SealInv
<1>2. next \in RewrapPass
  BY <1>1 DEF SealTypes, RewrapPass, Keyring
<1>3. /\ rewrap' = [rewrap EXCEPT ![s] = next] /\ AllRestarted
      /\ UNCHANGED <<ring, loaded, row, sealCall, rotating, newest>>
  BY DEF BeginPass
<1>4. rewrap'[s] = next
  BY <1>1, <1>3 DEF SealTypes
<1>5. \A r \in Readable' : ~WalkedPast(s, r)'
  <2> SUFFICES ASSUME NEW r \in Readable', WalkedPast(s, r)' PROVE FALSE
    OBVIOUS
  <2>1. r \in Nat \ {0}
    BY SealingAssumption DEF Readable, Listed, Rows
  <2> QED BY <1>4, <2>1 DEF WalkedPast
<1>6. next.current = loaded[s].current
  OBVIOUS
<1> HIDE DEF next
<1> QED BY <1>2, <1>3, <1>5, <1>6, PassStep

\* A page is read: the rows up to its last are behind the pass or in its hand.
LEMMA ListStep ==
    ASSUME SealInv, NEW s \in KeyServers, ListSealed(s)
    PROVE  SealInv'
<1> DEFINE pass == rewrap[s]
           later == {r \in Listed(pass.kind) : r > pass.after}
           found == PageAfter(pass.kind, pass.after)
           batch == {[id |-> r, value |-> row[r].value] : r \in found}
           after == IF found = {} THEN pass.after ELSE Max(found)
           full == Cardinality(found) = RewrapPage
           next == [pass EXCEPT !.stage = "each", !.page = batch, !.after = after, !.full = full]
<1>1. SealTypes /\ PassesInv /\ WalksInv
  BY DEF SealInv
<1>2. UnderWay(s) /\ pass.stage = "list" /\ pass \in RewrapPass
  BY <1>1, PassIs DEF ListSealed, UnderWay
<1>3. /\ rewrap' = [rewrap EXCEPT ![s] = next]
      /\ UNCHANGED <<ring, loaded, row, sealCall, rotating, newest>>
  BY <1>1 DEF ListSealed, SealTypes
<1>4. later \in SUBSET Nat /\ later \subseteq SealCalls /\ IsFiniteSet(later)
  <2>1. later \subseteq SealCalls
    BY DEF Listed, Rows
  <2> QED BY <2>1, SealingAssumption, FS_Subset
<1>5. /\ IsFiniteSet(found) /\ found \subseteq later
      /\ \A f \in found : \A r \in later : r <= f => r \in found
      /\ Cardinality(found) # RewrapPage => found = later
  <2>1. \A r : r \in found <=>
                 r \in later /\ Cardinality({x \in later : x <= r}) <= RewrapPage
    BY DEF PageAfter
  <2> HIDE DEF found, later
  <2> QED BY <1>4, <2>1, PageIsFirst, SealingAssumption
<1>6. found # {} => Max(found) \in found /\ \A r \in found : r <= Max(found)
  <2> HIDE DEF found
  <2> QED BY <1>4, <1>5, FiniteMax
<1>7. after \in Nat /\ full \in BOOLEAN
  <2> HIDE DEF found
  <2> QED BY <1>2, <1>4, <1>5, <1>6 DEF RewrapPass
<1>8. batch \subseteq [id : SealCalls, value : SealedValue]
  <2> SUFFICES ASSUME NEW r \in found
               PROVE  [id |-> r, value |-> row[r].value] \in [id : SealCalls, value : SealedValue]
    OBVIOUS
  <2>1. r \in SealCalls /\ row[r] \in SealedRow
    BY <1>1, <1>2, <1>5 DEF SealTypes, Listed, Rows, RewrapPass, Gone
  <2> HIDE DEF found
  <2> QED BY <2>1 DEF SealedRow
<1>9. next \in RewrapPass /\ next.current = pass.current
  <2> HIDE DEF batch, after, full, pass
  <2> QED BY <1>2, <1>7, <1>8 DEF RewrapPass
<1>10. /\ next.stage = "each" /\ next.page = batch /\ next.after = after /\ next.full = full
       /\ next.kind = pass.kind /\ next.failed = pass.failed /\ next.cut = pass.cut
  <2> HIDE DEF batch, after, full, pass
  <2> QED BY <1>2 DEF RewrapPass
<1>11. rewrap'[s] = next
  BY <1>1, <1>3 DEF SealTypes
<1> HIDE DEF next, batch, after, full, found, later
<1>12. ASSUME NEW r \in Readable', Clean(s)', WalkedPast(s, r)'
       PROVE  row'[r].value.version = ring'.current \/ InHand(s, r)'
  <2>1. r \in Readable /\ r \in Nat
    BY <1>3, SealingAssumption DEF Readable, Listed, Rows
  <2>2. Clean(s)
    BY <1>2, <1>3, <1>9, <1>10, <1>11, <1>12 DEF Clean, UnderWay
  <2>3. WalkedPast(s, r) => row[r].value.version = ring.current
    BY <1>1, <1>2, <2>1, <2>2 DEF WalksInv, InHand
  <2>4. CASE r \in found
    <3>1. [id |-> r, value |-> row[r].value] \in rewrap'[s].page
      BY <1>10, <1>11, <2>4 DEF batch
    <3> QED BY <1>3, <1>10, <1>11, <3>1 DEF InHand
  <2>5. CASE r \notin found
    <3>1. \/ row[r].kind = "secret" /\ pass.kind = "ref"
          \/ row[r].kind = pass.kind /\ r <= after
          \/ row[r].kind = pass.kind /\ ~full
      <4>1. rewrap'[s].full = full /\ rewrap'[s].kind = pass.kind
            /\ rewrap'[s].after = after /\ rewrap'[s].stage = "each"
        BY <1>10, <1>11
      <4>2. ~rewrap'[s].full => ~full
        BY <4>1, Zenon
      <4>3. \/ row'[r].kind = "secret" /\ rewrap'[s].kind = "ref"
            \/ row'[r].kind = rewrap'[s].kind /\ (r <= rewrap'[s].after \/ ~rewrap'[s].full)
        BY <1>12, <4>1 DEF WalkedPast
      <4> QED BY <1>3, <4>1, <4>2, <4>3
    <3>2. CASE row[r].kind = pass.kind
      <4>1. r \in Listed(pass.kind)
        BY <2>1, <3>2, ReadableIs DEF Listed, Rows
      <4>2. r <= pass.after
        <5> SUFFICES ASSUME r > pass.after PROVE FALSE
          BY <1>2, <2>1 DEF RewrapPass
        <5>1. r \in later
          BY <4>1 DEF later
        <5>2. full
          BY <1>5, <2>5, <5>1 DEF full
        <5>3. r <= after
          BY <1>2, <3>1, <3>2, <5>2 DEF RewrapPass
        <5>4. CASE found = {}
          BY <1>2, <2>1, <5>3, <5>4 DEF after, RewrapPass
        <5>5. CASE found # {}
          <6>1. Max(found) \in found /\ r <= Max(found)
            BY <1>6, <5>3, <5>5 DEF after
          <6> QED BY <1>5, <2>5, <5>1, <6>1
        <5> QED BY <5>4, <5>5
      <4> QED BY <1>3, <2>3, <3>2, <4>2 DEF WalkedPast
    <3>3. CASE row[r].kind = "secret" /\ pass.kind = "ref"
      BY <1>3, <2>3, <3>3 DEF WalkedPast
    <3> QED BY <3>1, <3>2, <3>3
  <2> QED BY <2>4, <2>5
<1>13. next.current = loaded[s].current
       /\ (rotating /\ next.current = ring.current => AllRestarted)
  BY <1>1, <1>2, <1>9 DEF PassesInv
<1> QED BY <1>3, <1>9, <1>12, <1>13, PassStep

\* The end of a page that was not full is the end of its kind.
LEMMA NextPageStep ==
    ASSUME SealInv, NEW s \in KeyServers, NextPage(s)
    PROVE  SealInv'
<1> DEFINE pass == rewrap[s]
           next == IF pass.full THEN [pass EXCEPT !.stage = "list"]
                   ELSE IF pass.kind = "secret"
                        THEN [pass EXCEPT !.stage = "list", !.kind = "ref", !.after = 0]
                        ELSE [pass EXCEPT !.stage = "reported"]
<1>1. SealTypes /\ PassesInv /\ WalksInv
  BY DEF SealInv
<1>2. UnderWay(s) /\ pass.stage = "each" /\ pass.page = {} /\ pass \in RewrapPass
  BY <1>1, PassIs DEF NextPage, UnderWay
<1>3. /\ rewrap' = [rewrap EXCEPT ![s] = next]
      /\ UNCHANGED <<ring, loaded, row, sealCall, rotating, newest>>
  BY <1>1 DEF NextPage, SealTypes
<1>4. next \in RewrapPass /\ next.current = pass.current
  BY <1>2 DEF RewrapPass
<1>5. next.failed = pass.failed /\ next.cut = pass.cut /\ next.stage # "none"
  BY <1>2 DEF RewrapPass
<1>6. \/ /\ next.stage = "list" /\ next.kind = pass.kind /\ next.after = pass.after
      \/ /\ ~pass.full /\ pass.kind = "secret"
         /\ next.stage = "list" /\ next.kind = "ref" /\ next.after = 0
      \/ ~pass.full /\ pass.kind = "ref"
  BY <1>2 DEF RewrapPass
<1>7. rewrap'[s] = next
  BY <1>1, <1>3 DEF SealTypes
<1> HIDE DEF next
<1>8. ASSUME NEW r \in Readable', Clean(s)', WalkedPast(s, r)'
      PROVE  row'[r].value.version = ring'.current \/ InHand(s, r)'
  <2>1. r \in Readable /\ r \in Nat \ {0} /\ row[r].kind \in {"ref", "secret"}
    BY <1>3, SealingAssumption DEF Readable, Listed, Rows
  <2>2. Clean(s)
    BY <1>2, <1>3, <1>4, <1>5, <1>7, <1>8 DEF Clean, UnderWay
  <2>3. SUFFICES WalkedPast(s, r)
    BY <1>1, <1>2, <1>3, <2>1, <2>2 DEF WalksInv, InHand
  <2>4. CASE next.stage = "list" /\ next.kind = pass.kind /\ next.after = pass.after
    BY <1>3, <1>7, <1>8, <2>4 DEF WalkedPast
  <2>5. CASE /\ ~pass.full /\ pass.kind = "secret"
             /\ next.stage = "list" /\ next.kind = "ref" /\ next.after = 0
    <3>1. row[r].kind = "secret"
      BY <1>3, <1>7, <1>8, <2>1, <2>5 DEF WalkedPast
    <3> QED BY <1>2, <2>5, <3>1 DEF WalkedPast
  <2>6. CASE ~pass.full /\ pass.kind = "ref"
    BY <1>2, <2>1, <2>6 DEF WalkedPast
  <2> QED BY <1>6, <2>4, <2>5, <2>6
<1>9. next.current = loaded[s].current
      /\ (rotating /\ next.current = ring.current => AllRestarted)
  BY <1>1, <1>2, <1>4 DEF PassesInv
<1> QED BY <1>3, <1>4, <1>8, <1>9, PassStep

\* A report that was cut short is a statement about nothing.
LEMMA CutStep ==
    ASSUME SealInv, NEW s \in KeyServers, CutShort(s)
    PROVE  SealInv'
<1> DEFINE pass == rewrap[s]
           next == [pass EXCEPT !.stage = "reported", !.cut = TRUE]
<1>1. SealTypes /\ PassesInv
  BY DEF SealInv
<1>2. UnderWay(s) /\ pass \in RewrapPass
  BY <1>1, PassIs DEF CutShort, UnderWay
<1>3. /\ rewrap' = [rewrap EXCEPT ![s] = next]
      /\ UNCHANGED <<ring, loaded, row, sealCall, rotating, newest>>
  BY <1>1 DEF CutShort, SealTypes
<1>4. next \in RewrapPass /\ next.current = pass.current /\ next.cut
  BY <1>2 DEF RewrapPass
<1>5. rewrap'[s] = next
  BY <1>1, <1>3 DEF SealTypes
<1> HIDE DEF next
<1>6. ~Clean(s)'
  BY <1>4, <1>5, Zenon DEF Clean
<1>7. next.current = loaded[s].current
      /\ (rotating /\ next.current = ring.current => AllRestarted)
  BY <1>1, <1>2, <1>4 DEF PassesInv
<1> QED BY <1>3, <1>4, <1>6, <1>7, PassStep

\* rewrapOne: the record leaves the pass under the current key, or changed by somebody
\* who sealed it under that key, or counted as a failure.
LEMMA RewrapStep ==
    ASSUME SealInv, NEW s \in KeyServers, rewrap[s].stage = "each",
           NEW rec \in rewrap[s].page, RewrapOne(s, rec)
    PROVE  SealInv'
<1> DEFINE pass == rewrap[s]
           better == Rewrapped(loaded[s], rec.value, rec.id)
           Next(failed, inUse) == [pass EXCEPT !.page = @ \ {rec}, !.failed = failed,
                                               !.inUse = inUse]
<1>1. SealTypes /\ KeysInv /\ CallsInv /\ RowKindsInv /\ PassesInv /\ WalksInv /\ NewestIsKept
  BY DEF SealInv, SealedValuesKept
<1>2. UnderWay(s) /\ pass \in RewrapPass
  BY <1>1, PassIs DEF UnderWay
<1>3. rec \in [id : SealCalls, value : SealedValue]
  BY <1>2 DEF RewrapPass
<1>4. loaded[s] \in Keyring
  BY <1>1 DEF SealTypes
<1>5. /\ better \in SealedValue /\ better.version = loaded[s].current
      /\ better.content = rec.value.content
  BY <1>3, <1>4, SealingAssumption DEF Rewrapped, SealedValue, Keyring
<1>6. UNCHANGED <<ring, loaded, sealCall, rotating, newest>>
  BY DEF RewrapOne
<1>7. \E failed \in BOOLEAN, inUse \in SUBSET Nat :
         /\ rewrap' = [rewrap EXCEPT ![s] = Next(failed, inUse)]
         /\ pass.failed => failed
         /\ \/ row' = row /\ failed
            \/ row' = row /\ rec.value.version = loaded[s].current
            \/ row' = row /\ row[rec.id] = Gone
            \/ row' = [row EXCEPT ![rec.id].value = better] /\ Unchanged(rec)
  <2>1. pass.failed \in BOOLEAN /\ pass.inUse \in SUBSET Nat
    BY <1>2 DEF RewrapPass
  <2>2. rec.value.version \in Nat /\ loaded[s].current \in Nat
    BY <1>3, <1>4 DEF SealedValue, Keyring
  <2>3. /\ Counted(s, rec, "failed") =
             [rewrap EXCEPT ![s] = Next(TRUE, pass.inUse \cup {rec.value.version})]
        /\ Counted(s, rec, "current") =
             [rewrap EXCEPT ![s] = Next(pass.failed, pass.inUse \cup {loaded[s].current})]
        /\ Counted(s, rec, "gone") = [rewrap EXCEPT ![s] = Next(pass.failed, pass.inUse)]
    BY <1>1, <1>2, <2>1 DEF Counted, SealTypes, RewrapPass
  <2> HIDE DEF better, Next, pass
  <2>4. CASE rewrap' = Counted(s, rec, "failed") /\ row' = row
    <3>1. pass.inUse \cup {rec.value.version} \in SUBSET Nat
      BY <2>1, <2>2
    <3> WITNESS TRUE \in BOOLEAN, pass.inUse \cup {rec.value.version} \in SUBSET Nat
    <3> QED BY <2>3, <2>4
  <2>5. CASE rewrap' = Counted(s, rec, "current") /\ row' = row /\ better = rec.value
    BY <1>5, <2>1, <2>2, <2>3, <2>5
  <2>6. CASE /\ rewrap' = Counted(s, rec, "current") /\ Unchanged(rec)
             /\ row' = [row EXCEPT ![rec.id].value = better]
    BY <2>1, <2>2, <2>3, <2>6
  <2>7. CASE rewrap' = Counted(s, rec, "gone") /\ row' = row /\ row[rec.id] = Gone
    BY <2>1, <2>3, <2>7
  <2> QED BY <2>4, <2>5, <2>6, <2>7 DEF RewrapOne, better
<1>8. PICK failed \in BOOLEAN, inUse \in SUBSET Nat :
         /\ rewrap' = [rewrap EXCEPT ![s] = Next(failed, inUse)]
         /\ pass.failed => failed
         /\ \/ row' = row /\ failed
            \/ row' = row /\ rec.value.version = loaded[s].current
            \/ row' = row /\ row[rec.id] = Gone
            \/ row' = [row EXCEPT ![rec.id].value = better] /\ Unchanged(rec)
  BY <1>7
<1> DEFINE next == Next(failed, inUse)
<1>9. /\ next \in RewrapPass /\ next.stage = pass.stage /\ next.kind = pass.kind
      /\ next.after = pass.after /\ next.full = pass.full /\ next.page = pass.page \ {rec}
      /\ next.failed = failed /\ next.cut = pass.cut /\ next.current = pass.current
  BY <1>2 DEF RewrapPass
<1>10. rewrap'[s] = next /\ \A t \in KeyServers \ {s} : rewrap'[t] = rewrap[t]
  BY <1>1, <1>8 DEF SealTypes
<1> HIDE DEF next, Next, better
<1>11. \A r \in SealCalls :
          /\ row'[r] \in SealedRow \cup {Gone}
          /\ row'[r].kind = row[r].kind /\ (row[r] # Gone => row'[r].state = row[r].state)
          /\ \/ row'[r] = row[r]
             \/ /\ r = rec.id /\ row'[r].value = better /\ row[r] # Gone
                /\ row[r].value = rec.value
  <2> TAKE r \in SealCalls
  <2>1. row[r] \in SealedRow \cup {Gone}
    BY <1>1 DEF SealTypes
  <2>2. CASE row' = row
    BY <2>1, <2>2
  <2>3. CASE row' = [row EXCEPT ![rec.id].value = better] /\ Unchanged(rec)
    BY <1>1, <1>3, <1>5, <2>1, <2>3 DEF SealTypes, Unchanged, SealedRow
  <2> QED BY <1>8, <2>2, <2>3
<1>12. SealTypes'
  <2>1. row' \in [SealCalls -> SealedRow \cup {Gone}]
    <3>1. DOMAIN row' = SealCalls /\ row' = [r \in SealCalls |-> row'[r]]
      BY <1>1, <1>8 DEF SealTypes
    <3> QED BY <1>11, <3>1
  <2>2. rewrap' \in [KeyServers -> RewrapPass \cup {NoPass}]
    BY <1>1, <1>8, <1>9 DEF SealTypes, next
  <2> QED BY <1>1, <1>6, <2>1, <2>2 DEF SealTypes
<1>13. KeysInv' /\ CallsInv'
  BY <1>1, <1>6 DEF KeysInv, CallsInv, SealedBy
<1>14. RowKindsInv'
  BY <1>1, <1>6, <1>11 DEF RowKindsInv
<1>15. NewestIsKept'
  <2> SUFFICES ASSUME NEW r \in (Rows("secret") \cup Rows("ref"))'
               PROVE  row'[r].value.content = newest'[r]
    BY DEF NewestIsKept
  <2>1. r \in Rows("secret") \cup Rows("ref")
    BY <1>11 DEF Rows
  <2>2. row[r].value.content = newest[r]
    BY <1>1, <2>1 DEF NewestIsKept
  <2>3. CASE row'[r] = row[r]
    BY <1>6, <2>2, <2>3
  <2>4. CASE row'[r].value = better /\ row[r].value = rec.value
    BY <1>5, <1>6, <2>2, <2>4
  <2> QED BY <1>11, <2>1, <2>3, <2>4 DEF Rows
<1>16. Written
  <2> SUFFICES ASSUME NEW r \in Readable'
               PROVE  \/ r \in Readable /\ row'[r].kind = row[r].kind
                                        /\ row'[r].value = row[r].value
                      \/ \E t \in KeyServers : row'[r].value.version = loaded[t].current
    BY DEF Written
  <2>1. r \in SealCalls
    BY DEF Readable, Listed, Rows
  <2>2. CASE row'[r] = row[r]
    BY <2>1, <2>2 DEF Readable, Listed, Rows
  <2>3. CASE row'[r].value = better
    BY <1>5, <2>3
  <2> QED BY <1>11, <2>1, <2>2, <2>3
<1>17. NothingLost'
  BY <1>6, <1>16, WrittenKept
<1>18. PassesInv'
  <2> SUFFICES ASSUME NEW t \in KeyServers, UnderWay(t)'
               PROVE  /\ rewrap'[t].current = loaded[t].current
                      /\ rotating /\ rewrap'[t].current = ring.current => AllRestarted
    BY <1>6 DEF PassesInv, AllRestarted
  <2>1. CASE t = s
    BY <1>1, <1>2, <1>9, <1>10, <2>1 DEF PassesInv
  <2>2. CASE t # s
    BY <1>1, <1>10, <2>2 DEF PassesInv, UnderWay
  <2> QED BY <2>1, <2>2
<1>19. ASSUME NEW r \in Readable', Clean(s)', WalkedPast(s, r)'
       PROVE  row'[r].value.version = ring'.current \/ InHand(s, r)'
  <2>1. r \in SealCalls /\ r \in Readable
    BY <1>11 DEF Readable, Listed, Rows, Gone
  <2>2. ~failed /\ Clean(s)
    <3>1. ~failed
      BY <1>9, <1>10, <1>19, Zenon DEF Clean
    <3>2. ~pass.failed
      BY <1>8, <3>1
    <3>3. ~rewrap'[s].cut /\ rewrap'[s].cut = pass.cut
      BY <1>9, <1>10, <1>19, Zenon DEF Clean
    <3>4. ~pass.cut
      BY <3>3, Zenon
    <3>5. rotating /\ pass.current = ring.current
      BY <1>6, <1>9, <1>10, <1>19 DEF Clean
    <3> QED BY <1>2, <3>1, <3>2, <3>4, <3>5 DEF Clean
  <2>3. loaded[s].current = ring.current
    BY <1>1, <1>2, <2>2 DEF PassesInv, Clean
  <2>4. WalkedPast(s, r)
    <3>1. rewrap'[s].full = pass.full /\ rewrap'[s].kind = pass.kind
          /\ rewrap'[s].after = pass.after /\ rewrap'[s].stage = pass.stage
          /\ row'[r].kind = row[r].kind
      BY <1>9, <1>10, <1>11, <2>1
    <3> QED BY <1>19, <3>1, Zenon DEF WalkedPast
  <2>5. row[r].value.version = ring.current \/ InHand(s, r)
    BY <1>1, <2>1, <2>2, <2>4 DEF WalksInv
  <2>6. CASE row'[r] # row[r]
    BY <1>5, <1>6, <1>11, <2>1, <2>3, <2>6
  <2>7. CASE row'[r] = row[r] /\ row[r].value.version = ring.current
    BY <1>6, <2>7
  <2>8. CASE row'[r] = row[r] /\ InHand(s, r)
    <3>1. PICK held \in pass.page : held.id = r /\ held.value = row[r].value
      BY <2>8 DEF InHand
    <3>2. CASE held # rec
      BY <1>9, <1>10, <2>8, <3>1, <3>2 DEF InHand
    <3>3. CASE held = rec
      <4>1. row[rec.id] # Gone
        BY <2>1, <3>1, <3>3 DEF Readable, Listed, Rows, Gone
      <4>2. CASE rec.value.version = loaded[s].current
        BY <1>6, <2>3, <2>8, <3>1, <3>3, <4>2
      <4>3. CASE row' = [row EXCEPT ![rec.id].value = better]
        <5>1. row'[r].value = better
          BY <1>1, <1>3, <2>1, <3>1, <3>3, <4>1, <4>3 DEF SealTypes, SealedRow
        <5> QED BY <1>5, <1>6, <2>3, <5>1
      <4> QED BY <1>8, <2>2, <4>1, <4>2, <4>3
    <3> QED BY <3>2, <3>3
  <2> QED BY <2>5, <2>6, <2>7, <2>8
<1>20. WalksInv'
  <2> SUFFICES ASSUME NEW t \in KeyServers, Clean(t)', NEW r \in Readable', WalkedPast(t, r)'
               PROVE  row'[r].value.version = ring'.current \/ InHand(t, r)'
    BY DEF WalksInv
  <2>1. CASE t = s
    BY <1>19, <2>1
  <2>2. CASE t # s
    BY <1>6, <1>10, <1>16, <2>2, WrittenWalked
  <2> QED BY <2>1, <2>2
<1> QED BY <1>12, <1>13, <1>14, <1>15, <1>17, <1>18, <1>20 DEF SealInv, SealedValuesKept

\* A rotation makes a key no pass aims at and no value is under.
LEMMA RotateStep ==
    ASSUME SealInv, Rotate
    PROVE  SealInv'
<1>1. SealTypes /\ KeysInv /\ PassesInv /\ NothingLost
  BY DEF SealInv, SealedValuesKept
<1>2. Max(ring.keys) = ring.current /\ ring.current \in Nat
  <2>1. ring.keys \in SUBSET Nat /\ ring.current \in ring.keys
    BY <1>1 DEF SealTypes, KeysInv, Keyring
  <2>2. \E x \in ring.keys : \A y \in ring.keys : x >= y
    BY <1>1, <2>1 DEF KeysInv
  <2>3. Max(ring.keys) \in ring.keys /\ \A y \in ring.keys : Max(ring.keys) >= y
    BY <2>2 DEF Max
  <2>4. Max(ring.keys) <= ring.current
    BY <1>1, <2>3 DEF KeysInv
  <2> QED BY <2>1, <2>3, <2>4
<1>3. /\ ring' = [keys |-> ring.keys \cup {ring.current + 1}, current |-> ring.current + 1]
      /\ UNCHANGED <<loaded, row, sealCall, rewrap, newest>> /\ rotating'
  BY <1>2 DEF Rotate
<1>4. ring.keys \in SUBSET Nat /\ ring' \in Keyring
  BY <1>1, <1>2, <1>3 DEF SealTypes, Keyring
<1>5. SealTypes'
  BY <1>1, <1>3, <1>4 DEF SealTypes, Rotate
<1>6. KeysInv'
  BY <1>1, <1>2, <1>3, <1>4 DEF KeysInv
<1>7. \A s \in KeyServers : UnderWay(s) => rewrap[s].current # ring'.current
  BY <1>1, <1>2, <1>3, <1>4 DEF KeysInv, PassesInv
<1>8. PassesInv' /\ WalksInv'
  BY <1>1, <1>3, <1>7 DEF PassesInv, WalksInv, UnderWay, Clean
<1>9. CallsInv' /\ RowKindsInv' /\ NewestIsKept'
  BY <1>3 DEF SealInv, CallsInv, RowKindsInv, SealedBy, SealedValuesKept, NewestIsKept, Rows
<1>10. NothingLost'
  BY <1>1, <1>3 DEF NothingLost, Listed, Rows
<1> QED BY <1>5, <1>6, <1>8, <1>9, <1>10 DEF SealInv, SealedValuesKept

\* A restart drops what the server was doing, and can only bring it up to date.
LEMMA RestartStep ==
    ASSUME SealInv, NEW s \in KeyServers, RestartServer(s)
    PROVE  SealInv'
<1>1. SealTypes /\ KeysInv /\ PassesInv /\ WalksInv /\ CallsInv
  BY DEF SealInv
<1>2. /\ loaded' = [loaded EXCEPT ![s] = ring]
      /\ rewrap' = [rewrap EXCEPT ![s] = NoPass]
      /\ UNCHANGED <<ring, row, rotating, newest>>
  BY DEF RestartServer
<1>3. \A c \in SealCalls :
         \/ sealCall'[c] = sealCall[c] /\ sealCall[c].server # s
         \/ sealCall'[c] = [sealCall[c] EXCEPT !.stage = "done"]
  BY DEF RestartServer
<1>4. sealCall' \in [SealCalls -> [kind : {"before", "resolve", "enrol"},
                                   value : SealedValue \cup {NoValue},
                                   server : KeyServers \cup {"none"},
                                   stage : {"idle", "seal", "write", "done"}]]
  BY <1>1 DEF RestartServer, SealTypes
<1>5. SealTypes'
  BY <1>1, <1>2, <1>4 DEF SealTypes
<1>6. /\ loaded'[s] = ring /\ \A t \in KeyServers \ {s} : loaded'[t] = loaded[t]
      /\ rewrap'[s].stage = "none" /\ \A t \in KeyServers \ {s} : rewrap'[t] = rewrap[t]
  BY <1>1, <1>2 DEF SealTypes, NoPass
<1>7. KeysInv'
  BY <1>1, <1>2, <1>6 DEF KeysInv
<1>8. CallsInv'
  <2> SUFFICES ASSUME NEW c \in SealCalls
               PROVE  /\ sealCall'[c].stage \in {"seal", "write"}
                            => sealCall'[c].server \in KeyServers
                      /\ sealCall'[c].stage = "write"
                            => sealCall'[c].value = SealedBy(sealCall[c].server, c, c)'
    BY DEF CallsInv
  <2>1. CASE sealCall'[c] = sealCall[c] /\ sealCall[c].server # s
    <3>1. sealCall[c].stage \in {"seal", "write"}
            => sealCall[c].server \in KeyServers /\ loaded'[sealCall[c].server]
                                                     = loaded[sealCall[c].server]
      BY <1>1, <1>6, <2>1 DEF CallsInv
    <3> QED BY <1>1, <2>1, <3>1 DEF CallsInv, SealedBy
  <2>2. CASE sealCall'[c] = [sealCall[c] EXCEPT !.stage = "done"]
    BY <1>1, <2>2 DEF SealTypes
  <2> QED BY <1>3, <2>1, <2>2
<1>9. RowKindsInv'
  <2>1. \A c \in SealCalls : sealCall'[c].kind = sealCall[c].kind
    BY <1>1, <1>3 DEF SealTypes
  <2> QED BY <1>2, <2>1 DEF SealInv, RowKindsInv
<1>10. PassesInv'
  BY <1>1, <1>2, <1>6 DEF PassesInv, UnderWay, AllRestarted
<1>11. WalksInv'
  BY <1>1, <1>2, <1>6 DEF WalksInv, UnderWay, Clean, Readable, WalkedPast, InHand, Listed, Rows
<1>12. SealedValuesKept'
  BY <1>2 DEF SealInv, SealedValuesKept, NothingLost, NewestIsKept, Listed, Rows
<1> QED BY <1>5, <1>7, <1>8, <1>9, <1>10, <1>11, <1>12 DEF SealInv

\* On the word of a clean report of the current key, no value is under another.
LEMMA RetireStep ==
    ASSUME SealInv, NEW s \in KeyServers, RetireOld(s)
    PROVE  SealInv'
<1>1. SealTypes /\ KeysInv /\ PassesInv /\ WalksInv
  BY DEF SealInv
<1>2. /\ ring' = [ring EXCEPT !.keys = {ring.current}]
      /\ rewrap' = [rewrap EXCEPT ![s] = NoPass]
      /\ rotating' = FALSE
      /\ UNCHANGED <<loaded, row, sealCall, newest>>
  BY DEF RetireOld
<1>3. Clean(s) /\ rewrap[s].stage = "reported"
  BY DEF RetireOld, Clean, UnderWay
<1>4. AllRestarted
  BY <1>1, <1>3 DEF PassesInv, Clean
<1>5. ring.current \in Nat /\ ring' \in Keyring /\ ring'.keys = {ring.current}
      /\ ring'.current = ring.current
  BY <1>1, <1>2 DEF SealTypes, Keyring
<1>6. SealTypes'
  BY <1>1, <1>2, <1>5 DEF SealTypes
<1>7. KeysInv'
  BY <1>2, <1>4, <1>5 DEF KeysInv, AllRestarted
<1>8. \A t \in KeyServers : rewrap'[t].stage # "none" => rewrap'[t] = rewrap[t]
  BY <1>1, <1>2 DEF SealTypes, NoPass
<1>9. PassesInv' /\ WalksInv'
  BY <1>1, <1>2, <1>8 DEF PassesInv, UnderWay, WalksInv, Clean
<1>10. CallsInv' /\ RowKindsInv' /\ NewestIsKept'
  BY <1>2 DEF SealInv, CallsInv, RowKindsInv, SealedBy, SealedValuesKept, NewestIsKept, Rows
<1>11. NothingLost'
  <2> SUFFICES ASSUME NEW r \in Readable PROVE row[r].value.version = ring.current
    BY <1>2, <1>5 DEF NothingLost, Readable, Listed, Rows
  <2> QED BY <1>1, <1>3 DEF WalksInv, WalkedPast, InHand
<1> QED BY <1>6, <1>7, <1>9, <1>10, <1>11 DEF SealInv, SealedValuesKept

\* Everything starts under the one key there is.
LEMMA SealingStarts ==
    ASSUME SealingInit
    PROVE  SealInv
<1>1. PICK mix \in SealMixes :
        /\ sealCall = [c \in SealCalls |->
                         [kind |-> mix[c], value |-> NoValue, server |-> "none",
                          stage |-> IF mix[c] = "before" THEN "done" ELSE "idle"]]
        /\ row = [c \in SealCalls |-> IF mix[c] # "before" THEN Gone
                                      ELSE [kind |-> "secret", state |-> "live",
                                            value |-> Legacy(c)]]
  BY DEF SealingInit
<1>2. /\ ring = [keys |-> {1}, current |-> 1] /\ loaded = [s \in KeyServers |-> ring]
      /\ rewrap = [s \in KeyServers |-> NoPass] /\ rotating = FALSE
      /\ newest = [c \in SealCalls |-> c]
  BY DEF SealingInit
<1>3. \A c \in SealCalls : mix[c] \in {"before", "resolve", "enrol"}
  BY <1>1, SealingAssumption
<1>4. \A c \in SealCalls : Legacy(c) \in SealedValue
  BY SealingAssumption DEF Legacy, SealedValue
<1>5. SealTypes
  <2>1. ring \in Keyring /\ loaded \in [KeyServers -> Keyring]
    BY <1>2 DEF Keyring
  <2>2. row \in [SealCalls -> SealedRow \cup {Gone}]
    BY <1>1, <1>4 DEF SealedRow
  <2>3. sealCall \in [SealCalls -> [kind : {"before", "resolve", "enrol"},
                                   value : SealedValue \cup {NoValue},
                                   server : KeyServers \cup {"none"},
                                   stage : {"idle", "seal", "write", "done"}]]
    BY <1>1, <1>3
  <2> QED BY <1>2, <2>1, <2>2, <2>3 DEF SealTypes
<1>6. KeysInv /\ CallsInv /\ RowKindsInv
  BY <1>1, <1>2 DEF KeysInv, CallsInv, RowKindsInv, Gone
<1>7. PassesInv /\ WalksInv
  BY <1>2 DEF PassesInv, WalksInv, Clean, UnderWay, NoPass
<1>8. SealedValuesKept
  BY <1>1, <1>2 DEF SealedValuesKept, NothingLost, NewestIsKept, Listed, Rows, Legacy, Gone
<1> QED BY <1>5, <1>6, <1>7, <1>8 DEF SealInv

LEMMA SealingSteps ==
    ASSUME SealInv, [SealingNext]_sealVars
    PROVE  SealInv'
<1>1. CASE UNCHANGED sealVars
  BY <1>1 DEF sealVars, SealInv, SealTypes, KeysInv, CallsInv, RowKindsInv, PassesInv, UnderWay,
       AllRestarted, WalksInv, Clean, Readable, WalkedPast, InHand, SealedBy,
       SealedValuesKept, NothingLost, NewestIsKept, Listed, Rows
<1>2. CASE \E c \in SealCalls :
             \/ SealRef(c) \/ UpsertSubject(c) \/ CreateSealed(c)
             \/ RevokeSecret(c) \/ DeleteSubject(c) \/ RestoreSubject(c) \/ PurgeSubject(c)
             \/ \E s \in KeyServers : LookUpRef(c, s) \/ SealSecret(c, s)
  <2>1. PICK c \in SealCalls :
             \/ SealRef(c) \/ UpsertSubject(c) \/ CreateSealed(c)
             \/ RevokeSecret(c) \/ DeleteSubject(c) \/ RestoreSubject(c) \/ PurgeSubject(c)
             \/ \E s \in KeyServers : LookUpRef(c, s) \/ SealSecret(c, s)
    BY <1>2
  <2>2. CASE SealRef(c)
    <3>1. sealCall[c].server \in KeyServers
      BY <2>2 DEF SealRef, SealInv, CallsInv
    <3> QED BY <2>2, <3>1, CallStep
  <2>3. CASE \E s \in KeyServers : LookUpRef(c, s) \/ SealSecret(c, s)
    BY <2>3, CallStep
  <2>4. CASE UpsertSubject(c)
    BY <2>4, UpsertStep
  <2>5. CASE CreateSealed(c)
    BY <2>5, CreateStep
  <2>6. CASE RevokeSecret(c) \/ DeleteSubject(c) \/ RestoreSubject(c)
    BY <2>6, StateStep
  <2>7. CASE PurgeSubject(c)
    BY <2>7, PurgeStep
  <2> QED BY <2>1, <2>2, <2>3, <2>4, <2>5, <2>6, <2>7
<1>3. CASE \E s \in KeyServers :
             \/ BeginPass(s) \/ ListSealed(s) \/ NextPage(s) \/ CutShort(s)
             \/ \E rec \in (IF rewrap[s].stage = "each" THEN rewrap[s].page ELSE {}) :
                   RewrapOne(s, rec)
             \/ RestartServer(s) \/ RetireOld(s)
  <2>1. PICK s \in KeyServers :
             \/ BeginPass(s) \/ ListSealed(s) \/ NextPage(s) \/ CutShort(s)
             \/ \E rec \in (IF rewrap[s].stage = "each" THEN rewrap[s].page ELSE {}) :
                   RewrapOne(s, rec)
             \/ RestartServer(s) \/ RetireOld(s)
    BY <1>3
  <2>2. CASE \E rec \in (IF rewrap[s].stage = "each" THEN rewrap[s].page ELSE {}) :
               RewrapOne(s, rec)
    BY <2>2, RewrapStep
  <2> QED BY <2>1, <2>2, BeginStep, ListStep, NextPageStep, CutStep, RestartStep, RetireStep
<1>4. CASE Rotate
  BY <1>4, RotateStep
<1> QED BY <1>1, <1>2, <1>3, <1>4 DEF SealingNext

\* A rotation of the key encryption key loses no value and reverts none, however many
\* rotations there are, pages of any size, passes by several servers at once and
\* requests between any two of their steps.
THEOREM RotationsLoseNothing == SealingSpec => []SealedValuesKept
<1>1. SealInv => SealedValuesKept
  BY DEF SealInv
<1> QED BY <1>1, SealingStarts, SealingSteps, PTL DEF SealingSpec

-----------------------------------------------------------------------------
(* The keys of the assertions: the inductive invariant.                    *)

Moment == Nat \cup {Never}

Token == [kid : Kids, exp : Nat]

Waiting == [stage : {"waiting"}, token : Token]

Fetching == [stage : {"fetching"}, token : Token, now : Nat, fresh : BOOLEAN]

Answered == [stage : {"answered"}, token : Token, now : Nat, fresh : BOOLEAN,
             keys : SUBSET Kids]

AnswerGiven == [stage : {"replied"}, token : Token, at : Nat,
                answer : {"accepted", "refused", "unknown", "unavailable"}]

\* Every variable keeps its type.
AssertionTypes ==
    /\ keyTime \in Nat
    /\ keyFile \in Kids \ {0} /\ kept \in SUBSET Kids /\ leaked \in SUBSET Kids
    /\ issuer \in [signs : Kids, publishes : SUBSET Kids]
    /\ cache \in [keys : SUBSET Kids, at : Moment]
    /\ notBefore \in Nat
    /\ check \in [Checks -> {Idle} \cup Waiting \cup Fetching \cup Answered \cup AnswerGiven]
    /\ published \in [Kids -> Moment]
    /\ withdrawn \in [Kids -> Moment]
    /\ stopped \in [Kids -> Moment]
    /\ fetched \in [lapsed : Moment, provoked : Moment, early : SUBSET {"lapsed", "provoked"}]

\* A key that has stopped signing or left the document is older than the one in use, one
\* published is in the document or withdrawn, and one withdrawn while it was the server's
\* alone had long stopped signing.
DocumentInv ==
    /\ issuer.signs \in issuer.publishes /\ issuer.signs <= keyFile
    /\ \A k \in Kids :
          /\ published[k] <= keyTime /\ withdrawn[k] <= keyTime /\ stopped[k] <= keyTime
          /\ k \in issuer.publishes =>
               published[k] # Never /\ withdrawn[k] = Never /\ k <= keyFile
          /\ published[k] # Never => k \in issuer.publishes \/ withdrawn[k] # Never
          /\ stopped[k] # Never => k < issuer.signs
          /\ withdrawn[k] # Never =>
               /\ k < keyFile
               /\ \/ k \in leaked
                  \/ stopped[k] # Never /\ withdrawn[k] > stopped[k] + Changeover

\* An assertion presented was signed under a published key that had not stopped by then.
TokenGood(c) ==
    check[c].stage # "idle" =>
        LET token == check[c].token
        IN  Genuine(token) /\ token.kid \notin leaked =>
               /\ published[token.kid] # Never
               /\ IF stopped[token.kid] = Never THEN token.exp <= keyTime + AssertionTTL
                  ELSE token.exp <= stopped[token.kid] + AssertionTTL

\* The document as it was at some instant since this one: a key not in it has been
\* published or withdrawn since or before, a key in it was not withdrawn before.
SeenSince(keys, instant) ==
    \A k \in Kids :
        /\ k \in keys /\ withdrawn[k] # Never => withdrawn[k] >= instant
        /\ k \notin keys /\ published[k] # Never =>
              published[k] >= instant \/ withdrawn[k] # Never

CacheInv ==
    cache.at # Never => cache.at <= keyTime /\ SeenSince(cache.keys, cache.at)

\* A goroutine fetches only when it may, and without a cache that is good for what it
\* wants.
HolderGood(c) ==
    Holder(c) =>
        /\ notBefore <= check[c].now /\ check[c].now <= keyTime
        /\ keyTime <= check[c].now + FetchTimeout
        /\ cache.at <= check[c].now
        /\ check[c].fresh = FALSE /\ cache.at # Never => check[c].now >= cache.at + CacheTTL

\* What it was answered is at most as old as its request.
AnswerGood(c) ==
    check[c].stage = "answered" =>
        /\ SeenSince(check[c].keys, check[c].now)
        /\ LET token == check[c].token
           IN  Genuine(token) /\ token.kid \notin leaked /\ token.kid \notin check[c].keys
                  => withdrawn[token.kid] # Never

\* The replies of this instant are as the properties want them.
ReplyGood(c) ==
    check[c].stage = "replied" =>
        LET token == check[c].token
        IN  /\ check[c].at = keyTime
            /\ check[c].answer = "accepted" /\ withdrawn[token.kid] # Never =>
                  keyTime < withdrawn[token.kid] + CacheTTL
            /\ /\ check[c].answer = "unknown"
               /\ Genuine(token) /\ token.kid \notin leaked /\ Current(token)
               => /\ keyTime < notBefore
                  /\ keyTime < published[token.kid] + MinGap \/ HeldByFailure

ChecksInv ==
    /\ \A c, d \in Checks : Holder(c) /\ Holder(d) => c = d
    /\ \A c \in Checks : TokenGood(c) /\ HolderGood(c) /\ AnswerGood(c) /\ ReplyGood(c)

\* The spacing of the fetches.
SpacingInv ==
    /\ fetched.early = {}
    /\ fetched.lapsed <= cache.at
    /\ fetched.provoked # Never => fetched.provoked + MinGap <= notBefore

KeysSound ==
    /\ AssertionTypes
    /\ DocumentInv
    /\ CacheInv
    /\ ChecksInv
    /\ SpacingInv

-----------------------------------------------------------------------------
(* What a verification holds at each stage.                                *)

CheckStates == {Idle} \cup Waiting \cup Fetching \cup Answered \cup AnswerGiven

LEMMA StageIs ==
    ASSUME AssertionTypes, NEW c \in Checks
    PROVE  /\ check[c].stage = "waiting" => check[c] \in Waiting
           /\ check[c].stage = "fetching" => check[c] \in Fetching
           /\ check[c].stage = "answered" => check[c] \in Answered
           /\ check[c].stage = "replied" => check[c] \in AnswerGiven
           /\ check[c].stage # "idle" => check[c].token \in Token
           /\ Holder(c) => check[c].now \in Nat /\ check[c].fresh \in BOOLEAN
<1>1. check[c] \in CheckStates
  BY DEF AssertionTypes, CheckStates
<1> QED BY <1>1 DEF CheckStates, Idle, Waiting, Fetching, Answered, AnswerGiven, Holder

\* Times, the clock's and the recorded ones, are integers.
LEMMA MomentsAre ==
    ASSUME AssertionTypes
    PROVE  /\ \A k \in Kids : published[k] \in Moment /\ withdrawn[k] \in Moment
                              /\ stopped[k] \in Moment
           /\ cache.at \in Moment /\ cache.keys \in SUBSET Kids
           /\ fetched.lapsed \in Moment /\ fetched.provoked \in Moment
           /\ keyTime \in Nat /\ notBefore \in Nat
           /\ issuer.signs \in Kids /\ issuer.publishes \in SUBSET Kids
BY DEF AssertionTypes

\* An assertion that has not expired was not signed under a key that has been withdrawn.
LEMMA CurrentIsListed ==
    ASSUME KeysSound, NEW c \in Checks, check[c].stage # "idle",
           Genuine(check[c].token), check[c].token.kid \notin leaked, Current(check[c].token)
    PROVE  /\ withdrawn[check[c].token.kid] = Never
           /\ published[check[c].token.kid] # Never
<1> DEFINE token == check[c].token
           kid == token.kid
<1>1. AssertionTypes /\ DocumentInv /\ TokenGood(c)
  BY DEF KeysSound, ChecksInv
<1>2. token \in Token /\ kid \in Kids /\ token.exp \in Nat
  BY <1>1, StageIs DEF Token
<1>3. withdrawn[kid] \in Moment /\ stopped[kid] \in Moment /\ keyTime \in Nat
  BY <1>1, <1>2, MomentsAre
<1>4. published[kid] # Never
  BY <1>1 DEF TokenGood
<1>5. ASSUME withdrawn[kid] # Never PROVE FALSE
  <2>1. stopped[kid] # Never /\ withdrawn[kid] > stopped[kid] + Changeover
        /\ withdrawn[kid] <= keyTime
    BY <1>1, <1>2, <1>5 DEF DocumentInv
  <2>2. token.exp <= stopped[kid] + AssertionTTL
    BY <1>1, <2>1 DEF TokenGood
  <2>3. keyTime <= token.exp + AssertionSkew
    BY DEF Current
  <2> HIDE DEF kid, token
  <2> QED BY <1>2, <1>3, <2>1, <2>2, <2>3, AssertionsAssumption
          DEF Changeover, Moment, Never
<1> QED BY <1>4, <1>5

-----------------------------------------------------------------------------
(* The steps of the verifier.                                              *)

\* A step of one goroutine that leaves the cache alone.
LEMMA CheckStep ==
    ASSUME KeysSound, NEW c \in Checks, NEW next \in CheckStates,
           check' = [check EXCEPT ![c] = next],
           UNCHANGED <<keyTime, cache, notBefore, fetched>>, UNCHANGED ServerSide,
           (TokenGood(c) /\ HolderGood(c) /\ AnswerGood(c) /\ ReplyGood(c))',
           Holder(c)' => Holder(c) \/ \A d \in Checks : ~Holder(d)
    PROVE  KeysSound'
<1>1. AssertionTypes /\ DocumentInv /\ CacheInv /\ ChecksInv /\ SpacingInv
  BY DEF KeysSound
<1>2. UNCHANGED <<keyFile, kept, leaked, issuer, published, withdrawn, stopped>>
  BY DEF ServerSide
<1>3. \A d \in Checks \ {c} : check'[d] = check[d]
  BY <1>1 DEF AssertionTypes
<1>4. AssertionTypes'
  BY <1>1, <1>2 DEF AssertionTypes, CheckStates
<1>5. DocumentInv' /\ CacheInv' /\ SpacingInv'
  BY <1>1, <1>2 DEF DocumentInv, CacheInv, SpacingInv, SeenSince
<1>6. \A d \in Checks : (TokenGood(d) /\ HolderGood(d) /\ AnswerGood(d) /\ ReplyGood(d))'
  <2> SUFFICES ASSUME NEW d \in Checks \ {c}
               PROVE  (TokenGood(d) /\ HolderGood(d) /\ AnswerGood(d) /\ ReplyGood(d))'
    OBVIOUS
  <2> QED BY <1>1, <1>2, <1>3 DEF ChecksInv, TokenGood, HolderGood, Holder, AnswerGood,
             ReplyGood, SeenSince, Genuine, Current, HeldByFailure
<1>7. \A d, e \in Checks : Holder(d)' /\ Holder(e)' => d = e
  BY <1>1, <1>3 DEF ChecksInv, Holder
<1> QED BY <1>4, <1>5, <1>6, <1>7 DEF KeysSound, ChecksInv

\* The end of a fetch: nobody else fetches, and no reply of this instant waits on it.
LEMMA FetchEnds ==
    ASSUME KeysSound, NEW c \in Checks, Holder(c), NEW next \in AnswerGiven,
           check' = [check EXCEPT ![c] = next], next.token = check[c].token,
           UNCHANGED keyTime, UNCHANGED ServerSide, ReplyGood(c)',
           cache' \in [keys : SUBSET Kids, at : Moment], notBefore' \in Nat,
           fetched' \in [lapsed : Moment, provoked : Moment, early : SUBSET {"lapsed", "provoked"}],
           CacheInv', SpacingInv'
    PROVE  KeysSound'
<1>1. AssertionTypes /\ DocumentInv /\ ChecksInv
  BY DEF KeysSound
<1>2. UNCHANGED <<keyFile, kept, leaked, issuer, published, withdrawn, stopped>>
  BY DEF ServerSide
<1>3. check'[c] = next /\ \A d \in Checks \ {c} : check'[d] = check[d]
  BY <1>1 DEF AssertionTypes
<1>4. AssertionTypes'
  BY <1>1, <1>2 DEF AssertionTypes
<1>5. DocumentInv'
  BY <1>1, <1>2 DEF DocumentInv
<1>6. \A d \in Checks : ~Holder(d)'
  BY <1>1, <1>3 DEF ChecksInv, Holder, AnswerGiven
<1>7. notBefore <= keyTime
  <2>1. notBefore <= check[c].now /\ check[c].now <= keyTime
    BY <1>1 DEF ChecksInv, HolderGood
  <2>2. check[c].now \in Nat /\ keyTime \in Nat /\ notBefore \in Nat
    BY <1>1, StageIs, MomentsAre
  <2> QED BY <2>1, <2>2
<1>8. TokenGood(c)'
  BY <1>1, <1>2, <1>3 DEF ChecksInv, TokenGood, Holder, AnswerGiven, Genuine
<1>9. \A d \in Checks : (TokenGood(d) /\ HolderGood(d) /\ AnswerGood(d) /\ ReplyGood(d))'
  <2> SUFFICES ASSUME NEW d \in Checks
               PROVE  (TokenGood(d) /\ HolderGood(d) /\ AnswerGood(d) /\ ReplyGood(d))'
    OBVIOUS
  <2>1. HolderGood(d)' /\ AnswerGood(d)'
    BY <1>6 DEF HolderGood, AnswerGood, Holder
  <2>2. CASE d = c
    BY <1>8, <2>1, <2>2
  <2>3. CASE d # c
    <3>1. check'[d] = check[d]
      BY <1>3, <2>3
    <3>2. TokenGood(d)'
      BY <1>1, <1>2, <3>1 DEF ChecksInv, TokenGood, Genuine
    <3>3. ~(keyTime < notBefore)
      BY <1>1, <1>7, MomentsAre
    <3>4. ReplyGood(d)'
      BY <1>1, <1>2, <3>1, <3>3 DEF ChecksInv, ReplyGood, Genuine, Current
    <3> QED BY <2>1, <3>2, <3>4
  <2> QED BY <2>2, <2>3
<1> QED BY <1>4, <1>5, <1>6, <1>9 DEF KeysSound, ChecksInv

\* An assertion is presented: found in the cache, or not.
LEMMA PresentStep ==
    ASSUME KeysSound, NEW c \in Checks, NEW token \in Issued \cup {[kid |-> 0, exp |-> 0]},
           Present(c, token)
    PROVE  KeysSound'
<1> DEFINE hit == Fresh /\ token.kid \in cache.keys
           next == IF hit THEN [stage |-> "replied", token |-> token, answer |-> Verdict(token),
                                at |-> keyTime]
                   ELSE [stage |-> "waiting", token |-> token]
<1>1. AssertionTypes /\ DocumentInv /\ CacheInv
  BY DEF KeysSound
<1>2. UNCHANGED <<keyTime, cache, notBefore, fetched>> /\ UNCHANGED ServerSide
      /\ UNCHANGED <<leaked, published, withdrawn, stopped>>
  BY DEF Present, ServerSide
<1>3. check' = [check EXCEPT ![c] = next]
  BY DEF Present
<1>4. token \in Token
  <2>1. keyTime \in Nat
    BY <1>1, MomentsAre
  <2>2. 0 \in Kids
    BY AssertionsAssumption DEF Kids
  <2> QED BY <2>1, <2>2, AssertionsAssumption DEF Token, Issued
<1>5. check'[c] = next
  BY <1>1, <1>3 DEF AssertionTypes
<1>6. next \in CheckStates
  <2>1. keyTime \in Nat /\ Verdict(token) \in {"accepted", "refused"}
    BY <1>1, MomentsAre DEF Verdict
  <2> QED BY <1>4, <2>1 DEF CheckStates, Waiting, AnswerGiven
<1>7. check'[c].token = token /\ check'[c].stage \in {"waiting", "replied"}
  BY <1>5
<1>8. Genuine(token) /\ token.kid \notin leaked =>
        /\ published[token.kid] # Never
        /\ IF stopped[token.kid] = Never THEN token.exp <= keyTime + AssertionTTL
           ELSE token.exp <= stopped[token.kid] + AssertionTTL
  <2> SUFFICES ASSUME Genuine(token), token.kid \notin leaked
               PROVE  /\ published[token.kid] # Never
                      /\ IF stopped[token.kid] = Never
                         THEN token.exp <= keyTime + AssertionTTL
                         ELSE token.exp <= stopped[token.kid] + AssertionTTL
    OBVIOUS
  <2>1. token \in Issued
    BY DEF Genuine
  <2>2. /\ published[token.kid] # Never
        /\ stopped[token.kid] # Never => token.exp - AssertionTTL <= stopped[token.kid]
        /\ token.exp <= keyTime + AssertionTTL
    BY <1>1, <2>1, MomentsAre, AssertionsAssumption DEF Issued
  <2>3. stopped[token.kid] \in Moment /\ token.exp \in Nat
    BY <1>1, <1>4, MomentsAre DEF Token
  <2> QED BY <2>2, <2>3, AssertionsAssumption DEF Moment, Never
<1>9. TokenGood(c)'
  BY <1>2, <1>7, <1>8 DEF TokenGood, Genuine
<1>10. HolderGood(c)' /\ AnswerGood(c)' /\ ~Holder(c)'
  BY <1>7 DEF HolderGood, AnswerGood, Holder
<1>11. ReplyGood(c)'
  <2> SUFFICES ASSUME check'[c].stage = "replied"
               PROVE  /\ check'[c].at = keyTime /\ check'[c].answer # "unknown"
                      /\ withdrawn[token.kid] # Never => keyTime < withdrawn[token.kid] + CacheTTL
    BY <1>2, <1>7 DEF ReplyGood
  <2>1. hit /\ check'[c].at = keyTime /\ check'[c].answer \in {"accepted", "refused"}
    BY <1>5 DEF Verdict
  <2>2. withdrawn[token.kid] # Never => withdrawn[token.kid] >= cache.at
    BY <1>1, <1>4, <2>1 DEF CacheInv, SeenSince, Fresh, Token
  <2>3. keyTime - cache.at < CacheTTL /\ cache.at # Never
    BY <2>1 DEF Fresh
  <2>4. withdrawn[token.kid] \in Moment /\ cache.at \in Moment /\ keyTime \in Nat
    BY <1>1, <1>4, MomentsAre DEF Token
  <2> QED BY <2>1, <2>2, <2>3, <2>4, AssertionsAssumption DEF Moment, Never
<1> HIDE DEF next, hit
<1> QED BY <1>2, <1>3, <1>6, <1>9, <1>10, <1>11, CheckStep

\* Under the lock: a second look at the cache, then a refusal or a request.
LEMMA LookupStep ==
    ASSUME KeysSound, NEW c \in Checks, Lookup(c)
    PROVE  KeysSound'
<1> DEFINE token == check[c].token
           kid == token.kid
<1>1. AssertionTypes /\ DocumentInv /\ CacheInv /\ ChecksInv
  BY DEF KeysSound
<1>2. UNCHANGED <<keyTime, cache, notBefore, fetched>> /\ UNCHANGED ServerSide
      /\ UNCHANGED <<leaked, published, withdrawn, stopped>>
  BY DEF Lookup, ServerSide
<1>3. check[c].stage = "waiting" /\ \A d \in Checks : ~Holder(d)
  BY DEF Lookup
<1>4. token \in Token /\ kid \in Kids
  BY <1>1, <1>3, StageIs DEF Token
<1>5. keyTime \in Nat /\ notBefore \in Nat /\ cache.at \in Moment
      /\ withdrawn[kid] \in Moment /\ published[kid] \in Moment
  BY <1>1, <1>4, MomentsAre
<1>6. CASE Fresh /\ kid \in cache.keys
  <2> DEFINE next == [stage |-> "replied", token |-> token, answer |-> Verdict(token),
                      at |-> keyTime]
  <2>1. check' = [check EXCEPT ![c] = next]
    BY <1>6 DEF Lookup, Reply
  <2>2. check'[c] = next
    BY <1>1, <2>1 DEF AssertionTypes
  <2>3. next \in AnswerGiven /\ next.answer \in {"accepted", "refused"}
    BY <1>4, <1>5 DEF AnswerGiven, Verdict
  <2>4. next.token = token /\ next.stage = "replied" /\ next.at = keyTime
    OBVIOUS
  <2> HIDE DEF next
  <2>5. TokenGood(c)'
    BY <1>1, <1>2, <1>3, <2>2, <2>4 DEF ChecksInv, TokenGood, Genuine
  <2>6. HolderGood(c)' /\ AnswerGood(c)' /\ ~Holder(c)'
    BY <2>2, <2>4 DEF HolderGood, AnswerGood, Holder
  <2>7. withdrawn[kid] # Never => withdrawn[kid] >= cache.at
    BY <1>1, <1>4, <1>6 DEF CacheInv, SeenSince, Fresh
  <2>8. keyTime - cache.at < CacheTTL /\ cache.at # Never
    BY <1>6 DEF Fresh
  <2>9. withdrawn[kid] # Never => keyTime < withdrawn[kid] + CacheTTL
    BY <1>5, <2>7, <2>8, AssertionsAssumption DEF Moment, Never
  <2>10. ReplyGood(c)'
    BY <1>2, <2>2, <2>3, <2>4, <2>9 DEF ReplyGood
  <2> QED BY <1>2, <2>1, <2>3, <2>5, <2>6, <2>10, CheckStep DEF CheckStates
<1>7. CASE ~(Fresh /\ kid \in cache.keys) /\ keyTime < notBefore
  <2> DEFINE next == [stage |-> "replied", token |-> token,
                      answer |-> IF Fresh THEN "unknown" ELSE "unavailable", at |-> keyTime]
  <2>1. check' = [check EXCEPT ![c] = next]
    BY <1>7 DEF Lookup, Reply
  <2>2. check'[c] = next
    BY <1>1, <2>1 DEF AssertionTypes
  <2>3. next \in AnswerGiven /\ next.answer # "accepted"
    BY <1>4, <1>5 DEF AnswerGiven
  <2>4. next.token = token /\ next.stage = "replied" /\ next.at = keyTime
        /\ (next.answer = "unknown" => Fresh)
    OBVIOUS
  <2> HIDE DEF next
  <2>5. TokenGood(c)'
    BY <1>1, <1>2, <1>3, <2>2, <2>4 DEF ChecksInv, TokenGood, Genuine
  <2>6. HolderGood(c)' /\ AnswerGood(c)' /\ ~Holder(c)'
    BY <2>2, <2>4 DEF HolderGood, AnswerGood, Holder
  <2>7. ASSUME next.answer = "unknown", Genuine(token), kid \notin leaked, Current(token)
        PROVE  keyTime < published[kid] + MinGap \/ HeldByFailure
    <3>1. withdrawn[kid] = Never /\ published[kid] # Never
      BY <1>3, <2>7, CurrentIsListed
    <3>2. cache.at # Never /\ kid \notin cache.keys
      BY <1>7, <2>4, <2>7 DEF Fresh
    <3>3. published[kid] >= cache.at
      BY <1>1, <1>4, <3>1, <3>2 DEF CacheInv, SeenSince
    <3>4. notBefore = cache.at + MinGap => keyTime < published[kid] + MinGap
      BY <1>5, <1>7, <3>1, <3>2, <3>3, AssertionsAssumption DEF Moment, Never
    <3> QED BY <3>4 DEF HeldByFailure
  <2>8. ReplyGood(c)'
    BY <1>2, <1>7, <2>2, <2>3, <2>4, <2>7 DEF ReplyGood, Genuine, Current, HeldByFailure
  <2> QED BY <1>2, <2>1, <2>3, <2>5, <2>6, <2>8, CheckStep DEF CheckStates
<1>8. CASE ~(Fresh /\ kid \in cache.keys) /\ ~(keyTime < notBefore)
  <2> DEFINE next == [stage |-> "fetching", token |-> token, now |-> keyTime, fresh |-> Fresh]
  <2>1. check' = [check EXCEPT ![c] = next]
    BY <1>8 DEF Lookup
  <2>2. check'[c] = next
    BY <1>1, <2>1 DEF AssertionTypes
  <2>3. next \in Fetching
    BY <1>4, <1>5 DEF Fetching, Fresh
  <2>4. next.token = token /\ next.stage = "fetching" /\ next.now = keyTime
    OBVIOUS
  <2>5. next.fresh = FALSE => ~Fresh
    OBVIOUS
  <2> HIDE DEF next
  <2>6. TokenGood(c)'
    BY <1>1, <1>2, <1>3, <2>2, <2>4 DEF ChecksInv, TokenGood, Genuine
  <2>7. AnswerGood(c)' /\ ReplyGood(c)'
    BY <2>2, <2>4 DEF AnswerGood, ReplyGood
  <2>8. cache.at <= keyTime
    BY <1>1, <1>5 DEF CacheInv, Never
  <2>9. next.fresh = FALSE /\ cache.at # Never => keyTime >= cache.at + CacheTTL
    BY <1>5, <2>5, AssertionsAssumption DEF Fresh, Moment, Never
  <2>10. HolderGood(c)'
    BY <1>2, <1>5, <1>8, <2>2, <2>4, <2>8, <2>9, AssertionsAssumption DEF HolderGood
  <2> QED BY <1>2, <1>3, <2>1, <2>3, <2>6, <2>7, <2>10, CheckStep DEF CheckStates
<1> QED BY <1>6, <1>7, <1>8

\* The endpoint answers with the document of the moment.
LEMMA ServeStep ==
    ASSUME KeysSound, NEW c \in Checks, ServeJWKS(c)
    PROVE  KeysSound'
<1> DEFINE token == check[c].token
           next == [stage |-> "answered", token |-> token, now |-> check[c].now,
                    fresh |-> check[c].fresh, keys |-> issuer.publishes]
<1>1. AssertionTypes /\ DocumentInv /\ ChecksInv
  BY DEF KeysSound
<1>2. UNCHANGED <<keyTime, cache, notBefore, fetched>> /\ UNCHANGED ServerSide
      /\ UNCHANGED <<leaked, published, withdrawn, stopped>>
  BY DEF ServeJWKS, ServerSide
<1>3. check[c].stage = "fetching" /\ Holder(c) /\ check[c] \in Fetching
  BY <1>1, StageIs DEF ServeJWKS, Holder
<1>4. check' = [check EXCEPT ![c] = next]
  BY DEF ServeJWKS
<1>5. check'[c] = next
  BY <1>1, <1>4 DEF AssertionTypes
<1>6. next \in Answered
  BY <1>1, <1>3, MomentsAre DEF Fetching, Answered
<1>7. /\ next.token = token /\ next.stage = "answered" /\ next.now = check[c].now
      /\ next.fresh = check[c].fresh /\ next.keys = issuer.publishes
  OBVIOUS
<1> HIDE DEF next
<1>8. TokenGood(c)'
  BY <1>1, <1>2, <1>3, <1>5, <1>7 DEF ChecksInv, TokenGood, Genuine
<1>9. HolderGood(c)'
  BY <1>1, <1>2, <1>3, <1>5, <1>7 DEF ChecksInv, HolderGood, Holder
<1>10. ReplyGood(c)'
  BY <1>5, <1>7 DEF ReplyGood
<1>11. SeenSince(issuer.publishes, check[c].now)
  BY <1>1 DEF DocumentInv, SeenSince
<1>12. Genuine(token) /\ token.kid \notin leaked /\ token.kid \notin issuer.publishes
         => withdrawn[token.kid] # Never
  <2>1. token.kid \in Kids
    BY <1>3 DEF Fetching, Token
  <2> QED BY <1>1, <1>3, <2>1 DEF DocumentInv, ChecksInv, TokenGood
<1>13. AnswerGood(c)'
  BY <1>2, <1>5, <1>7, <1>11, <1>12 DEF AnswerGood, SeenSince, Genuine
<1> QED BY <1>2, <1>3, <1>4, <1>6, <1>8, <1>9, <1>10, <1>13, CheckStep DEF CheckStates

\* The document arrives: the cache is what it was at some instant since the request.
LEMMA InstallStep ==
    ASSUME KeysSound, NEW c \in Checks, Install(c)
    PROVE  KeysSound'
<1> DEFINE p == check[c]
           token == p.token
           kind == IF p.fresh THEN "provoked" ELSE "lapsed"
           next == [stage |-> "replied", token |-> token, at |-> keyTime,
                    answer |-> IF token.kid \in p.keys THEN Verdict(token) ELSE "unknown"]
<1>1. AssertionTypes /\ DocumentInv /\ CacheInv /\ ChecksInv /\ SpacingInv
  BY DEF KeysSound
<1>2. UNCHANGED keyTime /\ UNCHANGED ServerSide
      /\ UNCHANGED <<leaked, published, withdrawn, stopped>>
  BY DEF Install, ServerSide
<1>3. p.stage = "answered" /\ Holder(c) /\ p \in Answered
  BY <1>1, StageIs DEF Install, Holder
<1>4. token \in Token /\ token.kid \in Kids /\ p.now \in Nat /\ p.fresh \in BOOLEAN
      /\ p.keys \in SUBSET Kids
  BY <1>3 DEF Answered, Token
<1>5. /\ notBefore' = IF p.fresh THEN p.now + MinGap ELSE notBefore
      /\ cache' = [keys |-> p.keys, at |-> p.now]
      /\ fetched' = Noted(kind, p.now)
      /\ check' = [check EXCEPT ![c] = next]
  BY DEF Install, Reply
<1>6. check'[c] = next
  BY <1>1, <1>5 DEF AssertionTypes
<1>7. keyTime \in Nat /\ notBefore \in Nat /\ cache.at \in Moment /\ fetched.lapsed \in Moment
      /\ fetched.provoked \in Moment /\ withdrawn[token.kid] \in Moment
  BY <1>1, <1>4, MomentsAre
<1>8. /\ notBefore <= p.now /\ p.now <= keyTime /\ keyTime <= p.now + FetchTimeout
      /\ cache.at <= p.now
      /\ p.fresh = FALSE /\ cache.at # Never => p.now >= cache.at + CacheTTL
      /\ SeenSince(p.keys, p.now)
  BY <1>1, <1>3 DEF ChecksInv, HolderGood, AnswerGood
<1>9. cache'.keys = p.keys /\ cache'.at = p.now
      /\ cache' \in [keys : SUBSET Kids, at : Moment] /\ notBefore' \in Nat
  BY <1>4, <1>5, <1>7, AssertionsAssumption DEF Moment
<1>10. CacheInv'
  BY <1>2, <1>8, <1>9 DEF CacheInv, SeenSince
<1>11. /\ SpacingInv'
       /\ fetched' \in [lapsed : Moment, provoked : Moment, early : SUBSET {"lapsed", "provoked"}]
  <2>1. fetched \in [lapsed : Moment, provoked : Moment, early : SUBSET {"lapsed", "provoked"}]
        /\ fetched.early = {}
    BY <1>1 DEF AssertionTypes, SpacingInv
  <2>2. CASE p.fresh = TRUE
    <3>1. ~(fetched.provoked # Never /\ p.now < fetched.provoked + MinGap)
      BY <1>1, <1>4, <1>7, <1>8, AssertionsAssumption DEF SpacingInv, Moment, Never
    <3>2. fetched' = [fetched EXCEPT !.provoked = p.now]
      BY <1>5, <2>1, <2>2, <3>1 DEF Noted
    <3>3. fetched'.early = {} /\ fetched'.lapsed = fetched.lapsed /\ fetched'.provoked = p.now
          /\ fetched' \in [lapsed : Moment, provoked : Moment,
                           early : SUBSET {"lapsed", "provoked"}]
      BY <1>4, <2>1, <3>2 DEF Moment
    <3>4. fetched.lapsed <= p.now
      BY <1>1, <1>4, <1>7, <1>8 DEF SpacingInv, Moment, Never
    <3>5. notBefore' = p.now + MinGap
      BY <1>5, <2>2
    <3>6. p.now + MinGap <= notBefore'
      BY <1>4, <3>5, AssertionsAssumption
    <3> QED BY <1>9, <3>3, <3>4, <3>6 DEF SpacingInv
  <2>3. CASE p.fresh = FALSE
    <3>1. ~(fetched.lapsed # Never /\ p.now < fetched.lapsed + CacheTTL)
      BY <1>1, <1>4, <1>7, <1>8, <2>3, AssertionsAssumption DEF SpacingInv, Moment, Never
    <3>2. fetched' = [fetched EXCEPT !.lapsed = p.now]
      BY <1>5, <2>1, <2>3, <3>1 DEF Noted
    <3>3. fetched'.early = {} /\ fetched'.lapsed = p.now
          /\ fetched'.provoked = fetched.provoked
          /\ fetched' \in [lapsed : Moment, provoked : Moment,
                           early : SUBSET {"lapsed", "provoked"}]
      BY <1>4, <2>1, <3>2 DEF Moment
    <3>4. notBefore' = notBefore
      BY <1>5, <2>3
    <3> QED BY <1>1, <1>4, <1>9, <3>3, <3>4 DEF SpacingInv
  <2> QED BY <1>4, <2>2, <2>3
<1>12. next \in AnswerGiven
  BY <1>4, <1>7 DEF AnswerGiven, Verdict
<1>13. /\ next.token = token /\ next.stage = "replied" /\ next.at = keyTime
       /\ next.answer = "accepted" => token.kid \in p.keys
       /\ next.answer = "unknown" => token.kid \notin p.keys
  BY DEF Verdict
<1> HIDE DEF next
<1>14. ReplyGood(c)'
  <2>1. ASSUME next.answer = "accepted", withdrawn[token.kid] # Never
        PROVE  keyTime < withdrawn[token.kid] + CacheTTL
    <3>1. withdrawn[token.kid] >= p.now
      BY <1>4, <1>8, <1>13, <2>1 DEF SeenSince
    <3> QED BY <1>4, <1>7, <1>8, <2>1, <3>1, AssertionsAssumption DEF Moment, Never
  <2>2. ASSUME next.answer = "unknown", Genuine(token), token.kid \notin leaked, Current(token)
        PROVE  FALSE
    <3>1. withdrawn[token.kid] # Never
      BY <1>1, <1>3, <1>13, <2>2 DEF ChecksInv, AnswerGood
    <3>2. withdrawn[token.kid] = Never
      BY <1>3, <2>2, CurrentIsListed
    <3> QED BY <3>1, <3>2
  <2> QED BY <1>2, <1>6, <1>13, <2>1, <2>2 DEF ReplyGood, Genuine, Current
<1> QED BY <1>2, <1>3, <1>5, <1>9, <1>10, <1>11, <1>12, <1>13, <1>14, FetchEnds

\* A fetch that fails can only put the next one off.
LEMMA FailStep ==
    ASSUME KeysSound, NEW c \in Checks, FetchFails(c)
    PROVE  KeysSound'
<1> DEFINE p == check[c]
           next == [stage |-> "replied", token |-> p.token, answer |-> "unavailable",
                    at |-> keyTime]
<1>1. AssertionTypes /\ CacheInv /\ ChecksInv /\ SpacingInv
  BY DEF KeysSound
<1>2. UNCHANGED <<keyTime, cache, fetched>> /\ UNCHANGED ServerSide
      /\ UNCHANGED <<leaked, published, withdrawn, stopped>>
  BY DEF FetchFails, ServerSide
<1>3. Holder(c) /\ p.token \in Token /\ p.now \in Nat
  BY <1>1, StageIs DEF FetchFails, Holder
<1>4. /\ check' = [check EXCEPT ![c] = next]
      /\ notBefore' = p.now + MinGap \/ notBefore' = notBefore
  BY DEF FetchFails, Reply
<1>5. check'[c] = next
  BY <1>1, <1>4 DEF AssertionTypes
<1>6. keyTime \in Nat /\ notBefore \in Nat /\ fetched.provoked \in Moment
  BY <1>1, MomentsAre
<1>7. notBefore' \in Nat /\ notBefore <= notBefore'
  <2>1. notBefore <= p.now
    BY <1>1, <1>3 DEF ChecksInv, HolderGood
  <2> QED BY <1>3, <1>4, <1>6, <2>1, AssertionsAssumption
<1>8. CacheInv'
  BY <1>1, <1>2 DEF CacheInv, SeenSince
<1>9. SpacingInv'
  BY <1>1, <1>2, <1>6, <1>7, AssertionsAssumption DEF SpacingInv, Moment, Never
<1>10. next \in AnswerGiven /\ next.token = p.token
  BY <1>3, <1>6 DEF AnswerGiven
<1>11. ReplyGood(c)'
  BY <1>2, <1>5 DEF ReplyGood
<1>12. /\ cache' \in [keys : SUBSET Kids, at : Moment]
       /\ fetched' \in [lapsed : Moment, provoked : Moment, early : SUBSET {"lapsed", "provoked"}]
  BY <1>1, <1>2 DEF AssertionTypes
<1> HIDE DEF next
<1> QED BY <1>2, <1>3, <1>4, <1>7, <1>8, <1>9, <1>10, <1>11, <1>12, FetchEnds

-----------------------------------------------------------------------------
(* The steps of the server and of its operator, and of time.               *)

\* What the operator does to the files, and a leak, change no document.
LEMMA FilesStep ==
    ASSUME KeysSound, KeepOutgoing \/ ReplaceKey \/ Leak
    PROVE  KeysSound'
<1>1. AssertionTypes /\ DocumentInv /\ CacheInv /\ ChecksInv /\ SpacingInv
  BY DEF KeysSound
<1>2. UNCHANGED <<keyTime, issuer, published, withdrawn, stopped, cache, notBefore, check,
                  fetched>>
  BY DEF KeepOutgoing, ReplaceKey, Leak, VerifierSide
<1>3. /\ keyFile' \in Kids \ {0} /\ keyFile <= keyFile' /\ keyFile \in Nat
      /\ kept' \in SUBSET Kids /\ leaked' \in SUBSET Kids /\ leaked \subseteq leaked'
  <2>1. keyFile \in Kids \ {0} /\ keyFile \in Nat /\ kept \in SUBSET Kids
        /\ leaked \in SUBSET Kids /\ issuer.signs \in Kids /\ keyFile \in Kids
    BY <1>1 DEF AssertionTypes, Kids
  <2>2. CASE KeepOutgoing
    BY <2>1, <2>2 DEF KeepOutgoing
  <2>3. CASE ReplaceKey
    <3>1. keyFile' = keyFile + 1 /\ keyFile < MaxKeys /\ UNCHANGED <<kept, leaked>>
      BY <2>3 DEF ReplaceKey
    <3>2. keyFile + 1 \in Kids \ {0}
      BY <2>1, <3>1, AssertionsAssumption DEF Kids
    <3> QED BY <2>1, <3>1, <3>2
  <2>4. CASE Leak
    BY <2>1, <2>4 DEF Leak
  <2> QED BY <2>2, <2>3, <2>4
<1>4. AssertionTypes'
  BY <1>1, <1>2, <1>3 DEF AssertionTypes
<1>5. DocumentInv'
  <2>1. \A k \in Kids : k \in Nat
    BY DEF Kids
  <2>2. issuer.signs \in Nat /\ keyFile' \in Nat
    BY <1>1, <1>3, <2>1, MomentsAre
  <2> QED BY <1>1, <1>2, <1>3, <2>1, <2>2 DEF DocumentInv
<1>6. CacheInv' /\ SpacingInv'
  BY <1>1, <1>2 DEF CacheInv, SpacingInv, SeenSince
<1>7. ChecksInv'
  BY <1>1, <1>2, <1>3 DEF ChecksInv, TokenGood, HolderGood, Holder, AnswerGood, ReplyGood,
       SeenSince, Genuine, Current, HeldByFailure
<1> QED BY <1>4, <1>5, <1>6, <1>7 DEF KeysSound

\* A restart: what the document loses had stopped signing a changeover ago, or leaked.
LEMMA ReloadStep ==
    ASSUME KeysSound, RestartIssuer
    PROVE  KeysSound'
<1>1. AssertionTypes /\ DocumentInv /\ CacheInv /\ ChecksInv /\ SpacingInv
  BY DEF KeysSound
<1>2. PICK retired \in Listings :
        LET document == JWKS(keyFile, retired)
        IN  /\ issuer' = [signs |-> keyFile, publishes |-> document]
            /\ published' = [k \in Kids |-> IF k \in document /\ published[k] = Never
                                            THEN keyTime ELSE published[k]]
            /\ withdrawn' = [k \in Kids |-> IF k \in issuer.publishes \ document
                                            THEN keyTime ELSE withdrawn[k]]
            /\ stopped' = IF keyFile = issuer.signs THEN stopped
                          ELSE [stopped EXCEPT ![issuer.signs] = keyTime]
  BY DEF RestartIssuer
<1>3. UNCHANGED <<keyTime, keyFile, kept, leaked, cache, notBefore, check, fetched>>
  BY DEF RestartIssuer, VerifierSide
<1> DEFINE document == {keyFile} \cup retired
<1>4. /\ issuer'.signs = keyFile /\ issuer'.publishes = document
      /\ \A k \in Kids :
            /\ published'[k] = IF k \in document /\ published[k] = Never THEN keyTime
                               ELSE published[k]
            /\ withdrawn'[k] = IF k \in issuer.publishes \ document THEN keyTime
                               ELSE withdrawn[k]
            /\ stopped'[k] = IF keyFile # issuer.signs /\ k = issuer.signs THEN keyTime
                             ELSE stopped[k]
  BY <1>1, <1>2 DEF JWKS, AssertionTypes
<1>5. /\ retired \subseteq issuer.publishes
      /\ \A k \in issuer.publishes \ {keyFile} :
            k \notin leaked /\ k \notin retired =>
              stopped[k] # Never /\ ~(keyTime <= stopped[k] + Changeover)
  BY <1>2 DEF Listings
<1>6. /\ keyTime \in Nat /\ keyFile \in Kids /\ keyFile \in Nat /\ issuer.signs \in Kids
      /\ issuer.signs \in Nat /\ issuer.publishes \in SUBSET Kids
      /\ \A k \in Kids : k \in Nat
  BY <1>1, MomentsAre DEF AssertionTypes, Kids
<1>7. \A k \in Kids : /\ published[k] \in Moment /\ withdrawn[k] \in Moment
                      /\ stopped[k] \in Moment
  BY <1>1, MomentsAre
<1>8. keyTime \in Moment /\ keyTime # Never
  BY <1>6 DEF Moment, Never
<1>9. document \in SUBSET Kids
  BY <1>5, <1>6
<1>10. AssertionTypes'
  <2>1. issuer' \in [signs : Kids, publishes : SUBSET Kids]
    BY <1>2, <1>6, <1>9 DEF JWKS
  <2>2. published' \in [Kids -> Moment] /\ withdrawn' \in [Kids -> Moment]
    BY <1>2, <1>7, <1>8
  <2>3. stopped' \in [Kids -> Moment]
    BY <1>1, <1>2, <1>8 DEF AssertionTypes
  <2> QED BY <1>1, <1>3, <2>1, <2>2, <2>3 DEF AssertionTypes
<1> HIDE DEF document
<1>11. \A k \in Kids : k \in document => k = keyFile \/ k \in issuer.publishes
  BY <1>5 DEF document
<1>12. \A k \in Kids :
          /\ published'[k] <= keyTime /\ withdrawn'[k] <= keyTime /\ stopped'[k] <= keyTime
          /\ stopped'[k] # Never => k < keyFile
  <2> TAKE k \in Kids
  <2>1. /\ published[k] <= keyTime /\ withdrawn[k] <= keyTime /\ stopped[k] <= keyTime
        /\ stopped[k] # Never => k < issuer.signs
    BY <1>1 DEF DocumentInv
  <2>2. issuer.signs <= keyFile /\ keyTime <= keyTime
    BY <1>1, <1>6 DEF DocumentInv
  <2>3. published'[k] <= keyTime /\ withdrawn'[k] <= keyTime /\ stopped'[k] <= keyTime
    BY <1>4, <2>1, <2>2
  <2>4. stopped'[k] # Never => stopped[k] # Never \/ (k = issuer.signs /\ keyFile # issuer.signs)
    BY <1>4
  <2>5. k \in Nat
    BY <1>6
  <2>6. stopped'[k] # Never => k < keyFile
    BY <1>6, <2>1, <2>2, <2>4, <2>5
  <2> QED BY <2>3, <2>6
<1>13. \A k \in document : published'[k] # Never /\ withdrawn'[k] = Never /\ k <= keyFile
  <2> TAKE k \in document
  <2>1. k \in Kids /\ (k = keyFile \/ k \in issuer.publishes)
    BY <1>9, <1>11
  <2>2. withdrawn[k] = Never /\ k <= keyFile
    BY <1>1, <1>6, <1>7, <2>1 DEF DocumentInv
  <2> QED BY <1>4, <1>8, <2>1, <2>2
<1>14. \A k \in Kids : published'[k] # Never => k \in document \/ withdrawn'[k] # Never
  BY <1>1, <1>4, <1>8 DEF DocumentInv
<1>15. ASSUME NEW k \in Kids, withdrawn'[k] # Never
       PROVE  /\ k < keyFile
              /\ \/ k \in leaked
                 \/ stopped'[k] # Never /\ withdrawn'[k] > stopped'[k] + Changeover
  <2>1. CASE k \in issuer.publishes \ document
    <3>1. k # keyFile /\ k \notin retired /\ withdrawn'[k] = keyTime
      BY <1>4, <2>1 DEF document
    <3>2. k < keyFile
      BY <1>1, <1>6, <2>1, <3>1 DEF DocumentInv
    <3>3. ASSUME k \notin leaked
          PROVE  stopped'[k] # Never /\ withdrawn'[k] > stopped'[k] + Changeover
      <4>1. stopped[k] # Never /\ ~(keyTime <= stopped[k] + Changeover)
        BY <1>5, <2>1, <3>1, <3>3
      <4>2. stopped'[k] = stopped[k]
        BY <1>1, <1>4, <1>6, <4>1 DEF DocumentInv
      <4> QED BY <1>6, <1>7, <3>1, <4>1, <4>2, AssertionsAssumption
              DEF Changeover, Moment, Never
    <3> QED BY <3>2, <3>3
  <2>2. CASE k \notin issuer.publishes \ document
    <3>1. withdrawn'[k] = withdrawn[k] /\ withdrawn[k] # Never
      BY <1>4, <1>15, <2>2
    <3>2. k # issuer.signs
      BY <1>1, <3>1 DEF DocumentInv
    <3>3. stopped'[k] = stopped[k]
      BY <1>4, <3>2
    <3> QED BY <1>1, <3>1, <3>3 DEF DocumentInv
  <2> QED BY <2>1, <2>2
<1>16. DocumentInv'
  <2>1. keyFile \in document
    BY DEF document
  <2> QED BY <1>3, <1>4, <1>6, <1>12, <1>13, <1>14, <1>15, <2>1 DEF DocumentInv, Changeover
<1>17. ASSUME NEW keys \in SUBSET Kids, NEW instant \in Moment, instant <= keyTime,
              SeenSince(keys, instant)
       PROVE  SeenSince(keys, instant)'
  BY <1>4, <1>6, <1>7, <1>8, <1>17 DEF SeenSince, Moment, Never
<1>18. CacheInv'
  <2>1. cache.at \in Moment /\ cache.keys \in SUBSET Kids
    BY <1>1, MomentsAre
  <2> QED BY <1>1, <1>3, <1>17, <2>1 DEF CacheInv, SeenSince
<1>19. SpacingInv'
  BY <1>1, <1>3 DEF SpacingInv
<1>20. ASSUME NEW c \in Checks
       PROVE  (TokenGood(c) /\ HolderGood(c) /\ AnswerGood(c) /\ ReplyGood(c))'
  <2>1. TokenGood(c) /\ HolderGood(c) /\ AnswerGood(c) /\ ReplyGood(c) /\ check'[c] = check[c]
    BY <1>1, <1>3 DEF ChecksInv
  <2>2. check[c].stage # "idle" => check[c].token.kid \in Kids /\ check[c].token.exp \in Nat
    BY <1>1, StageIs DEF Token
  <2>3. TokenGood(c)'
    <3> SUFFICES ASSUME check[c].stage # "idle", Genuine(check[c].token),
                        check[c].token.kid \notin leaked
                 PROVE  LET token == check[c].token
                        IN  /\ published'[token.kid] # Never
                            /\ IF stopped'[token.kid] = Never
                               THEN token.exp <= keyTime + AssertionTTL
                               ELSE token.exp <= stopped'[token.kid] + AssertionTTL
      BY <1>3 DEF TokenGood, Genuine
    <3> DEFINE kid == check[c].token.kid
               exp == check[c].token.exp
    <3>1. /\ published[kid] # Never
          /\ stopped[kid] = Never => exp <= keyTime + AssertionTTL
          /\ stopped[kid] # Never => exp <= stopped[kid] + AssertionTTL
      BY <2>1 DEF TokenGood
    <3>2. published'[kid] = published[kid]
      BY <1>4, <2>2, <3>1
    <3>3. stopped'[kid] = stopped[kid] \/ (stopped'[kid] = keyTime /\ kid = issuer.signs)
      BY <1>4, <2>2
    <3>4. stopped[issuer.signs] = Never
      BY <1>1, <1>6 DEF DocumentInv
    <3> HIDE DEF kid, exp
    <3>5. CASE stopped'[kid] = stopped[kid]
      BY <3>1, <3>2, <3>5 DEF kid, exp
    <3>6. CASE stopped'[kid] = keyTime /\ kid = issuer.signs
      BY <1>8, <3>1, <3>2, <3>4, <3>6 DEF kid, exp
    <3> QED BY <3>3, <3>5, <3>6
  <2>4. HolderGood(c)'
    BY <1>3, <2>1 DEF HolderGood, Holder
  <2>5. AnswerGood(c)'
    <3> SUFFICES ASSUME check[c].stage = "answered" PROVE AnswerGood(c)'
      BY <2>1 DEF AnswerGood
    <3>1. check[c].keys \in SUBSET Kids /\ check[c].now \in Nat /\ check[c].now <= keyTime
      BY <1>1, <2>1, StageIs DEF Answered, HolderGood, Holder
    <3>2. SeenSince(check[c].keys, check[c].now)'
      BY <1>3, <1>17, <2>1, <3>1 DEF AnswerGood, Moment, SeenSince
    <3>3. withdrawn[check[c].token.kid] # Never => withdrawn'[check[c].token.kid] # Never
      BY <1>4, <1>8, <2>2
    <3> QED BY <1>3, <2>1, <3>2, <3>3 DEF AnswerGood, Genuine
  <2>6. ReplyGood(c)'
    <3> SUFFICES ASSUME check[c].stage = "replied" PROVE ReplyGood(c)'
      BY <2>1 DEF ReplyGood
    <3> DEFINE kid == check[c].token.kid
    <3>1. kid \in Kids
      BY <2>2
    <3>2. withdrawn'[kid] = withdrawn[kid] \/ withdrawn'[kid] = keyTime
      BY <1>4, <3>1
    <3>3. Genuine(check[c].token) /\ kid \notin leaked => published'[kid] = published[kid]
      BY <1>4, <2>1, <3>1 DEF TokenGood
    <3>4. keyTime < keyTime + CacheTTL
      BY <1>6, AssertionsAssumption
    <3> QED BY <1>3, <2>1, <3>2, <3>3, <3>4 DEF ReplyGood, Genuine, Current, HeldByFailure
  <2> QED BY <2>3, <2>4, <2>5, <2>6
<1>21. \A c, d \in Checks : Holder(c)' /\ Holder(d)' => c = d
  BY <1>1, <1>3 DEF ChecksInv, Holder
<1> QED BY <1>10, <1>16, <1>18, <1>19, <1>20, <1>21 DEF KeysSound, ChecksInv

\* Time passes: the replies of the last instant have been looked at.
LEMMA TickStep ==
    ASSUME KeysSound, KeyTick
    PROVE  KeysSound'
<1>1. AssertionTypes /\ DocumentInv /\ CacheInv /\ ChecksInv /\ SpacingInv
  BY DEF KeysSound
<1>2. /\ UNCHANGED <<keyFile, kept, leaked, issuer, published, withdrawn, stopped>>
      /\ UNCHANGED <<cache, notBefore, fetched>>
      /\ keyTime' = keyTime + 1 /\ keyTime \in Nat
  BY <1>1 DEF KeyTick, AssertionTypes
<1>3. \A c \in Checks : check'[c] = IF check[c].stage = "replied" THEN Idle ELSE check[c]
  BY DEF KeyTick
<1>4. \A c \in Checks : check'[c].stage # "replied"
                        /\ (check'[c].stage # "idle" => check'[c] = check[c])
  BY <1>3 DEF Idle
<1>5. AssertionTypes'
  <2>1. check' \in [Checks -> CheckStates]
    BY <1>1 DEF KeyTick, AssertionTypes, CheckStates
  <2> QED BY <1>1, <1>2, <2>1 DEF AssertionTypes, CheckStates
<1>6. DocumentInv'
  <2>1. \A k \in Kids : /\ published[k] \in Moment /\ withdrawn[k] \in Moment
                        /\ stopped[k] \in Moment
    BY <1>1, MomentsAre
  <2>2. \A k \in Kids : /\ published[k] <= keyTime' /\ withdrawn[k] <= keyTime'
                        /\ stopped[k] <= keyTime'
    BY <1>1, <1>2, <2>1 DEF DocumentInv, Moment, Never
  <2> QED BY <1>1, <1>2, <2>2 DEF DocumentInv
<1>7. CacheInv' /\ SpacingInv'
  <2>1. cache.at \in Moment
    BY <1>1, MomentsAre
  <2>2. cache.at # Never => cache.at <= keyTime'
    BY <1>1, <1>2, <2>1 DEF CacheInv, Moment, Never
  <2> QED BY <1>1, <1>2, <2>2 DEF CacheInv, SpacingInv, SeenSince
<1>8. ASSUME NEW c \in Checks
      PROVE  (TokenGood(c) /\ HolderGood(c) /\ AnswerGood(c) /\ ReplyGood(c))'
  <2>1. TokenGood(c) /\ HolderGood(c) /\ AnswerGood(c)
    BY <1>1 DEF ChecksInv
  <2>2. TokenGood(c)'
    <3> SUFFICES ASSUME check[c].stage # "idle", check'[c] = check[c] PROVE TokenGood(c)'
      BY <1>4 DEF TokenGood
    <3>1. check[c].token.kid \in Kids /\ check[c].token.exp \in Nat
      BY <1>1, StageIs DEF Token
    <3>2. check[c].token.exp <= keyTime + AssertionTTL
            => check[c].token.exp <= keyTime' + AssertionTTL
      BY <1>2, <3>1, AssertionsAssumption
    <3> QED BY <1>2, <2>1, <3>2 DEF TokenGood, Genuine
  <2>3. HolderGood(c)'
    <3> SUFFICES ASSUME Holder(c), check'[c] = check[c] PROVE HolderGood(c)'
      BY <1>4 DEF HolderGood, Holder
    <3>1. check[c].now \in Nat /\ keyTime < check[c].now + FetchTimeout
      BY <1>1, StageIs DEF KeyTick
    <3>2. check[c].now <= keyTime' /\ keyTime' <= check[c].now + FetchTimeout
      BY <1>2, <2>1, <3>1, AssertionsAssumption DEF HolderGood
    <3> QED BY <1>2, <2>1, <3>2 DEF HolderGood
  <2>4. AnswerGood(c)' /\ ReplyGood(c)'
    BY <1>2, <1>4, <2>1 DEF AnswerGood, ReplyGood, SeenSince, Genuine
  <2> QED BY <2>2, <2>3, <2>4
<1>9. \A c, d \in Checks : Holder(c)' /\ Holder(d)' => c = d
  BY <1>1, <1>4 DEF ChecksInv, Holder
<1> QED BY <1>5, <1>6, <1>7, <1>8, <1>9 DEF KeysSound, ChecksInv

-----------------------------------------------------------------------------
(* The theorems.                                                           *)

LEMMA AssertionsStart ==
    ASSUME AssertionsInit
    PROVE  KeysSound
<1>1. \A c \in Checks : check[c].stage = "idle"
  BY DEF AssertionsInit, Idle
<1>2. 1 \in Kids /\ 0 \in Kids
  BY AssertionsAssumption DEF Kids
<1>3. AssertionTypes
  BY <1>2 DEF AssertionsInit, AssertionTypes, NoCache, Moment
<1>4. DocumentInv
  BY <1>2 DEF AssertionsInit, DocumentInv, Never
<1>5. CacheInv /\ SpacingInv
  BY DEF AssertionsInit, CacheInv, SpacingInv, NoCache, Never
<1>6. ChecksInv
  BY <1>1 DEF ChecksInv, Holder, TokenGood, HolderGood, AnswerGood, ReplyGood
<1> QED BY <1>3, <1>4, <1>5, <1>6 DEF KeysSound

LEMMA AssertionsStep ==
    ASSUME KeysSound, [AssertionsNext]_assertionVars
    PROVE  KeysSound'
<1>1. CASE UNCHANGED assertionVars
  BY <1>1 DEF assertionVars, KeysSound, AssertionTypes, DocumentInv, CacheInv, ChecksInv, SpacingInv,
       TokenGood, HolderGood, Holder, AnswerGood, ReplyGood, SeenSince, Genuine, Current,
       HeldByFailure
<1>2. CASE AssertionsNext
  <2>1. CASE KeepOutgoing \/ ReplaceKey \/ Leak
    BY <2>1, FilesStep
  <2>2. CASE RestartIssuer
    BY <2>2, ReloadStep
  <2>3. CASE KeyTick
    BY <2>3, TickStep
  <2>4. CASE \E c \in Checks :
               \/ \E token \in Issued \cup {[kid |-> 0, exp |-> 0]} : Present(c, token)
               \/ Lookup(c) \/ ServeJWKS(c) \/ Install(c) \/ FetchFails(c)
    BY <2>4, PresentStep, LookupStep, ServeStep, InstallStep, FailStep
  <2> QED BY <1>2, <2>1, <2>2, <2>3, <2>4 DEF AssertionsNext
<1> QED BY <1>1, <1>2

LEMMA KeysStaySound == AssertionsSpec => []KeysSound
<1> QED BY AssertionsStart, AssertionsStep, PTL DEF AssertionsSpec

\* A rotation refuses nobody: whatever the lifetimes and the intervals, with any number
\* of goroutines and rotations, an assertion inside its lifetime is called unknown only
\* while a fetch may not be made.
THEOREM RotationStaysUnnoticed == AssertionsSpec => []RotationRefusesNobody
<1>1. KeysSound => RotationRefusesNobody
  BY DEF KeysSound, ChecksInv, ReplyGood, RotationRefusesNobody, Replied
<1> QED BY <1>1, KeysStaySound, PTL

\* A key withdrawn stops verifying within the lifetime of the cache, and the fetches keep
\* their distances, as long as a fetch is given up before a cache would lapse.
THEOREM CachesKeepTime == AssertionsSpec => []CacheKeepsItsTimes
<1>1. KeysSound => CacheKeepsItsTimes
  <2> SUFFICES ASSUME KeysSound PROVE WithdrawnStopsVerifying /\ FetchesSpaced
    BY DEF CacheKeepsItsTimes
  <2>1. WithdrawnStopsVerifying
    BY DEF KeysSound, ChecksInv, ReplyGood, WithdrawnStopsVerifying, Replied
  <2>2. FetchesSpaced
    BY DEF KeysSound, SpacingInv, FetchesSpaced
  <2> QED BY <2>1, <2>2
<1> QED BY <1>1, KeysStaySound, PTL


-----------------------------------------------------------------------------
(* The order of the queue, and what a page of it is.                       *)

\* Rows that can be told apart and put in order.
Ordered(L) ==
    /\ IsFiniteSet(L)
    /\ \A r \in L : r.id \in Nat /\ r.last \in Nat
    /\ \A r, s \in L : r.id = s.id => r = s

LEMMA AheadIsTotal ==
    ASSUME NEW L, Ordered(L)
    PROVE  /\ \A r, s \in L : r = s \/ Ahead(r, s) \/ Ahead(s, r)
           /\ \A r, s \in L : Ahead(r, s) => ~Ahead(s, r) /\ r # s
           /\ \A r, s, t \in L : Ahead(r, s) /\ Ahead(s, t) => Ahead(r, t)
<1>1. ASSUME NEW r \in L, NEW s \in L PROVE r = s \/ Ahead(r, s) \/ Ahead(s, r)
  BY DEF Ordered, Ahead
<1>2. ASSUME NEW r \in L, NEW s \in L, Ahead(r, s) PROVE ~Ahead(s, r) /\ r # s
  BY <1>2 DEF Ordered, Ahead
<1>3. ASSUME NEW r \in L, NEW s \in L, NEW t \in L, Ahead(r, s), Ahead(s, t) PROVE Ahead(r, t)
  <2>1. {r.id, s.id, t.id, r.last, s.last, t.last} \subseteq Nat
    BY DEF Ordered
  <2> QED BY <1>3, <2>1 DEF Ahead
<1> QED BY <1>1, <1>2, <1>3

\* Rows that are not none have one that is ahead of all the others.
LEMMA HasFirst ==
    ASSUME NEW L, Ordered(L), L # {}
    PROVE  \E m \in L : \A x \in L : x = m \/ Ahead(m, x)
<1> DEFINE Led(A) == \E m \in A : \A x \in A : x = m \/ Ahead(m, x)
           Without == {A \in FiniteSubsetsOf(L) : A # {} /\ ~Led(A)}
<1>1. ASSUME Without # {} PROVE FALSE
  <2>1. IsWellFoundedOn(StrictSubsetOrdering(L), FiniteSubsetsOf(L))
    BY FS_StrictSubsetOrderingWellFounded
  <2>2. PICK A \in Without : \A B \in Without : ~(<<B, A>> \in StrictSubsetOrdering(L))
    <3> HIDE DEF Without
    <3>1. Without \subseteq FiniteSubsetsOf(L)
      BY DEF Without
    <3> QED BY <1>1, <2>1, <3>1, WFMin
  <2>3. A \in SUBSET L /\ IsFiniteSet(A) /\ A # {} /\ ~Led(A)
    BY <2>2 DEF FiniteSubsetsOf
  <2>4. PICK x \in A : TRUE
    BY <2>3
  <2>5. A \ {x} \in SUBSET L /\ IsFiniteSet(A \ {x}) /\ A \ {x} # A
    BY <2>3, <2>4, FS_RemoveElement
  <2>6. <<A \ {x}, A>> \in StrictSubsetOrdering(L)
    BY <2>3, <2>5 DEF StrictSubsetOrdering
  <2>7. A \ {x} = {} \/ Led(A \ {x})
    <3> SUFFICES A \ {x} \in FiniteSubsetsOf(L)
      BY <2>2, <2>6
    <3> QED BY <2>5 DEF FiniteSubsetsOf
  <2>8. CASE A \ {x} = {}
    <3>1. \A y \in A : y = x
      BY <2>8
    <3> QED BY <2>3, <2>4, <3>1
  <2>9. CASE Led(A \ {x})
    <3>1. PICK m \in A \ {x} : \A y \in A \ {x} : y = m \/ Ahead(m, y)
      BY <2>9
    <3>2. CASE Ahead(x, m)
      <4>1. \A y \in A : y = x \/ Ahead(x, y)
        BY <2>3, <2>4, <3>1, <3>2, AheadIsTotal
      <4> QED BY <2>3, <2>4, <4>1
    <3>3. CASE ~Ahead(x, m)
      <4>1. Ahead(m, x)
        BY <2>3, <2>4, <3>1, <3>3, AheadIsTotal
      <4>2. \A y \in A : y = m \/ Ahead(m, y)
        BY <3>1, <4>1
      <4> QED BY <2>3, <3>1, <4>2
    <3> QED BY <3>2, <3>3
  <2> QED BY <2>7, <2>8, <2>9
<1>2. L \in FiniteSubsetsOf(L)
  BY DEF FiniteSubsetsOf, Ordered
<1> QED BY <1>1, <1>2

\* And one that all the others are ahead of.
LEMMA HasLast ==
    ASSUME NEW L, Ordered(L), L # {}
    PROVE  \E m \in L : \A x \in L : x = m \/ Ahead(x, m)
<1> DEFINE Trailed(A) == \E m \in A : \A x \in A : x = m \/ Ahead(x, m)
           Without == {A \in FiniteSubsetsOf(L) : A # {} /\ ~Trailed(A)}
<1>1. ASSUME Without # {} PROVE FALSE
  <2>1. IsWellFoundedOn(StrictSubsetOrdering(L), FiniteSubsetsOf(L))
    BY FS_StrictSubsetOrderingWellFounded
  <2>2. PICK A \in Without : \A B \in Without : ~(<<B, A>> \in StrictSubsetOrdering(L))
    <3> HIDE DEF Without
    <3>1. Without \subseteq FiniteSubsetsOf(L)
      BY DEF Without
    <3> QED BY <1>1, <2>1, <3>1, WFMin
  <2>3. A \in SUBSET L /\ IsFiniteSet(A) /\ A # {} /\ ~Trailed(A)
    BY <2>2 DEF FiniteSubsetsOf
  <2>4. PICK x \in A : TRUE
    BY <2>3
  <2>5. A \ {x} \in SUBSET L /\ IsFiniteSet(A \ {x}) /\ A \ {x} # A
    BY <2>3, <2>4, FS_RemoveElement
  <2>6. <<A \ {x}, A>> \in StrictSubsetOrdering(L)
    BY <2>3, <2>5 DEF StrictSubsetOrdering
  <2>7. A \ {x} = {} \/ Trailed(A \ {x})
    <3> SUFFICES A \ {x} \in FiniteSubsetsOf(L)
      BY <2>2, <2>6
    <3> QED BY <2>5 DEF FiniteSubsetsOf
  <2>8. CASE A \ {x} = {}
    <3>1. \A y \in A : y = x
      BY <2>8
    <3> QED BY <2>3, <2>4, <3>1
  <2>9. CASE Trailed(A \ {x})
    <3>1. PICK m \in A \ {x} : \A y \in A \ {x} : y = m \/ Ahead(y, m)
      BY <2>9
    <3>2. CASE Ahead(m, x)
      <4>1. \A y \in A : y = x \/ Ahead(y, x)
        BY <2>3, <2>4, <3>1, <3>2, AheadIsTotal
      <4> QED BY <2>3, <2>4, <4>1
    <3>3. CASE ~Ahead(m, x)
      <4>1. Ahead(x, m)
        BY <2>3, <2>4, <3>1, <3>3, AheadIsTotal
      <4>2. \A y \in A : y = m \/ Ahead(y, m)
        BY <3>1, <4>1
      <4> QED BY <2>3, <3>1, <4>2
    <3> QED BY <3>2, <3>3
  <2> QED BY <2>7, <2>8, <2>9
<1>2. L \in FiniteSubsetsOf(L)
  BY DEF FiniteSubsetsOf, Ordered
<1> QED BY <1>1, <1>2

LEMMA LimitIsPage == Min({PageLimit, StoreLimit}) = PageLimit
<1>1. PageLimit \in Nat /\ StoreLimit \in Nat /\ PageLimit <= StoreLimit
  BY AlertsAssumption
<1>2. \E x \in {PageLimit, StoreLimit} : \A y \in {PageLimit, StoreLimit} : x <= y
  BY <1>1
<1> QED BY <1>1, <1>2 DEF Min

\* A page is the first of the rows it is taken from, as many as it may hold.
LEMMA PageIsAhead ==
    ASSUME NEW L, Ordered(L)
    PROVE  /\ PageOf(L) \subseteq L
           /\ \A f \in PageOf(L), r \in L : Ahead(r, f) => r \in PageOf(L)
           /\ Cardinality(PageOf(L)) # PageLimit => PageOf(L) = L
           /\ Cardinality(PageOf(L)) = PageLimit => PageOf(L) # {}
<1> DEFINE Before(r) == {q \in L : Ahead(q, r)}
           found == PageOf(L)
<1>n. PageLimit \in Nat /\ PageLimit # 0
  BY AlertsAssumption
<1>0. found = {r \in L : Cardinality(Before(r)) < PageLimit}
  BY LimitIsPage DEF PageOf
<1>1. \A r : IsFiniteSet(Before(r)) /\ Cardinality(Before(r)) \in Nat
  BY FS_Subset, FS_CardinalityType DEF Ordered
<1>2. found \subseteq L /\ IsFiniteSet(found) /\ Cardinality(found) \in Nat
  BY <1>0, FS_Subset, FS_CardinalityType DEF Ordered
<1> HIDE DEF found
<1>3. ASSUME NEW f \in found, NEW r \in L, Ahead(r, f) PROVE r \in found
  <2>1. Before(r) \subseteq Before(f)
    BY <1>2, <1>3, AheadIsTotal
  <2>2. Cardinality(Before(r)) <= Cardinality(Before(f))
    BY <1>1, <2>1, FS_Subset
  <2>3. Cardinality(Before(f)) < PageLimit
    BY <1>0
  <2> HIDE DEF Before
  <2> QED BY <1>0, <1>1, <1>n, <2>2, <2>3
<1>4. Cardinality(found) <= PageLimit
  <2>1. CASE found = {}
    BY <2>1, <1>n, FS_EmptySet
  <2>2. CASE found # {}
    <3>0. Ordered(found)
      BY <1>2 DEF Ordered
    <3>1. PICK m \in found : \A x \in found : x = m \/ Ahead(x, m)
      BY <2>2, <3>0, HasLast
    <3>2. Before(m) = found \ {m}
      BY <1>2, <1>3, <3>1, AheadIsTotal
    <3>3. Cardinality(found \ {m}) = Cardinality(found) - 1
      BY <1>2, <3>1, FS_RemoveElement
    <3>4. Cardinality(Before(m)) < PageLimit
      BY <1>0
    <3> HIDE DEF Before
    <3> QED BY <1>2, <1>n, <3>2, <3>3, <3>4
  <2> QED BY <2>1, <2>2
<1>5. ASSUME Cardinality(found) # PageLimit PROVE found = L
  <2> SUFFICES ASSUME L \ found # {} PROVE FALSE
    BY <1>2
  <2>0. Ordered(L \ found)
    BY FS_Subset DEF Ordered
  <2>1. PICK m \in L \ found : \A x \in L \ found : x = m \/ Ahead(m, x)
    BY <2>0, HasFirst
  <2>2. Before(m) = found
    <3>1. ASSUME NEW x \in Before(m) PROVE x \in found
      BY <2>1, AheadIsTotal
    <3>2. ASSUME NEW f \in found PROVE f \in Before(m)
      BY <1>2, <1>3, <2>1, AheadIsTotal
    <3> HIDE DEF Before
    <3> QED BY <3>1, <3>2
  <2>3. ~(Cardinality(Before(m)) < PageLimit)
    BY <1>0, <2>1
  <2> HIDE DEF Before
  <2> QED BY <1>2, <1>4, <1>5, <1>n, <2>2, <2>3
<1>6. ASSUME Cardinality(found) = PageLimit PROVE found # {}
  BY <1>6, <1>n, FS_EmptySet
<1> QED BY <1>2, <1>3, <1>5, <1>6 DEF found

\* Rows that are each changed are as many as before.
LEMMA ChangedAreFinite ==
    ASSUME NEW S, IsFiniteSet(S), NEW T, NEW f \in [S -> T], T = {f[x] : x \in S}
    PROVE  IsFiniteSet(T)
<1>1. f \in Surjection(S, T)
  BY DEF Surjection
<1> QED BY <1>1, FS_Surjection

-----------------------------------------------------------------------------
(* The inductive invariant.                                                *)

Run == [openedAt : Nat, refusals : Nat, credentials : Nat]

Walk == [at : {"idle", "paging", "ended"}, cursor : Nat, seen : SUBSET Nat,
         owed : SUBSET Nat, astray : BOOLEAN]

AlertRow(r) ==
    /\ DOMAIN r = {"id", "in", "severity", "occurrences", "last", "open"}
    /\ r.id \in RowIds /\ r.last \in Nat

\* The variables the proofs reason about keep their types.
AlertTypes ==
    /\ now \in Nat \ {NotYet}
    /\ told \in [Sources -> Nat]
    /\ refused \in [count : Nat, last : [Sources -> Nat]]
    /\ DOMAIN folded \subseteq Sources /\ \A s \in DOMAIN folded : folded[s] \in Run
    /\ DOMAIN asking = Requests
    /\ \A q \in Requests : "at" \in DOMAIN asking[q] /\ (asking[q].at = "store" => asking[q].seen \in Nat)
    /\ \A r \in alerts : AlertRow(r)
    /\ listing \in Walk

\* A run of the fold began when its source was last reported.
FoldInv == \A s \in DOMAIN folded : folded[s].openedAt = told[s] /\ told[s] # NotYet

\* The walk has a row of its own to go on from, ahead of all it still owes.
OnCourse ==
    \E c \in alerts :
        /\ c.id = listing.cursor
        /\ \A r \in OpenAlerts : r.id \in listing.owed \ listing.seen => Ahead(c, r)

\* What is owed is still open, and a walk under way that is not astray is on course.
WalkInv ==
    /\ Ordered(alerts)
    /\ \A i \in listing.owed : \E r \in OpenAlerts : r.id = i
    /\ listing.at = "paging" /\ ~listing.astray /\ backend # "postgres" => OnCourse

AlertsInv ==
    /\ AlertTypes
    /\ FoldInv /\ CrowdingHidesNobody
    /\ WalkInv /\ WalkSkipsNothing

-----------------------------------------------------------------------------
(* The steps.                                                              *)

\* A refusal told of or within the window of the last one told hides nobody.
LEMMA RefuseStep ==
    ASSUME AlertsInv, NEW q \in Requests, NEW s \in Sources, NEW credential \in 0..1,
           RefuseCredential(q, s, credential)
    PROVE  AlertsInv'
<1>t. AlertTypes /\ FoldInv /\ CrowdingHidesNobody /\ WalkInv /\ WalkSkipsNothing
  BY DEF AlertsInv
<1>w. Window \in Nat /\ Window > 0
  BY AlertsAssumption
<1>1. PICK fold \in Observe(s, credential) :
        /\ folded' = fold.runs
        /\ told' = IF fold.report THEN [told EXCEPT ![s] = now] ELSE told
        /\ asking' = [asking EXCEPT ![q] =
             IF ~fold.report THEN NotAsking
             ELSE [ at |-> IF fold.credentials > 0 THEN "record" ELSE "raise",
                    in |-> Input(SystemTenant, "api_key.rejected", NoId, s),
                    refusals |-> fold.refusals ]]
  BY DEF RefuseCredential, Proceed
<1>2. /\ refused' = [ count |-> refused.count + 1, last |-> [refused.last EXCEPT ![s] = now] ]
      /\ UNCHANGED <<backend, now, alerts, listing>>
  BY DEF RefuseCredential
<1>3. /\ DOMAIN folded' \subseteq Sources /\ (\A o \in DOMAIN folded' : folded'[o] \in Run)
      /\ told' \in [Sources -> Nat]
      /\ \A o \in Sources \ {s} : told'[o] = told[o]
      /\ \A o \in DOMAIN folded' : folded'[o].openedAt = told'[o] /\ told'[o] # NotYet
      /\ told'[s] # NotYet /\ now - told'[s] < Window
  <2>0. /\ now \in Nat /\ now # 0 /\ told \in [Sources -> Nat] /\ DOMAIN folded \subseteq Sources
        /\ \A o \in DOMAIN folded : folded[o] \in Run /\ folded[o].openedAt = told[o] /\ told[o] # NotYet
    BY <1>t DEF AlertTypes, FoldInv, NotYet
  <2>e. Empty \in Run /\ Empty.openedAt = now
    BY <2>0 DEF Empty, Run
  <2>1. CASE s \in DOMAIN folded /\ ~Stale(folded[s])
    <3>1. fold = [ runs |-> [folded EXCEPT ![s].refusals = @ + 1,
                                           ![s].credentials = @ + credential],
                   report |-> FALSE, refusals |-> 0, credentials |-> 0 ]
      BY <2>1 DEF Observe, Fold
    <3>2. /\ told' = told
          /\ folded' = [folded EXCEPT ![s].refusals = @ + 1, ![s].credentials = @ + credential]
      BY <1>1, <3>1
    <3>3. /\ DOMAIN folded' = DOMAIN folded /\ \A o \in DOMAIN folded \ {s} : folded'[o] = folded[o]
          /\ folded'[s] = [folded[s] EXCEPT !.refusals = folded[s].refusals + 1,
                                            !.credentials = folded[s].credentials + credential]
      BY <2>0, <2>1, <3>2 DEF Run
    <3>4. folded'[s] \in Run /\ folded'[s].openedAt = folded[s].openedAt
      <4>1. folded[s] \in Run
        BY <2>0, <2>1
      <4>2. credential \in Nat
        OBVIOUS
      <4>3. ASSUME NEW run \in Run
            PROVE  LET more == [run EXCEPT !.refusals = run.refusals + 1,
                                           !.credentials = run.credentials + credential]
                   IN  more \in Run /\ more.openedAt = run.openedAt
        <5>1. run.refusals + 1 \in Nat /\ run.credentials + credential \in Nat
          BY <4>2 DEF Run
        <5> QED BY <5>1 DEF Run
      <4> QED BY <3>3, <4>1, <4>3
    <3>5. now - told[s] < Window
      BY <2>0, <2>1, <1>w DEF Stale
    <3>6. told[s] # NotYet
      BY <2>0, <2>1
    <3> QED BY <2>0, <2>1, <3>2, <3>3, <3>4, <3>5, <3>6
  <2>2. CASE s \in DOMAIN folded /\ Stale(folded[s])
    <3>1. fold = [ runs |-> [folded EXCEPT ![s] = Empty], report |-> TRUE,
                   refusals |-> folded[s].refusals + 1,
                   credentials |-> folded[s].credentials + credential ]
      BY <2>2 DEF Observe, Fold
    <3>2. told' = [told EXCEPT ![s] = now] /\ folded' = [folded EXCEPT ![s] = Empty]
      BY <1>1, <3>1
    <3> QED BY <2>0, <2>2, <2>e, <3>2, <1>w DEF NotYet
  <2>3. CASE s \notin DOMAIN folded
    <3>1. PICK held \in Evicted(folded) :
            fold = [ runs |-> [ o \in DOMAIN held \cup {s} |-> IF o = s THEN Empty ELSE held[o] ],
                     report |-> TRUE, refusals |-> 1, credentials |-> credential ]
      BY <2>3 DEF Observe, Fold
    <3>2. DOMAIN held \subseteq DOMAIN folded /\ \A o \in DOMAIN held : held[o] = folded[o]
      BY DEF Evicted
    <3>3. /\ told' = [told EXCEPT ![s] = now]
          /\ folded' = [ o \in DOMAIN held \cup {s} |-> IF o = s THEN Empty ELSE held[o] ]
      BY <1>1, <3>1
    <3> QED BY <2>0, <2>3, <2>e, <3>2, <3>3, <1>w DEF NotYet
  <2> QED BY <2>1, <2>2, <2>3
<1>4. /\ refused' \in [count : Nat, last : [Sources -> Nat]]
      /\ \A o \in Sources \ {s} : refused'.last[o] = refused.last[o]
      /\ refused'.last[s] = now
  BY <1>t, <1>2 DEF AlertTypes
<1>5. CrowdingHidesNobody' /\ FoldInv'
  BY <1>t, <1>2, <1>3, <1>4 DEF CrowdingHidesNobody, FoldInv, NotYet
<1>6. /\ DOMAIN asking' = Requests
      /\ \A p \in Requests : "at" \in DOMAIN asking'[p] /\ (asking'[p].at = "store" => asking'[p].seen \in Nat)
  BY <1>t, <1>1 DEF AlertTypes, NotAsking
<1>7. AlertTypes'
  BY <1>t, <1>2, <1>3, <1>4, <1>6 DEF AlertTypes, NotYet, AlertRow
<1>8. WalkInv' /\ WalkSkipsNothing'
  BY <1>t, <1>2 DEF WalkInv, WalkSkipsNothing, OnCourse, OpenAlerts, IsOpenRow, Ordered, Ahead
<1> QED BY <1>5, <1>7, <1>8 DEF AlertsInv

\* Steps of a request that leave the fold, the rows and the walk alone.
LEMMA AskingStep ==
    ASSUME AlertsInv, UNCHANGED <<backend, folded, alerts, refused, told, listing>>,
           now' \in Nat, now' >= now,
           DOMAIN asking' = Requests,
           \A q \in Requests : \/ asking'[q] = asking[q]
                               \/ "at" \in DOMAIN asking'[q] /\ asking'[q].at # "store"
                               \/ "at" \in DOMAIN asking'[q] /\ asking'[q].seen \in Nat
    PROVE  AlertsInv'
<1>1. AlertTypes' /\ FoldInv' /\ CrowdingHidesNobody'
  BY DEF AlertsInv, AlertTypes, FoldInv, CrowdingHidesNobody, AlertRow, NotYet
<1>2. WalkInv' /\ WalkSkipsNothing'
  BY DEF AlertsInv, WalkInv, WalkSkipsNothing, OnCourse, OpenAlerts, IsOpenRow, Ordered, Ahead
<1> QED BY <1>1, <1>2 DEF AlertsInv

\* The rows change and the walk is told of it: what is still owed has not moved, and the
\* row the walk goes on from has not moved back.
LEMMA MoveStep ==
    ASSUME AlertsInv, UNCHANGED <<backend, now, folded, refused, told>>,
           DOMAIN asking' = Requests,
           \A q \in Requests : "at" \in DOMAIN asking'[q] /\ (asking'[q].at = "store" => asking'[q].seen \in Nat),
           Ordered(alerts)', \A r \in alerts' : AlertRow(r),
           listing' \in Walk, listing'.at = listing.at, listing'.cursor = listing.cursor,
           listing'.seen = listing.seen, listing'.owed \subseteq listing.owed,
           listing.astray => listing'.astray,
           \A r \in OpenAlerts : r.id \in listing'.owed => r \in OpenAlerts',
           \A c \in alerts : c.id = listing.cursor /\ ~listing'.astray /\ listing.at = "paging" =>
               \E d \in alerts' : d.id = c.id /\ d.last >= c.last
    PROVE  AlertsInv'
<1>t. AlertTypes /\ FoldInv /\ CrowdingHidesNobody /\ WalkInv /\ WalkSkipsNothing
  BY DEF AlertsInv
<1>1. AlertTypes' /\ FoldInv' /\ CrowdingHidesNobody'
  BY <1>t DEF AlertTypes, FoldInv, CrowdingHidesNobody, AlertRow, NotYet
<1>2. WalkSkipsNothing'
  BY <1>t DEF WalkSkipsNothing
<1>3. \A i \in listing'.owed : \E r \in OpenAlerts : r.id = i /\ r \in OpenAlerts'
  BY <1>t DEF WalkInv
<1>4. ASSUME listing'.at = "paging", ~listing'.astray, backend' # "postgres" PROVE OnCourse'
  <2>1. OnCourse
    BY <1>t, <1>4 DEF WalkInv
  <2>2. PICK c \in alerts : /\ c.id = listing.cursor
                            /\ \A r \in OpenAlerts : r.id \in listing.owed \ listing.seen => Ahead(c, r)
    BY <2>1 DEF OnCourse
  <2>3. PICK d \in alerts' : d.id = c.id /\ d.last >= c.last
    BY <1>4, <2>2
  <2>4. ASSUME NEW r \in OpenAlerts', r.id \in listing'.owed \ listing'.seen PROVE Ahead(d, r)
    <3>1. PICK s \in OpenAlerts : s.id = r.id /\ s \in OpenAlerts'
      BY <1>3, <2>4
    <3>2. r = s
      BY <3>1 DEF Ordered, OpenAlerts
    <3>3. Ahead(c, r)
      BY <2>2, <2>4, <3>1, <3>2
    <3>4. {c.last, d.last, r.last, c.id, d.id, r.id} \subseteq Nat
      BY <1>t, <2>2, <2>3, <2>4 DEF WalkInv, Ordered, OpenAlerts
    <3> QED BY <2>3, <3>3, <3>4 DEF Ahead
  <2>5. d.id = listing'.cursor
    BY <2>2, <2>3
  <2> QED BY <2>4, <2>5 DEF OnCourse
<1>5. WalkInv'
  BY <1>3, <1>4 DEF WalkInv
<1> QED BY <1>1, <1>2, <1>5 DEF AlertsInv

\* An occurrence stored: a new row owes the walk nothing, and a repeat moves the row it
\* falls on, which the walk is told of.
LEMMA StoreStep ==
    ASSUME AlertsInv, NEW q \in Requests, StoreAlert(q)
    PROVE  AlertsInv'
<1> DEFINE in == asking[q].in
           seen == asking[q].seen
           moved == Conflicting(in)
           put(r) == IF r \in moved THEN [r EXCEPT !.occurrences = @ + 1, !.last = seen] ELSE r
<1>t. AlertTypes /\ WalkInv
  BY DEF AlertsInv
<1>1. /\ asking[q].at = "store" /\ listing' = WalkAfterMove(Touched(in), seen)
      /\ asking' = [asking EXCEPT ![q] = NotAsking]
      /\ UNCHANGED <<backend, now, folded, refused, told>>
  BY DEF StoreAlert, Proceed
<1>2. PICK id \in IF moved = {} THEN RowIds \ { r.id : r \in alerts } ELSE {0} :
        alerts' = Upserted(in, seen, id)
  BY DEF StoreAlert
<1>3. seen \in Nat /\ in = asking[q].in
  BY <1>t, <1>1 DEF AlertTypes
<1>4. moved \subseteq alerts /\ Touched(in) = { r.id : r \in moved }
  BY DEF Conflicting, Touched
<1>5. \A r \in alerts : AlertRow(r) /\ r.id \in Nat /\ r.last \in Nat
  BY <1>t DEF AlertTypes, WalkInv, Ordered
<1>6. \A r, s \in alerts : r.id = s.id => r = s
  BY <1>t DEF WalkInv, Ordered
<1>7. /\ listing' \in Walk /\ listing'.at = listing.at /\ listing'.cursor = listing.cursor
      /\ listing'.seen = listing.seen /\ listing'.owed = listing.owed \ Touched(in)
      /\ listing.astray => listing'.astray
      /\ ~listing'.astray => ~ \E r \in alerts : r.id = listing.cursor /\ r.id \in Touched(in) /\ seen < r.last
  BY <1>t, <1>1 DEF AlertTypes, WalkAfterMove, Walk
<1>8. /\ DOMAIN asking' = Requests
      /\ \A p \in Requests : "at" \in DOMAIN asking'[p] /\ (asking'[p].at = "store" => asking'[p].seen \in Nat)
  BY <1>t, <1>1 DEF AlertTypes, NotAsking
<1> HIDE DEF in, seen, moved
<1>9. /\ Ordered(alerts)' /\ \A r \in alerts' : AlertRow(r)
      /\ \A r \in alerts \ moved : r \in alerts'
      /\ \A c \in moved : \E d \in alerts' : d.id = c.id /\ d.last = seen
  <2>1. CASE moved = {}
    <3> DEFINE new == [ id |-> id, in |-> in, severity |-> Severity(in.type),
                        occurrences |-> 1, last |-> seen, open |-> TRUE ]
    <3>1. alerts' = alerts \cup {new}
      BY <1>2, <2>1 DEF Upserted, moved
    <3>2. id \in RowIds \ { r.id : r \in alerts }
      BY <1>2, <2>1
    <3>3. new.id = id /\ new.last = seen /\ AlertRow(new)
      BY <1>3, <3>2 DEF AlertRow
    <3>4. id \in Nat
      BY <3>2, AlertsAssumption
    <3>5. IsFiniteSet(alerts')
      BY <1>t, <3>1, FS_AddElement DEF WalkInv, Ordered
    <3> HIDE DEF new
    <3>6. \A r \in alerts : r.id # new.id
      BY <3>2, <3>3
    <3> QED BY <1>3, <1>5, <1>6, <2>1, <3>1, <3>3, <3>4, <3>5, <3>6 DEF Ordered
  <2>2. CASE moved # {}
    <3>1. alerts' = { put(r) : r \in alerts }
      BY <1>2, <2>2 DEF Upserted, moved
    <3>2. \A r \in alerts : /\ put(r).id = r.id /\ AlertRow(put(r)) /\ put(r).last \in Nat
                            /\ r \in moved => put(r).last = seen
                            /\ r \notin moved => put(r) = r
      BY <1>3, <1>5 DEF AlertRow
    <3> HIDE DEF put
    <3>3. IsFiniteSet(alerts')
      <4> DEFINE change == [r \in alerts |-> put(r)]
      <4>1. alerts' = {change[r] : r \in alerts} /\ change \in [alerts -> alerts']
        BY <3>1
      <4> HIDE DEF change
      <4> QED BY <1>t, <4>1, ChangedAreFinite DEF WalkInv, Ordered
    <3>4. Ordered(alerts)'
      BY <1>5, <1>6, <3>1, <3>2, <3>3 DEF Ordered
    <3> QED BY <1>4, <3>1, <3>2, <3>4
  <2> QED BY <2>1, <2>2
<1>10. ASSUME NEW r \in OpenAlerts, r.id \in listing'.owed PROVE r \in OpenAlerts'
  BY <1>4, <1>7, <1>9, <1>10 DEF OpenAlerts
<1>11. ASSUME NEW c \in alerts, c.id = listing.cursor, ~listing'.astray
       PROVE  \E d \in alerts' : d.id = c.id /\ d.last >= c.last
  <2>1. CASE c \notin moved
    BY <1>5, <1>9, <2>1
  <2>2. CASE c \in moved
    <3>1. PICK d \in alerts' : d.id = c.id /\ d.last = seen
      BY <1>9, <2>2
    <3>2. ~(seen < c.last)
      BY <1>4, <1>7, <1>11, <2>2
    <3> QED BY <1>3, <1>5, <3>1, <3>2
  <2> QED BY <2>1, <2>2
<1>12. listing'.owed \subseteq listing.owed
  BY <1>7
<1> HIDE DEF put
<1> QED BY <1>1, <1>7, <1>8, <1>9, <1>10, <1>11, <1>12, MoveStep

\* A row acknowledged is owed no more, and stays where it is.
LEMMA CloseStep ==
    ASSUME AlertsInv, NEW id \in RowIds, CloseAlert(id)
    PROVE  AlertsInv'
<1> DEFINE put(r) == IF r.id = id /\ IsOpenRow(r) THEN [r EXCEPT !.open = FALSE] ELSE r
<1>t. AlertTypes /\ WalkInv
  BY DEF AlertsInv
<1>1. /\ alerts' = { put(r) : r \in alerts } /\ listing' = [listing EXCEPT !.owed = @ \ {id}]
      /\ UNCHANGED <<backend, now, folded, asking, refused, told>>
  BY DEF CloseAlert, Closed
<1>2. \A r \in alerts : /\ AlertRow(r) /\ r.id \in Nat /\ r.last \in Nat
                        /\ put(r).id = r.id /\ AlertRow(put(r)) /\ put(r).last = r.last
                        /\ r.id # id => put(r) = r
  BY <1>t DEF AlertTypes, WalkInv, Ordered, AlertRow
<1> HIDE DEF put
<1>3. IsFiniteSet(alerts')
  <2> DEFINE change == [r \in alerts |-> put(r)]
  <2>1. alerts' = {change[r] : r \in alerts} /\ change \in [alerts -> alerts']
    BY <1>1
  <2> HIDE DEF change
  <2> QED BY <1>t, <2>1, ChangedAreFinite DEF WalkInv, Ordered
<1>4. Ordered(alerts)' /\ \A r \in alerts' : AlertRow(r)
  BY <1>t, <1>1, <1>2, <1>3 DEF WalkInv, Ordered
<1>5. /\ listing' \in Walk /\ listing'.at = listing.at /\ listing'.cursor = listing.cursor
      /\ listing'.seen = listing.seen /\ listing'.owed = listing.owed \ {id}
      /\ listing'.astray = listing.astray
  BY <1>t, <1>1 DEF AlertTypes, Walk
<1>6. \A r \in OpenAlerts : r.id \in listing'.owed => r \in OpenAlerts'
  BY <1>1, <1>2, <1>5 DEF OpenAlerts
<1>7. \A c \in alerts : \E d \in alerts' : d.id = c.id /\ d.last >= c.last
  BY <1>1, <1>2
<1>8. /\ DOMAIN asking' = Requests
      /\ \A p \in Requests : "at" \in DOMAIN asking'[p] /\ (asking'[p].at = "store" => asking'[p].seen \in Nat)
  BY <1>t, <1>1 DEF AlertTypes
<1> QED BY <1>1, <1>4, <1>5, <1>6, <1>7, <1>8, MoveStep

\* Rows purged are owed no more, and the walk that stood on one is astray.
LEMMA PurgeAlertsStep ==
    ASSUME AlertsInv, NEW subject \in Subjects, PurgeAlerts(subject)
    PROVE  AlertsInv'
<1> DEFINE gone == { r \in alerts : r.in.tenant = Tenant /\ r.in.subject = subject }
           ids == { r.id : r \in gone }
<1>t. AlertTypes /\ WalkInv
  BY DEF AlertsInv
<1>1. /\ alerts' = alerts \ gone
      /\ listing' = [listing EXCEPT !.owed = @ \ ids,
                        !.astray = @ \/ (listing.at = "paging" /\ listing.cursor \in ids)]
      /\ UNCHANGED <<backend, now, folded, asking, refused, told>>
  BY DEF PurgeAlerts
<1> HIDE DEF gone
<1>2. IsFiniteSet(alerts')
  BY <1>t, <1>1, FS_Difference DEF WalkInv, Ordered
<1>3. Ordered(alerts)' /\ \A r \in alerts' : AlertRow(r)
  BY <1>t, <1>1, <1>2 DEF WalkInv, Ordered, AlertTypes
<1>4. /\ listing' \in Walk /\ listing'.at = listing.at /\ listing'.cursor = listing.cursor
      /\ listing'.seen = listing.seen /\ listing'.owed = listing.owed \ ids
      /\ listing.astray => listing'.astray
      /\ listing.at = "paging" /\ ~listing'.astray => listing.cursor \notin ids
  BY <1>t, <1>1 DEF AlertTypes, Walk
<1>5. \A r \in OpenAlerts : r.id \in listing'.owed => r \in OpenAlerts'
  BY <1>1, <1>4 DEF OpenAlerts
<1>6. \A c \in alerts : c.id = listing.cursor /\ ~listing'.astray /\ listing.at = "paging" =>
        \E d \in alerts' : d.id = c.id /\ d.last >= c.last
  <2>1. \A c \in alerts : c.last >= c.last
    BY <1>t DEF WalkInv, Ordered
  <2> QED BY <1>1, <1>4, <2>1
<1>7. /\ DOMAIN asking' = Requests
      /\ \A p \in Requests : "at" \in DOMAIN asking'[p] /\ (asking'[p].at = "store" => asking'[p].seen \in Nat)
  BY <1>t, <1>1 DEF AlertTypes
<1> QED BY <1>1, <1>3, <1>4, <1>5, <1>6, <1>7, MoveStep

-----------------------------------------------------------------------------
(* The walk.                                                               *)

\* A page shown to a walk that is owed nothing but what the page is taken from: it
\* ends having shown all of that, or goes on from a row ahead of all it has not shown.
LEMMA ShowStep ==
    ASSUME AlertsInv, NEW before \in Walk, NEW cursor \in Nat, ShowPage(before, cursor),
           UNCHANGED <<backend, now, folded, asking, alerts, refused, told>>,
           \A i \in before.owed : \E r \in OpenAlerts : r.id = i,
           ~before.astray =>
               \A r \in OpenAlerts : r.id \in before.owed \ before.seen => r \in Beyond(cursor)
    PROVE  AlertsInv'
<1> DEFINE shown == PageOf(Beyond(cursor))
           last == CHOOSE r \in shown : \A q \in shown : q = r \/ Ahead(q, r)
<1>t. AlertTypes /\ FoldInv /\ CrowdingHidesNobody /\ WalkInv
  BY DEF AlertsInv
<1>0. Beyond(cursor) \subseteq OpenAlerts /\ OpenAlerts \subseteq alerts
  BY DEF Beyond, OpenAlerts
<1>1. Ordered(alerts) /\ Ordered(OpenAlerts) /\ Ordered(Beyond(cursor))
  <2>1. IsFiniteSet(OpenAlerts) /\ IsFiniteSet(Beyond(cursor))
    BY <1>t, <1>0, FS_Subset DEF WalkInv, Ordered
  <2> QED BY <1>t, <1>0, <2>1 DEF WalkInv, Ordered
<1>2. /\ shown \subseteq Beyond(cursor)
      /\ \A f \in shown, r \in Beyond(cursor) : Ahead(r, f) => r \in shown
      /\ Cardinality(shown) # PageLimit => shown = Beyond(cursor)
      /\ Cardinality(shown) = PageLimit => shown # {}
  BY <1>1, PageIsAhead
<1>3. listing' = [before EXCEPT
         !.at = IF Cardinality(shown) = PageLimit THEN "paging" ELSE "ended",
         !.cursor = IF Cardinality(shown) = PageLimit THEN last.id ELSE 0,
         !.seen = @ \cup { r.id : r \in shown }]
  BY DEF ShowPage
<1> HIDE DEF shown
<1>4. ASSUME shown # {} PROVE last \in shown /\ \A q \in shown : q = last \/ Ahead(q, last)
  <2>1. Ordered(shown)
    <3>1. IsFiniteSet(shown)
      BY <1>1, <1>2, FS_Subset DEF Ordered
    <3> QED BY <1>1, <1>2, <3>1 DEF Ordered
  <2>2. \E r \in shown : \A q \in shown : q = r \/ Ahead(q, r)
    BY <1>4, <2>1, HasLast
  <2> QED BY <2>2
<1> HIDE DEF last
<1>5. { r.id : r \in shown } \subseteq Nat
  BY <1>1, <1>2 DEF Ordered
<1>6. /\ listing' \in Walk
      /\ listing'.at = IF Cardinality(shown) = PageLimit THEN "paging" ELSE "ended"
      /\ Cardinality(shown) = PageLimit => listing'.cursor = last.id
      /\ listing'.seen = before.seen \cup { r.id : r \in shown }
      /\ listing'.owed = before.owed /\ listing'.astray = before.astray
  <2>1. (IF Cardinality(shown) = PageLimit THEN last.id ELSE 0) \in Nat
    BY <1>2, <1>4, <1>5
  <2> QED BY <1>3, <1>5, <2>1 DEF Walk
<1>7. ASSUME listing'.at = "paging", ~listing'.astray, backend' # "postgres" PROVE OnCourse'
  <2>1. shown # {} /\ last \in shown /\ \A q \in shown : q = last \/ Ahead(q, last)
    BY <1>2, <1>4, <1>6, <1>7
  <2>2. ASSUME NEW r \in OpenAlerts, r.id \in listing'.owed \ listing'.seen PROVE Ahead(last, r)
    <3>1. r \in Beyond(cursor)
      BY <1>6, <1>7, <2>2
    <3>2. r \notin shown
      BY <1>6, <2>2
    <3>3. ~Ahead(r, last) /\ r # last
      BY <1>2, <2>1, <3>1, <3>2
    <3> QED BY <1>1, <1>2, <2>1, <3>1, <3>3, AheadIsTotal
  <2>3. last \in alerts' /\ last.id = listing'.cursor /\ OpenAlerts' = OpenAlerts
    BY <1>0, <1>2, <1>6, <1>7, <2>1 DEF OpenAlerts, IsOpenRow
  <2>4. \A r \in OpenAlerts' : r.id \in listing'.owed \ listing'.seen => Ahead(last, r)
    BY <2>2, <2>3
  <2> QED BY <2>3, <2>4 DEF OnCourse, Ahead
<1>8. ASSUME listing'.at = "ended", ~listing'.astray, NEW i \in listing'.owed PROVE i \in listing'.seen
  <2>1. PICK r \in OpenAlerts : r.id = i
    BY <1>6, <1>8
  <2>2. shown = Beyond(cursor)
    BY <1>2, <1>6, <1>8
  <2> QED BY <1>6, <1>8, <2>1, <2>2
<1>9. WalkInv' /\ WalkSkipsNothing'
  <2>1. WalkSkipsNothing'
    BY <1>8 DEF WalkSkipsNothing
  <2>2. OpenAlerts' = OpenAlerts
    BY DEF OpenAlerts, IsOpenRow
  <2>3. \A i \in listing'.owed : \E r \in OpenAlerts' : r.id = i
    BY <1>6, <2>2
  <2>4. Ordered(alerts)'
    BY <1>1 DEF Ordered
  <2> QED BY <1>7, <2>1, <2>3, <2>4 DEF WalkInv
<1>10. AlertTypes' /\ FoldInv' /\ CrowdingHidesNobody'
  BY <1>t, <1>6 DEF AlertTypes, FoldInv, CrowdingHidesNobody, AlertRow, NotYet
<1> QED BY <1>9, <1>10 DEF AlertsInv

LEMMA FirstStep ==
    ASSUME AlertsInv, FirstAlerts
    PROVE  AlertsInv'
<1> DEFINE before == [Resting EXCEPT !.owed = { r.id : r \in OpenAlerts }]
<1>1. { r.id : r \in OpenAlerts } \subseteq Nat
  BY DEF AlertsInv, WalkInv, Ordered, OpenAlerts
<1>2. before \in Walk /\ before.owed = { r.id : r \in OpenAlerts }
  BY <1>1 DEF Walk, Resting
<1>3. ShowPage(before, 0) /\ UNCHANGED <<backend, now, folded, asking, alerts, refused, told>>
  BY DEF FirstAlerts
<1>4. Beyond(0) = OpenAlerts
  BY DEF Beyond
<1> HIDE DEF before
<1>5. \A i \in before.owed : \E r \in OpenAlerts : r.id = i
  BY <1>2
<1> QED BY <1>2, <1>3, <1>4, <1>5, ShowStep

LEMMA NextStep ==
    ASSUME AlertsInv, NextAlerts
    PROVE  AlertsInv'
<1>1. /\ listing \in Walk /\ listing.cursor \in Nat /\ listing.at = "paging"
      /\ ShowPage(listing, listing.cursor)
      /\ UNCHANGED <<backend, now, folded, asking, alerts, refused, told>>
  BY DEF NextAlerts, AlertsInv, AlertTypes, Walk
<1>2. \A i \in listing.owed : \E r \in OpenAlerts : r.id = i
  BY DEF AlertsInv, WalkInv
<1>3. ASSUME ~listing.astray, NEW r \in OpenAlerts, r.id \in listing.owed \ listing.seen
      PROVE  r \in Beyond(listing.cursor)
  <2>1. CASE backend = "postgres"
    BY <2>1 DEF Beyond
  <2>2. CASE backend # "postgres"
    <3>1. PICK c \in alerts : c.id = listing.cursor /\ Ahead(c, r)
      BY <1>1, <1>3, <2>2 DEF AlertsInv, WalkInv, OnCourse
    <3> QED BY <3>1 DEF Beyond
  <2> QED BY <2>1, <2>2
<1> QED BY <1>1, <1>2, <1>3, ShowStep

-----------------------------------------------------------------------------
(* The theorems.                                                           *)

LEMMA AlertsStart == AlertsInit => AlertsInv
<1> SUFFICES ASSUME AlertsInit PROVE AlertsInv
  OBVIOUS
<1>1. AlertTypes
  BY DEF AlertsInit, AlertTypes, NotAsking, NotYet, Resting, Walk
<1>2. FoldInv /\ CrowdingHidesNobody
  BY DEF AlertsInit, FoldInv, CrowdingHidesNobody
<1>3. WalkInv /\ WalkSkipsNothing
  BY FS_EmptySet DEF AlertsInit, WalkInv, Ordered, WalkSkipsNothing, Resting
<1> QED BY <1>1, <1>2, <1>3 DEF AlertsInv

LEMMA AlertsStep == AlertsInv /\ [AlertsNext]_alertVars => AlertsInv'
<1> SUFFICES ASSUME AlertsInv, [AlertsNext]_alertVars PROVE AlertsInv'
  OBVIOUS
<1>t. /\ now \in Nat /\ DOMAIN asking = Requests
      /\ \A q \in Requests : "at" \in DOMAIN asking[q] /\ (asking[q].at = "store" => asking[q].seen \in Nat)
  BY DEF AlertsInv, AlertTypes
<1>1. ASSUME NEW q \in Requests, NEW s \in Sources, NEW credential \in 0..1,
             RefuseCredential(q, s, credential)
      PROVE  AlertsInv'
  BY <1>1, RefuseStep
<1>2. ASSUME NEW q \in Requests, RecordRejection(q) PROVE AlertsInv'
  <2>1. /\ UNCHANGED <<backend, now, folded, alerts, refused, told, listing>>
        /\ asking' = [asking EXCEPT ![q] = [asking[q] EXCEPT !.at = "raise"]]
    BY <1>2 DEF RecordRejection, Proceed
  <2>2. DOMAIN asking' = Requests /\ \A p \in Requests :
          asking'[p] = asking[p] \/ ("at" \in DOMAIN asking'[p] /\ asking'[p].at # "store")
    BY <1>t, <2>1
  <2> QED BY <1>t, <2>1, <2>2, AskingStep
<1>3. ASSUME NEW q \in Requests, NEW occurrence \in Occurrences, Occur(q, occurrence) PROVE AlertsInv'
  <2>1. /\ UNCHANGED <<backend, now, folded, alerts, refused, told, listing>>
        /\ asking' = [asking EXCEPT ![q] =
             [ at |-> "raise", in |-> Input(Tenant, occurrence[1], occurrence[2], occurrence[3]),
               refusals |-> 0 ]]
    BY <1>3 DEF Occur, Proceed
  <2>2. DOMAIN asking' = Requests /\ \A p \in Requests :
          asking'[p] = asking[p] \/ ("at" \in DOMAIN asking'[p] /\ asking'[p].at # "store")
    BY <1>t, <2>1
  <2> QED BY <1>t, <2>1, <2>2, AskingStep
<1>4. ASSUME NEW q \in Requests, DateOccurrence(q) PROVE AlertsInv'
  <2>1. /\ UNCHANGED <<backend, now, folded, alerts, refused, told, listing>>
        /\ asking' = [asking EXCEPT ![q] = [at |-> "store", in |-> asking[q].in, seen |-> now]]
    BY <1>4 DEF DateOccurrence, Proceed
  <2>2. DOMAIN asking' = Requests /\ \A p \in Requests :
          asking'[p] = asking[p] \/ ("at" \in DOMAIN asking'[p] /\ asking'[p].seen \in Nat)
    BY <1>t, <2>1
  <2> QED BY <1>t, <2>1, <2>2, AskingStep
<1>5. ASSUME NEW q \in Requests, RaiseLost(q) PROVE AlertsInv'
  <2>1. /\ UNCHANGED <<backend, now, folded, alerts, refused, told, listing>>
        /\ asking' = [asking EXCEPT ![q] = NotAsking]
    BY <1>5 DEF RaiseLost, Proceed
  <2>2. DOMAIN asking' = Requests /\ \A p \in Requests :
          asking'[p] = asking[p] \/ ("at" \in DOMAIN asking'[p] /\ asking'[p].at # "store")
    BY <1>t, <2>1 DEF NotAsking
  <2> QED BY <1>t, <2>1, <2>2, AskingStep
<1>6. ASSUME AlertClock \/ UNCHANGED alertVars PROVE AlertsInv'
  <2>1. /\ UNCHANGED <<backend, folded, asking, alerts, refused, told, listing>>
        /\ now' \in Nat /\ now' >= now
    BY <1>t, <1>6 DEF AlertClock, alertVars
  <2> QED BY <1>t, <2>1, AskingStep
<1> QED BY <1>1, <1>2, <1>3, <1>4, <1>5, <1>6, StoreStep, CloseStep, PurgeAlertsStep, FirstStep, NextStep
        DEF AlertsNext

LEMMA AlertsStaySound == AlertsSpec => []AlertsInv
BY AlertsStart, AlertsStep, PTL DEF AlertsSpec

\* However many other addresses are refused, and whichever run of the fold is given up
\* for them (evictLocked), an address is reported within a window of its refusals.
THEOREM NobodyIsCrowdedOut == AlertsSpec => []CrowdingHidesNobody
<1>1. AlertsInv => CrowdingHidesNobody
  BY DEF AlertsInv
<1> QED BY <1>1, AlertsStaySound, PTL

\* A walk of the queue shows every alert that stayed open and where it was, for any
\* number of rows, pages and occurrences in between (ListAlerts, handleAlertList).
THEOREM WalksAreComplete == AlertsSpec => []WalkSkipsNothing
<1>1. AlertsInv => WalkSkipsNothing
  BY DEF AlertsInv
<1> QED BY <1>1, AlertsStaySound, PTL

-----------------------------------------------------------------------------
(* The console: the inductive invariant.                                   *)

VisitStage ==
    {"idle", "done", "required", "mint", "find key", "find token", "record", "token", "form",
     "act", "audit", "codes", "read key", "count keys", "withdraw", "count withdrawal",
     "begin enrol", "enrol", "store key", "rotate"}

AnyRole == Roles \cup {"none"}

SomeToken == AdminIds \cup {Nobody}

SomeVisit == Visits \cup {Nobody}

BrowserVisit ==
    [stage : VisitStage, kind : VisitKinds, browser : Browsers, token : SomeToken,
     of : SomeVisit, cookie : SomeVisit, form : SomeVisit, at : Nat, late : BOOLEAN,
     role : AnyRole, key : {"none", "key", "spare key"}]

AnyPasskey == [owner : SomeToken, state : {"none", "active", "withdrawn"}]

AnyChallenge ==
    [ceremony : {"none", "assertion", "registration"}, token : SomeToken,
     state : {"none", "open", "consumed", "lapsed"}]

AnySession == [token : SomeToken, role : AnyRole, born : Nat, seen : Nat]

\* The variables the proofs reason about keep their types.
ConsoleTypes ==
    /\ admin \in [AdminIds -> [state : {"usable", "revoked", "absent"}, role : Roles]]
    /\ passkey \in [Visits -> AnyPasskey]
    /\ challenge \in [Visits -> AnyChallenge]
    /\ session \in [Visits -> AnySession]
    /\ jar \in [Browsers -> SomeVisit] /\ page \in [Browsers -> SomeVisit]
    /\ visit \in [Visits -> BrowserVisit]
    /\ ctime \in Nat /\ rbac \in BOOLEAN

\* A passkey's holder is a token.
PasskeyInv == \A v \in Visits : passkey[v].state = "active" => passkey[v].owner \in AdminIds

Done(v) == visit[v].stage = "done"

Known(a) == a \in AdminIds /\ admin[a].state # "absent"

\* A session belongs to the token of the visit that signed in, from that instant.
Backed(c) ==
    /\ Done(c)
    /\ Known(visit[c].token)
    /\ session[c].token = visit[c].token /\ session[c].born = visit[c].at

KeyStages == {"find key", "find token", "record", "mint"}

\* A sign-in under way has a token, and one by passkey a challenge that is spent.
SigningIn(v) ==
    /\ visit[v].stage \in {"required", "record", "mint"} => Known(visit[v].token)
    /\ visit[v].stage = "find token" => visit[v].token \in AdminIds
    /\ visit[v].stage \in {"find key", "find token", "record"} => visit[v].kind = "passkey"
    /\ visit[v].stage \in {"idle", "required"} => ~visit[v].late
    /\ visit[v].stage = "required" => visit[v].kind = "paste"
    /\ visit[v].kind = "passkey" => visit[v].of \in Visits
    /\ visit[v].kind \in {"paste", "revoke token"} => visit[v].token \in AdminIds
    /\ visit[v].stage = "mint" => ~visit[v].late

\* A request with a session carries the token and the start of that session; if it came
\* late, its token is revoked, and it does not get past the reading of the token.  One
\* that acts was sent from a page of that session, with the permission of its kind.
Requesting(v) ==
    /\ visit[v].stage \in {"token", "form", "act"} =>
          LET c == visit[v].cookie IN
          /\ c \in Visits /\ Done(c)
          /\ Known(visit[v].token) /\ visit[v].token = visit[c].token
          /\ visit[v].at < visit[c].at + AbsoluteTTL
    /\ visit[v].stage \in {"enrol", "store key"} => visit[v].token \in AdminIds
    /\ visit[v].stage = "token" /\ visit[v].late => admin[visit[v].token].state = "revoked"
    /\ visit[v].stage \in {"form", "act"} => ~visit[v].late
    /\ visit[v].stage = "act" =>
          /\ visit[v].form = visit[v].cookie
          /\ visit[v].kind \in DOMAIN FormPermission =>
                Authorise(visit[v].role, FormPermission[visit[v].kind], rbac)

\* A visit that has spent a challenge to sign in with a passkey.
Holding(v) ==
    /\ visit[v].kind = "passkey"
    /\ visit[v].stage \in KeyStages \/ \E x \in signIns : x.visit = v

\* What a challenge was spent on.
HoldersInv ==
    /\ \A v \in Visits : Holding(v) =>
          visit[v].form \in Visits /\ challenge[visit[v].form].state = "consumed"
    /\ \A v, w \in Visits : Holding(v) /\ Holding(w) /\ visit[v].form = visit[w].form => v = w

SignInOf(v) ==
    [visit |-> v, token |-> visit[v].token, kind |-> visit[v].kind,
     challenge |-> visit[v].form, ended |-> visit[v].cookie]

SignInIsRight(x) ==
    /\ x.visit \in Visits /\ Done(x.visit) /\ x = SignInOf(x.visit)
    /\ x.kind = "passkey" => ~visit[x.visit].late

ActIsRight(x) ==
    /\ x.session \in Visits /\ Done(x.session)
    /\ ~x.late /\ x.at < visit[x.session].at + AbsoluteTTL
    /\ x.page = x.token
    /\ rbac /\ x.role = "auditor" => x.kind \in OwnForms \cup {"reference", "check history"}

ConsoleInv ==
    /\ ConsoleTypes
    /\ PasskeyInv
    /\ \A c \in Visits : Live(c) => Backed(c)
    /\ \A c \in Visits : challenge[c].state # "none" => Done(c)
    /\ \A v \in Visits : SigningIn(v) /\ Requesting(v)
    /\ HoldersInv
    /\ \A x \in signIns : SignInIsRight(x)
    /\ \A x \in acts : ActIsRight(x)

-----------------------------------------------------------------------------
(* What a step of one visit leaves alone.                                  *)

\* Tokens are not forgotten, nor their revocations.
TokensStay ==
    \A a \in AdminIds : /\ admin[a].state # "absent" => admin'[a].state # "absent"
                        /\ admin[a].state = "revoked" => admin'[a].state = "revoked"

\* A spent challenge stays spent, and the visit v alone may begin one, as its last step.
ChallengesStay(v) ==
    \A c \in Visits : /\ challenge'[c].state # "none" => challenge[c].state # "none" \/ (c = v /\ Done(v)')
                      /\ challenge[c].state = "consumed" => challenge'[c].state = "consumed"

\* No session is made, or it is v's.
SessionsStay(v) ==
    \A c \in Visits : Live(c)' => \/ /\ Live(c)
                                     /\ session'[c].token = session[c].token
                                     /\ session'[c].born = session[c].born
                                  \/ c = v /\ Backed(v)'

\* The visit v has no challenge, or the one it had, or takes one not spent before.
TakesOwn(v) ==
    visit'[v].kind = "passkey" /\ visit'[v].stage \in KeyStages =>
        /\ visit'[v].form \in Visits /\ challenge'[visit'[v].form].state = "consumed"
        /\ \/ Holding(v) /\ visit'[v].form = visit[v].form
           \/ challenge[visit'[v].form].state # "consumed"

\* No sign-in is recorded, or it is v's, of a sign-in under way.
SignInsStay(v) ==
    \/ signIns' = signIns
    \/ /\ signIns' = signIns \cup {SignInOf(v)'} /\ Done(v)'
       /\ visit'[v].form = visit[v].form
       /\ visit[v].stage = "mint" /\ ~visit'[v].late

LEMMA VisitStep ==
    ASSUME ConsoleInv, ConsoleTypes', PasskeyInv', rbac' = rbac,
           NEW v \in Visits, ~Done(v), visit'[v].kind = visit[v].kind,
           \A w \in Visits \ {v} : visit'[w] = visit[w],
           TokensStay, ChallengesStay(v), SessionsStay(v), SigningIn(v)', Requesting(v)',
           TakesOwn(v), SignInsStay(v),
           \A x \in acts' : x \in acts \/ ActIsRight(x)
    PROVE  ConsoleInv'
<1>i. /\ ConsoleTypes /\ HoldersInv
      /\ \A c \in Visits : Live(c) => Backed(c)
      /\ \A c \in Visits : challenge[c].state # "none" => Done(c)
      /\ \A w \in Visits : SigningIn(w) /\ Requesting(w)
      /\ \A x \in signIns : SignInIsRight(x)
      /\ \A x \in acts : ActIsRight(x)
  BY DEF ConsoleInv
<1>1. \A w \in Visits : Done(w) => w # v /\ Done(w)' /\ visit'[w] = visit[w]
  BY DEF Done
<1>2. \A a : Known(a) => Known(a)'
  BY DEF Known, TokensStay
<1>3. ASSUME NEW c \in Visits, Live(c)' PROVE Backed(c)'
  BY <1>i, <1>1, <1>2, <1>3 DEF Backed, SessionsStay
<1>4. ASSUME NEW c \in Visits, challenge'[c].state # "none" PROVE Done(c)'
  BY <1>i, <1>1, <1>4 DEF ChallengesStay
<1>5. ASSUME NEW w \in Visits PROVE SigningIn(w)' /\ Requesting(w)'
  <2>1. CASE w = v
    BY <2>1
  <2>2. CASE w # v
    <3>1. visit'[w] = visit[w] /\ SigningIn(w) /\ Requesting(w)
      BY <1>i, <2>2
    <3>2. SigningIn(w)'
      BY <3>1, <1>2 DEF SigningIn
    <3>3. Requesting(w)'
      <4>1. visit[w].stage \in {"token", "form", "act"} => Known(visit[w].token) /\ visit[w].cookie \in Visits /\ Done(visit[w].cookie)
        BY <3>1 DEF Requesting
      <4>2. visit[w].stage \in {"token", "form", "act"} =>
              visit'[visit[w].cookie] = visit[visit[w].cookie]
        BY <1>1, <4>1
      <4>3. visit[w].stage = "token" /\ visit[w].late => admin'[visit[w].token].state = "revoked"
        BY <3>1, <4>1 DEF Requesting, Known, TokensStay
      <4> QED BY <1>1, <1>2, <3>1, <4>1, <4>2, <4>3 DEF Requesting, Authorise, Allowed
    <3> QED BY <3>2, <3>3
  <2> QED BY <2>1, <2>2
<1>6. \A x \in signIns : SignInIsRight(x)' /\ x \in signIns'
  BY <1>i, <1>1 DEF SignInIsRight, SignInOf, SignInsStay
<1>7. \A x \in signIns' : SignInIsRight(x)'
  <2>1. CASE signIns' = signIns
    BY <1>6, <2>1
  <2>2. CASE signIns' = signIns \cup {SignInOf(v)'} /\ Done(v)' /\ ~visit'[v].late
    <3>1. SignInOf(v)'.visit = v
      BY DEF SignInOf
    <3>2. SignInIsRight(SignInOf(v))'
      BY <2>2, <3>1 DEF SignInIsRight, SignInOf
    <3> QED BY <1>6, <2>2, <3>2 DEF SignInIsRight, SignInOf
  <2> QED BY <2>1, <2>2 DEF SignInsStay
<1>8. \A x \in acts' : ActIsRight(x)'
  BY <1>i, <1>1 DEF ActIsRight
<1>9. \A w \in Visits \ {v} : Holding(w)' => Holding(w) /\ visit'[w].form = visit[w].form
  BY DEF Holding, SignInsStay, SignInOf
<1>10. Holding(v)' => /\ visit'[v].form \in Visits /\ challenge'[visit'[v].form].state = "consumed"
                      /\ \/ Holding(v) /\ visit'[v].form = visit[v].form
                         \/ challenge[visit'[v].form].state # "consumed"
  <2>1. ~ \E x \in signIns : x.visit = v
    BY <1>i DEF SignInIsRight
  <2>2. CASE visit'[v].stage \in KeyStages
    BY <2>2 DEF Holding, TakesOwn
  <2>3. CASE visit'[v].stage \notin KeyStages /\ signIns' = signIns
    BY <2>1, <2>3 DEF Holding
  <2>4. CASE /\ visit'[v].form = visit[v].form /\ visit[v].stage = "mint" /\ visit[v].kind = "passkey"
    <3>1. Holding(v)
      BY <2>4 DEF Holding, KeyStages
    <3>2. visit[v].form \in Visits /\ challenge[visit[v].form].state = "consumed"
      BY <1>i, <3>1 DEF HoldersInv
    <3> QED BY <2>4, <3>1, <3>2 DEF ChallengesStay
  <2> QED BY <2>2, <2>3, <2>4 DEF Holding, SignInsStay
<1>11. HoldersInv'
  <2>1. ASSUME NEW w \in Visits, Holding(w)'
        PROVE  visit'[w].form \in Visits /\ challenge'[visit'[w].form].state = "consumed"
    BY <1>i, <1>9, <1>10, <2>1 DEF HoldersInv, ChallengesStay
  <2>2. ASSUME NEW w \in Visits, NEW u \in Visits, Holding(w)', Holding(u)',
               visit'[w].form = visit'[u].form
        PROVE  w = u
    BY <1>i, <1>9, <1>10, <2>2 DEF HoldersInv
  <2> QED BY <2>1, <2>2 DEF HoldersInv
<1> QED BY <1>3, <1>4, <1>5, <1>7, <1>8, <1>11 DEF ConsoleInv

-----------------------------------------------------------------------------
(* The steps of a visit that is not signing in, nor on its way to a form.  *)

Quiet == VisitStage \ (KeyStages \cup {"idle", "required", "token", "form", "act"})

LEMMA StepTo ==
    ASSUME ConsoleTypes, NEW v \in Visits, NEW to \in VisitStage, Step(v, to)
    PROVE  /\ visit' \in [Visits -> BrowserVisit]
           /\ visit'[v].stage = to
           /\ visit'[v].kind = visit[v].kind /\ visit'[v].token = visit[v].token
           /\ visit'[v].of = visit[v].of /\ visit'[v].cookie = visit[v].cookie
           /\ visit'[v].form = visit[v].form /\ visit'[v].at = visit[v].at
           /\ visit'[v].late = visit[v].late /\ visit'[v].role = visit[v].role
           /\ \A w \in Visits \ {v} : visit'[w] = visit[w]
<1>1. visit \in [Visits -> BrowserVisit] /\ visit' = [visit EXCEPT ![v] = [visit[v] EXCEPT !.stage = to]]
  BY DEF ConsoleTypes, Step
<1>2. ASSUME NEW r \in BrowserVisit
      PROVE  LET s == [r EXCEPT !.stage = to]
             IN  /\ s \in BrowserVisit /\ s.stage = to /\ s.kind = r.kind /\ s.token = r.token
                 /\ s.of = r.of /\ s.cookie = r.cookie /\ s.form = r.form /\ s.at = r.at
                 /\ s.late = r.late /\ s.role = r.role
  BY DEF BrowserVisit
<1> QED BY <1>1, <1>2

LEMMA VisitFields ==
    ASSUME ConsoleTypes, NEW v \in Visits
    PROVE  /\ visit[v] \in BrowserVisit
           /\ visit[v].browser \in Browsers /\ visit[v].token \in SomeToken
           /\ visit[v].of \in SomeVisit /\ visit[v].cookie \in SomeVisit
           /\ visit[v].form \in SomeVisit /\ visit[v].at \in Nat
<1>1. visit[v] \in BrowserVisit
  BY DEF ConsoleTypes
<1> QED BY <1>1 DEF BrowserVisit

\* The visit moves on and nothing else that matters here changes, but what it acted on.
LEMMA QuietStep ==
    ASSUME ConsoleInv, ConsoleTypes', PasskeyInv', rbac' = rbac,
           NEW v \in Visits, ~Done(v), visit'[v].stage \in Quiet,
           visit'[v].kind = visit[v].kind, visit'[v].of = visit[v].of,
           visit'[v].token = visit[v].token,
           visit'[v].stage \in {"enrol", "store key"} => visit[v].token \in AdminIds,
           \A w \in Visits \ {v} : visit'[w] = visit[w],
           TokensStay, ChallengesStay(v), SessionsStay(v), signIns' = signIns,
           \A x \in acts' : x \in acts \/ ActIsRight(x)
    PROVE  ConsoleInv'
<1>1. SigningIn(v)' /\ Requesting(v)'
  <2>1. SigningIn(v)
    BY DEF ConsoleInv
  <2> QED BY <2>1 DEF SigningIn, Requesting, Quiet, KeyStages
<1>2. TakesOwn(v) /\ SignInsStay(v)
  BY DEF TakesOwn, SignInsStay, Quiet
<1> QED BY <1>1, <1>2, VisitStep

\* Tokens, challenges and sessions are as they were.
LEMMA StandStill ==
    ASSUME UNCHANGED <<admin, challenge, session>>, NEW v \in Visits
    PROVE  TokensStay /\ ChallengesStay(v) /\ SessionsStay(v)
BY DEF TokensStay, ChallengesStay, SessionsStay, Live

\* A form that was let through acts in its session's name.
LEMMA ActingIsRight ==
    ASSUME ConsoleInv, NEW v \in Visits, visit[v].stage = "act",
           visit[v].kind \in DOMAIN FormPermission \cup OwnForms,
           Acted(v)
    PROVE  \A x \in acts' : x \in acts \/ ActIsRight(x)
<1> DEFINE x == [visit |-> v, kind |-> visit[v].kind, token |-> visit[v].token,
                 role |-> visit[v].role, session |-> visit[v].cookie,
                 page |-> IF visit[v].form = Nobody THEN Nobody ELSE visit[visit[v].form].token,
                 at |-> visit[v].at, late |-> visit[v].late]
<1>1. acts' = acts \cup {x}
  BY DEF Acted
<1>2. Requesting(v)
  BY DEF ConsoleInv
<1>3. visit[v].cookie \in Visits /\ visit[v].form = visit[v].cookie /\ visit[v].form # Nobody
  BY <1>2, ConsoleAssumption DEF Requesting
<1>4. x.page = x.token
  BY <1>2, <1>3 DEF Requesting
<1>5. ASSUME rbac, x.role = "auditor", x.kind \in DOMAIN FormPermission
      PROVE  x.kind \in {"reference", "check history"}
  <2>1. Authorise("auditor", FormPermission[x.kind], rbac)
    BY <1>2, <1>5 DEF Requesting
  <2>2. FormPermission[x.kind] \in ReadPermissions \cup SelfServicePermissions
    BY <1>5, <2>1 DEF Authorise, Allowed, RolePermissions
  <2> QED BY <1>5, <2>2 DEF FormPermission, ReadPermissions, SelfServicePermissions
<1>6. ActIsRight(x)
  <2>1. /\ x.session \in Visits /\ Done(x.session) /\ ~x.late
        /\ x.at < visit[x.session].at + AbsoluteTTL
    BY <1>2 DEF Requesting
  <2>2. rbac /\ x.role = "auditor" => x.kind \in OwnForms \cup {"reference", "check history"}
    BY <1>5
  <2> QED BY <1>4, <2>1, <2>2 DEF ActIsRight
<1> QED BY <1>1, <1>6

\* The forms that touch neither tokens nor sessions.
LEMMA FormStep ==
    ASSUME ConsoleInv, NEW v \in Visits,
           \/ SetSubjectStatus(v) \/ ClearLimit(v) \/ FindPerson(v) \/ ShowReference(v)
           \/ CheckHistory(v) \/ CheckBurst(v) \/ Acknowledge(v) \/ Decide(v)
    PROVE  ConsoleInv'
<1>t. ConsoleTypes /\ PasskeyInv
  BY DEF ConsoleInv
<1>1. /\ visit[v].stage = "act" /\ visit[v].kind \in DOMAIN FormPermission
      /\ Acted(v) /\ rbac' = rbac
      /\ UNCHANGED Elsewhere
  BY DEF SetSubjectStatus, ClearLimit, FindPerson, ShowReference, CheckHistory, CheckBurst,
         Acknowledge, Decide, Acting, FormPermission
<1>2. PICK to \in {"audit", "done", "codes", "read key"} : Step(v, to)
  BY DEF SetSubjectStatus, ClearLimit, FindPerson, ShowReference, CheckHistory, CheckBurst,
         Acknowledge, Decide, Acting
<1>3. UNCHANGED <<admin, passkey, challenge, session, jar, page, ctime, signIns>>
  BY <1>1 DEF Elsewhere
<1>4. to \in VisitStage /\ to \in Quiet
  BY DEF VisitStage, Quiet, KeyStages
<1>5. ConsoleTypes' /\ PasskeyInv'
  BY <1>t, <1>1, <1>2, <1>3, <1>4, StepTo DEF ConsoleTypes, PasskeyInv
<1>6. \A x \in acts' : x \in acts \/ ActIsRight(x)
  BY <1>1, ActingIsRight
<1>7. ~Done(v)
  BY <1>1 DEF Done
<1> QED BY <1>t, <1>1, <1>2, <1>3, <1>4, <1>5, <1>6, <1>7, StepTo, StandStill, QuietStep

\* A form that ends its session.
LEMMA SignOutStep ==
    ASSUME ConsoleInv, NEW v \in Visits, SignOut(v)
    PROVE  ConsoleInv'
<1>t. ConsoleTypes /\ PasskeyInv /\ Requesting(v)
  BY DEF ConsoleInv
<1>1. /\ visit[v].stage = "act" /\ visit[v].kind = "sign out" /\ Acted(v) /\ rbac' = rbac
      /\ Step(v, "done") /\ session' = Destroyed(visit[v].cookie)
      /\ jar' = [jar EXCEPT ![visit[v].browser] = Nobody]
      /\ UNCHANGED <<admin, passkey, challenge, page, ctime, signIns>>
  BY DEF SignOut, Acting
<1>2. "done" \in VisitStage /\ "done" \in Quiet
  BY DEF VisitStage, Quiet, KeyStages
<1>3. visit[v].cookie \in Visits /\ visit[v].browser \in Browsers
  BY <1>t, <1>1, VisitFields DEF Requesting
<1>4. session' = [session EXCEPT ![visit[v].cookie] = NoSession]
  BY <1>1, <1>3, ConsoleAssumption DEF Destroyed
<1>5. NoSession \in AnySession
  BY DEF NoSession, SomeToken, AnyRole, AnySession
<1>6. ConsoleTypes' /\ PasskeyInv'
  <2>1. visit' \in [Visits -> BrowserVisit]
    BY <1>t, <1>1, <1>2, StepTo
  <2>2. session' \in [Visits -> AnySession]
    BY <1>t, <1>4, <1>5 DEF ConsoleTypes
  <2>3. jar' \in [Browsers -> SomeVisit]
    BY <1>t, <1>1 DEF ConsoleTypes, SomeVisit
  <2> QED BY <1>t, <1>1, <2>1, <2>2, <2>3 DEF ConsoleTypes, PasskeyInv
<1>7. TokensStay /\ ChallengesStay(v) /\ SessionsStay(v)
  BY <1>t, <1>1, <1>4 DEF TokensStay, ChallengesStay, SessionsStay, Live, ConsoleTypes
<1>8. \A x \in acts' : x \in acts \/ ActIsRight(x)
  BY <1>1, ActingIsRight DEF OwnForms
<1>9. ~Done(v)
  BY <1>1 DEF Done
<1> QED BY <1>t, <1>1, <1>2, <1>6, <1>7, <1>8, <1>9, StepTo, QuietStep

\* A passkey withdrawn: it was the operator's own.
LEMMA WithdrawPasskeyStep ==
    ASSUME ConsoleInv, NEW v \in Visits, WithdrawPasskey(v)
    PROVE  ConsoleInv'
<1>t. ConsoleTypes /\ PasskeyInv
  BY DEF ConsoleInv
<1>1. /\ visit[v].stage = "act" /\ visit[v].kind = "withdraw passkey" /\ Acted(v) /\ rbac' = rbac
      /\ \/ passkey' = passkey \/ passkey' = [passkey EXCEPT ![visit[v].of].state = "withdrawn"]
      /\ UNCHANGED <<admin, challenge, session, jar, page, ctime, signIns>>
  BY DEF WithdrawPasskey, Acting
<1>2. PICK to \in {"audit", "done"} : Step(v, to) /\ to \in VisitStage /\ to \in Quiet
  BY DEF WithdrawPasskey, Acting, VisitStage, Quiet, KeyStages
<1>3. /\ passkey' \in [Visits -> AnyPasskey]
      /\ PasskeyInv'
  <2>0. passkey \in [Visits -> AnyPasskey]
    BY <1>t DEF ConsoleTypes
  <2>1. CASE passkey' = passkey
    BY <1>t, <2>0, <2>1 DEF PasskeyInv
  <2>2. CASE passkey' = [passkey EXCEPT ![visit[v].of].state = "withdrawn"]
    BY <1>t, <2>0, <2>2 DEF PasskeyInv, AnyPasskey
  <2> QED BY <1>1, <2>1, <2>2
<1>4. ConsoleTypes'
  BY <1>t, <1>1, <1>2, <1>3, StepTo DEF ConsoleTypes
<1>5. \A x \in acts' : x \in acts \/ ActIsRight(x)
  BY <1>1, ActingIsRight DEF OwnForms
<1>6. ~Done(v)
  BY <1>1 DEF Done
<1> QED BY <1>t, <1>1, <1>2, <1>3, <1>4, <1>5, <1>6, StepTo, StandStill, QuietStep

\* An enrolment's form, once the token behind it was read again.
LEMMA OwnTokenStep ==
    ASSUME ConsoleInv, NEW v \in Visits, OwnToken(v)
    PROVE  ConsoleInv'
<1>t. ConsoleTypes /\ PasskeyInv /\ Requesting(v)
  BY DEF ConsoleInv
<1>1. /\ visit[v].stage = "act" /\ visit[v].kind \in {"begin enrol", "enrol"} /\ Acted(v)
      /\ rbac' = rbac /\ UNCHANGED Elsewhere
  BY DEF OwnToken, Acting
<1>2. PICK to \in {"begin enrol", "enrol", "done"} : Step(v, to)
  BY <1>1 DEF OwnToken, Acting
<1>3. UNCHANGED <<admin, passkey, challenge, session, jar, page, ctime, signIns>>
  BY <1>1 DEF Elsewhere
<1>4. to \in VisitStage /\ to \in Quiet
  BY DEF VisitStage, Quiet, KeyStages
<1>5. ConsoleTypes' /\ PasskeyInv'
  BY <1>t, <1>1, <1>2, <1>3, <1>4, StepTo DEF ConsoleTypes, PasskeyInv
<1>6. \A x \in acts' : x \in acts \/ ActIsRight(x)
  BY <1>1, ActingIsRight DEF OwnForms
<1>7. ~Done(v) /\ visit[v].token \in AdminIds
  BY <1>t, <1>1 DEF Done, Requesting, Known
<1> QED BY <1>t, <1>1, <1>2, <1>3, <1>4, <1>5, <1>6, <1>7, StepTo, StandStill, QuietStep

\* The other steps of a form, and the visits of the API that leave the tokens alone.
LEMMA AsideStep ==
    ASSUME ConsoleInv, NEW v \in Visits,
           \/ IssueCodes(v) \/ CountKeys(v) \/ WithdrawKey(v) \/ CountWithdrawal(v)
           \/ AuditForm(v) \/ EraseOnApi(v) \/ CountPasskeys(v) \/ RenderPage(v)
    PROVE  ConsoleInv'
<1>t. ConsoleTypes /\ PasskeyInv /\ Requesting(v)
  BY DEF ConsoleInv
<1>1. /\ ~Done(v) /\ UNCHANGED <<admin, passkey, challenge, session, jar, ctime, signIns, rbac, acts>>
      /\ \/ page' = page
         \/ visit[v].stage = "form" /\ page' = [page EXCEPT ![visit[v].browser] = visit[v].cookie]
  <2>1. CASE IssueCodes(v) \/ CountKeys(v) \/ WithdrawKey(v) \/ CountWithdrawal(v)
    BY <2>1 DEF IssueCodes, CountKeys, WithdrawKey, CountWithdrawal, Elsewhere, Done
  <2>2. CASE AuditForm(v) \/ EraseOnApi(v)
    BY <2>2 DEF AuditForm, EraseOnApi, Elsewhere, Done
  <2>3. CASE CountPasskeys(v) \/ RenderPage(v)
    BY <2>3 DEF CountPasskeys, RenderPage, Configured, Done
  <2> QED BY <2>1, <2>2, <2>3
<1>2. PICK to \in VisitStage : to \in Quiet /\ Step(v, to) /\ to \notin {"enrol", "store key"}
  <2>1. {"audit", "done", "withdraw", "count withdrawal", "rotate"}
          \subseteq Quiet \cap VisitStage
    BY DEF VisitStage, Quiet, KeyStages
  <2>2. CASE IssueCodes(v) \/ AuditForm(v) \/ EraseOnApi(v) \/ RenderPage(v)
    BY <2>1, <2>2 DEF IssueCodes, AuditForm, EraseOnApi, RenderPage
  <2>3. CASE CountKeys(v) \/ WithdrawKey(v) \/ CountWithdrawal(v)
    BY <2>1, <2>3 DEF CountKeys, WithdrawKey, CountWithdrawal
  <2>4. CASE CountPasskeys(v)
    BY <2>1, <2>4 DEF CountPasskeys
  <2> QED BY <2>2, <2>3, <2>4
<1>3. page' \in [Browsers -> SomeVisit]
  <2>1. page \in [Browsers -> SomeVisit]
    BY <1>t DEF ConsoleTypes
  <2> QED BY <1>t, <1>1, <2>1, VisitFields
<1>4. ConsoleTypes' /\ PasskeyInv'
  BY <1>t, <1>1, <1>2, <1>3, StepTo DEF ConsoleTypes, PasskeyInv
<1> QED BY <1>t, <1>1, <1>2, <1>4, StepTo, StandStill, QuietStep

LEMMA ReadKeyStep ==
    ASSUME ConsoleInv, NEW v \in Visits, ReadKey(v)
    PROVE  ConsoleInv'
<1>t. ConsoleTypes /\ PasskeyInv
  BY DEF ConsoleInv
<1>1. /\ ~Done(v) /\ UNCHANGED <<admin, passkey, challenge, session, jar, page, ctime, signIns, rbac, acts>>
  BY DEF ReadKey, Elsewhere, Done
<1>2. PICK k \in {"key", "spare key"}, to \in {"count keys", "done"} :
        visit' = [visit EXCEPT ![v].stage = to, ![v].key = k]
  BY DEF ReadKey
<1>3. visit' = [visit EXCEPT ![v] = [visit[v] EXCEPT !.stage = to, !.key = k]]
  BY <1>t, <1>2 DEF ConsoleTypes
<1>4. ASSUME NEW r \in BrowserVisit
      PROVE  LET s == [r EXCEPT !.stage = to, !.key = k]
             IN  s \in BrowserVisit /\ s.stage = to /\ s.kind = r.kind /\ s.token = r.token /\ s.of = r.of
  BY DEF BrowserVisit, VisitStage
<1>5. /\ visit' \in [Visits -> BrowserVisit] /\ visit'[v].stage = to /\ visit'[v].kind = visit[v].kind
      /\ visit'[v].token = visit[v].token /\ visit'[v].of = visit[v].of
      /\ \A w \in Visits \ {v} : visit'[w] = visit[w]
  BY <1>t, <1>3, <1>4 DEF ConsoleTypes
<1>6. ConsoleTypes' /\ PasskeyInv'
  BY <1>t, <1>1, <1>5 DEF ConsoleTypes, PasskeyInv
<1>7. to \in Quiet
  BY DEF Quiet, VisitStage, KeyStages
<1> QED BY <1>1, <1>5, <1>6, <1>7, StandStill, QuietStep

\* A challenge begun, for a sign-in or an enrolment; a passkey stored; a token rotated
\* or revoked: each is the last step of its visit, or the last but its entry.
LEMMA LastStep ==
    ASSUME ConsoleInv, NEW v \in Visits,
           \/ BeginSignIn(v) \/ BeginEnrol(v) \/ StorePasskey(v) \/ RotateToken(v) \/ RevokeToken(v)
    PROVE  ConsoleInv'
<1>t. /\ ConsoleTypes /\ PasskeyInv /\ Requesting(v)
      /\ \A c \in Visits : challenge[c].state # "none" => Done(c)
  BY DEF ConsoleInv
<1>1. /\ ~Done(v) /\ UNCHANGED <<session, jar, page, ctime, signIns, rbac, acts>>
  BY DEF BeginSignIn, BeginEnrol, StorePasskey, RotateToken, RevokeToken, Configured, Done
<1>2. PICK to \in {"done", "audit"} :
        /\ Step(v, to) /\ to \in VisitStage /\ to \in Quiet
        /\ challenge' # challenge => to = "done"
  BY DEF BeginSignIn, BeginEnrol, StorePasskey, RotateToken, RevokeToken, VisitStage, Quiet,
         KeyStages
<1>3. visit[v].token \in SomeToken /\ visit[v] \in BrowserVisit
  BY <1>t DEF ConsoleTypes, BrowserVisit
<1>4. challenge' # challenge => Done(v)'
  BY <1>t, <1>1, <1>2, StepTo DEF Done
<1>5. /\ challenge' \in [Visits -> AnyChallenge]
      /\ ChallengesStay(v)
  <2>0. challenge \in [Visits -> AnyChallenge]
    BY <1>t DEF ConsoleTypes
  <2>1. CASE challenge' = challenge
    BY <2>0, <2>1 DEF ChallengesStay
  <2>2. CASE \E ceremony \in {"assertion", "registration"}, token \in SomeToken :
               challenge' = [challenge EXCEPT
                 ![v] = [ceremony |-> ceremony, token |-> token, state |-> "open"]]
    <3>1. challenge[v].state = "none"
      BY <1>t, <1>1
    <3> QED BY <1>4, <2>0, <2>2, <3>1 DEF ChallengesStay, AnyChallenge
  <2>3. Nobody \in SomeToken
    BY DEF SomeToken
  <2> QED BY <1>3, <2>1, <2>2, <2>3 DEF BeginSignIn, BeginEnrol, StorePasskey, RotateToken, RevokeToken
<1>6. /\ passkey' \in [Visits -> AnyPasskey]
      /\ \A w \in Visits \ {v} : passkey'[w] = passkey[w]
      /\ passkey'[v] = passkey[v] \/ (passkey'[v].owner = visit[v].token /\ visit[v].stage = "store key")
  <2>1. CASE passkey' = passkey
    BY <1>t, <2>1 DEF ConsoleTypes
  <2>2. CASE /\ passkey' = [passkey EXCEPT ![v] = [owner |-> visit[v].token, state |-> "active"]]
             /\ visit[v].stage = "store key"
    <3>1. [owner |-> visit[v].token, state |-> "active"]
            \in AnyPasskey
      BY <1>3 DEF AnyPasskey
    <3> QED BY <1>t, <2>2, <3>1 DEF ConsoleTypes
  <2> QED BY <2>1, <2>2 DEF BeginSignIn, BeginEnrol, StorePasskey, RotateToken, RevokeToken
<1>7. /\ admin' \in [AdminIds -> [state : {"usable", "revoked", "absent"}, role : Roles]]
      /\ TokensStay
  <2>1. CASE admin' = admin
    BY <1>t, <2>1 DEF ConsoleTypes, TokensStay
  <2>2. CASE admin[NextToken].state = "absent" /\ admin' = [admin EXCEPT ![NextToken].state = "usable"]
    <3>1. NextToken \in AdminIds
      BY DEF AdminIds
    <3> QED BY <1>t, <2>2, <3>1 DEF ConsoleTypes, TokensStay
  <2>3. CASE admin' = [admin EXCEPT ![visit[v].token].state = "revoked"] /\ RevokeToken(v)
    <3>1. visit[v].token \in AdminIds
      BY <2>3 DEF ConsoleInv, SigningIn, RevokeToken
    <3> QED BY <1>t, <2>3, <3>1 DEF ConsoleTypes, TokensStay
  <2> QED BY <2>1, <2>2, <2>3 DEF BeginSignIn, BeginEnrol, StorePasskey, RotateToken, RevokeToken
<1>8. SessionsStay(v)
  BY <1>1 DEF SessionsStay, Live
<1>9. ConsoleTypes'
  BY <1>t, <1>1, <1>2, <1>5, <1>6, <1>7, StepTo DEF ConsoleTypes
<1>10. PasskeyInv'
  BY <1>t, <1>6 DEF PasskeyInv, Requesting
<1> QED BY <1>t, <1>1, <1>2, <1>5, <1>7, <1>8, <1>9, <1>10, StepTo, QuietStep

-----------------------------------------------------------------------------
(* Signing in.                                                             *)

LEMMA PasteStep ==
    ASSUME ConsoleInv, NEW v \in Visits, PasteToken(v)
    PROVE  ConsoleInv'
<1>t. ConsoleTypes /\ PasskeyInv /\ SigningIn(v)
  BY DEF ConsoleInv
<1> DEFINE to == IF UsableAdmin(visit[v].token) THEN "required" ELSE "done"
           next == [visit[v] EXCEPT !.stage = to, !.cookie = jar[visit[v].browser],
                                    !.at = ctime, !.role = admin[visit[v].token].role]
<1>1. /\ visit[v].stage = "idle" /\ visit[v].kind = "paste" /\ visit' = [visit EXCEPT ![v] = next]
      /\ UNCHANGED <<admin, passkey, challenge, session, jar, page, ctime, signIns, rbac, acts>>
  BY DEF PasteToken, Configured
<1>2. visit[v].token \in AdminIds
  BY <1>t, <1>1 DEF SigningIn
<1>3. jar[visit[v].browser] \in SomeVisit /\ ctime \in Nat /\ admin[visit[v].token].role \in AnyRole
  BY <1>t, <1>2, VisitFields DEF ConsoleTypes, AnyRole
<1>4. to \in {"required", "done"} /\ (to = "required" => Known(visit[v].token))
  BY <1>2 DEF UsableAdmin, Known
<1> HIDE DEF to
<1>5. /\ next \in BrowserVisit /\ next.stage = to /\ next.kind = visit[v].kind
      /\ next.token = visit[v].token /\ next.of = visit[v].of /\ next.late = visit[v].late
  BY <1>t, <1>3, <1>4, VisitFields DEF BrowserVisit, VisitStage
<1> HIDE DEF next
<1>6. /\ visit' \in [Visits -> BrowserVisit] /\ visit'[v] = next
      /\ \A w \in Visits \ {v} : visit'[w] = visit[w]
  BY <1>t, <1>1, <1>5 DEF ConsoleTypes
<1>7. ConsoleTypes' /\ PasskeyInv'
  BY <1>t, <1>1, <1>6 DEF ConsoleTypes, PasskeyInv
<1>8. SigningIn(v)' /\ Requesting(v)'
  BY <1>t, <1>1, <1>2, <1>4, <1>5, <1>6 DEF SigningIn, Requesting, Known
<1>9. TakesOwn(v) /\ SignInsStay(v)
  BY <1>1, <1>4, <1>5, <1>6 DEF TakesOwn, SignInsStay, KeyStages
<1>10. ~Done(v)
  BY <1>1 DEF Done
<1> QED BY <1>1, <1>5, <1>6, <1>7, <1>8, <1>9, <1>10, StandStill, VisitStep

\* The steps between, each one reading.
LEMMA ReadingStep ==
    ASSUME ConsoleInv, NEW v \in Visits, CheckRequired(v) \/ CheckForm(v)
    PROVE  ConsoleInv'
<1>t. ConsoleTypes /\ PasskeyInv /\ SigningIn(v) /\ Requesting(v) /\ HoldersInv
  BY DEF ConsoleInv
<1>1. /\ visit[v].stage \in {"required", "form"}
      /\ UNCHANGED <<admin, passkey, challenge, session, jar, page, ctime, signIns, rbac, acts>>
  BY DEF CheckRequired, CheckForm, Configured
<1>2. PICK to \in {"mint", "act", "audit", "done"} :
        /\ Step(v, to)
        /\ to = "mint" => visit[v].stage = "required"
        /\ to = "act" =>
             /\ visit[v].stage = "form" /\ FormIsOurs(v)
             /\ visit[v].kind \in DOMAIN FormPermission =>
                  Authorise(visit[v].role, FormPermission[visit[v].kind], rbac)
  <2>1. CASE CheckRequired(v)
    BY <2>1 DEF CheckRequired
  <2>2. CASE CheckForm(v)
    <3> DEFINE may == /\ FormIsOurs(v)
                      /\ visit[v].kind \in DOMAIN FormPermission =>
                           Authorise(visit[v].role, FormPermission[visit[v].kind], rbac)
    <3>1. Step(v, IF may THEN "act" ELSE "audit") /\ visit[v].stage = "form"
      BY <2>2 DEF CheckForm
    <3>2. CASE may
      BY <3>1, <3>2
    <3>3. CASE ~may
      <4> HIDE DEF may
      <4>1. Step(v, "audit")
        BY <3>1, <3>3
      <4> QED BY <4>1
    <3> QED BY <3>2, <3>3
  <2> QED BY <2>1, <2>2
<1>3. to \in VisitStage
  BY DEF VisitStage
<1>4. /\ visit' \in [Visits -> BrowserVisit] /\ visit'[v].stage = to
      /\ visit'[v].kind = visit[v].kind /\ visit'[v].token = visit[v].token
      /\ visit'[v].of = visit[v].of /\ visit'[v].cookie = visit[v].cookie
      /\ visit'[v].form = visit[v].form /\ visit'[v].at = visit[v].at
      /\ visit'[v].late = visit[v].late /\ visit'[v].role = visit[v].role
      /\ \A w \in Visits \ {v} : visit'[w] = visit[w]
  BY <1>t, <1>2, <1>3, StepTo
<1>5. ConsoleTypes' /\ PasskeyInv'
  BY <1>t, <1>1, <1>4 DEF ConsoleTypes, PasskeyInv
<1>6. SigningIn(v)'
  BY <1>t, <1>1, <1>2, <1>4 DEF SigningIn, Known
<1>7. Requesting(v)'
  <2>1. CASE to = "act"
    <3>1. LET c == visit[v].cookie IN
            /\ c \in Visits /\ Done(c) /\ c # v /\ Known(visit[v].token)
            /\ visit[v].token = visit[c].token /\ visit[v].at < visit[c].at + AbsoluteTTL
            /\ ~visit[v].late /\ visit[v].form = c
      BY <1>t, <1>2, <2>1 DEF Requesting, Done, FormIsOurs
    <3>2. visit'[visit[v].cookie] = visit[visit[v].cookie]
      BY <1>4, <3>1
    <3> QED BY <1>1, <1>2, <1>4, <2>1, <3>1, <3>2 DEF Requesting, Known, Done, Authorise, Allowed
  <2>2. CASE to # "act"
    BY <1>4, <2>2 DEF Requesting
  <2> QED BY <2>1, <2>2
<1>8. TakesOwn(v)
  BY <1>t, <1>1, <1>2, <1>4 DEF TakesOwn, KeyStages, SigningIn
<1>9. SignInsStay(v)
  BY <1>1 DEF SignInsStay
<1>10. ~Done(v)
  BY <1>1 DEF Done
<1> QED BY <1>1, <1>4, <1>5, <1>6, <1>7, <1>8, <1>9, <1>10, StandStill, VisitStep

\* A challenge is presented: an open one is spent, and it was spent on nothing before.
LEMMA Spending ==
    ASSUME ConsoleTypes, NEW v \in Visits, NEW ceremony \in {"assertion", "registration"},
           NEW owner \in SomeToken, NEW to \in VisitStage, NEW denied \in VisitStage,
           to # denied, Spend(v, ceremony, owner, to, denied)
    PROVE  /\ challenge' \in [Visits -> AnyChallenge]
           /\ ChallengesStay(v)
           /\ visit' \in [Visits -> BrowserVisit]
           /\ visit'[v].stage \in {to, denied}
           /\ visit'[v].kind = visit[v].kind /\ visit'[v].token = visit[v].token
           /\ visit'[v].of = visit[v].of /\ visit'[v].late = visit[v].late
           /\ \A w \in Visits \ {v} : visit'[w] = visit[w]
           /\ visit'[v].stage = to =>
                /\ visit'[v].form \in Visits
                /\ challenge[visit'[v].form].state = "open"
                /\ challenge'[visit'[v].form].state = "consumed"
<1> DEFINE Stage(c) == IF challenge[c] = [ceremony |-> ceremony, token |-> owner, state |-> "open"]
                       THEN to ELSE denied
           Next(c) == [visit[v] EXCEPT !.stage = Stage(c), !.form = c,
                                       !.cookie = jar[visit[v].browser], !.at = ctime]
<1>1. PICK c \in Visits :
        /\ challenge' = IF challenge[c].state = "open" THEN Takes(c) ELSE challenge
        /\ visit' = [visit EXCEPT ![v] = Next(c)]
  BY DEF Spend
<1>2. challenge \in [Visits -> AnyChallenge]
  BY DEF ConsoleTypes
<1>3. /\ challenge' \in [Visits -> AnyChallenge]
      /\ challenge[c].state = "open" => challenge'[c].state = "consumed"
      /\ \A d \in Visits : /\ challenge'[d].state # "none" => challenge[d].state # "none"
                           /\ challenge[d].state = "consumed" => challenge'[d].state = "consumed"
  <2>1. CASE challenge[c].state = "open" /\ challenge' = [challenge EXCEPT ![c].state = "consumed"]
    BY <1>2, <2>1 DEF AnyChallenge
  <2>2. CASE challenge[c].state # "open" /\ challenge' = challenge
    BY <1>2, <2>2
  <2> QED BY <1>1, <2>1, <2>2 DEF Takes
<1>4. Stage(c) \in {to, denied} /\ (Stage(c) = to => challenge[c].state = "open")
  OBVIOUS
<1>5. jar[visit[v].browser] \in SomeVisit /\ ctime \in Nat /\ c \in SomeVisit
  BY VisitFields DEF ConsoleTypes, SomeVisit
<1> HIDE DEF Stage
<1>6. /\ Next(c) \in BrowserVisit /\ Next(c).stage = Stage(c) /\ Next(c).kind = visit[v].kind
      /\ Next(c).token = visit[v].token /\ Next(c).of = visit[v].of
      /\ Next(c).late = visit[v].late /\ Next(c).form = c
  <2>1. Stage(c) \in VisitStage
    BY <1>4 DEF VisitStage
  <2>2. visit[v] \in BrowserVisit
    BY VisitFields
  <2> QED BY <1>5, <2>1, <2>2 DEF BrowserVisit
<1> HIDE DEF Next
<1>7. /\ visit' \in [Visits -> BrowserVisit] /\ visit'[v] = Next(c)
      /\ \A w \in Visits \ {v} : visit'[w] = visit[w]
  BY <1>1, <1>6 DEF ConsoleTypes
<1> QED BY <1>3, <1>4, <1>6, <1>7 DEF ChallengesStay

LEMMA SpendSignInStep ==
    ASSUME ConsoleInv, NEW v \in Visits, SpendSignIn(v)
    PROVE  ConsoleInv'
<1>t. ConsoleTypes /\ PasskeyInv /\ SigningIn(v)
  BY DEF ConsoleInv
<1>1. /\ visit[v].stage = "idle" /\ visit[v].kind = "passkey"
      /\ Spend(v, "assertion", Nobody, "find key", "done")
      /\ UNCHANGED <<admin, passkey, session, jar, page, ctime, signIns, rbac, acts>>
  BY DEF SpendSignIn, Configured
<1>2. /\ "assertion" \in {"assertion", "registration"} /\ "find key" # "done"
      /\ "find key" \in VisitStage /\ "done" \in VisitStage /\ Nobody \in SomeToken
  BY DEF VisitStage, SomeToken
<1>3. /\ challenge' \in [Visits -> AnyChallenge]
      /\ ChallengesStay(v)
      /\ visit' \in [Visits -> BrowserVisit]
      /\ visit'[v].stage \in {"find key", "done"}
      /\ visit'[v].kind = visit[v].kind /\ visit'[v].token = visit[v].token
      /\ visit'[v].of = visit[v].of /\ visit'[v].late = visit[v].late
      /\ \A w \in Visits \ {v} : visit'[w] = visit[w]
      /\ visit'[v].stage = "find key" =>
           /\ visit'[v].form \in Visits
           /\ challenge[visit'[v].form].state = "open"
           /\ challenge'[visit'[v].form].state = "consumed"
  BY <1>t, <1>1, <1>2, Spending, Zenon
<1>4. ConsoleTypes' /\ PasskeyInv'
  BY <1>t, <1>1, <1>3 DEF ConsoleTypes, PasskeyInv
<1>5. SigningIn(v)' /\ Requesting(v)'
  BY <1>t, <1>1, <1>3 DEF SigningIn, Requesting
<1>6. TakesOwn(v) /\ SignInsStay(v)
  BY <1>1, <1>3 DEF TakesOwn, SignInsStay, KeyStages
<1>7. ~Done(v) /\ TokensStay /\ SessionsStay(v)
  BY <1>1 DEF Done, TokensStay, SessionsStay, Live
<1> QED BY <1>1, <1>3, <1>4, <1>5, <1>6, <1>7, VisitStep

LEMMA SpendEnrolStep ==
    ASSUME ConsoleInv, NEW v \in Visits, SpendEnrol(v)
    PROVE  ConsoleInv'
<1>t. ConsoleTypes /\ PasskeyInv /\ Requesting(v)
  BY DEF ConsoleInv
<1>1. /\ visit[v].stage = "enrol"
      /\ Spend(v, "registration", visit[v].token, "store key", "audit")
      /\ UNCHANGED <<admin, passkey, session, jar, page, ctime, signIns, rbac, acts>>
  BY DEF SpendEnrol, Configured
<1>2. /\ "registration" \in {"assertion", "registration"} /\ "store key" # "audit"
      /\ "store key" \in VisitStage /\ "audit" \in VisitStage /\ visit[v].token \in SomeToken
  BY <1>t, VisitFields DEF VisitStage
<1>3. /\ challenge' \in [Visits -> AnyChallenge]
      /\ ChallengesStay(v)
      /\ visit' \in [Visits -> BrowserVisit]
      /\ visit'[v].stage \in {"store key", "audit"}
      /\ visit'[v].kind = visit[v].kind /\ visit'[v].token = visit[v].token
      /\ visit'[v].of = visit[v].of
      /\ \A w \in Visits \ {v} : visit'[w] = visit[w]
  BY <1>t, <1>1, <1>2, Spending, Zenon
<1>4. ConsoleTypes' /\ PasskeyInv'
  BY <1>t, <1>1, <1>3 DEF ConsoleTypes, PasskeyInv
<1>5. visit[v].token \in AdminIds
  BY <1>t, <1>1 DEF Requesting
<1>6. visit'[v].stage \in Quiet
  BY <1>3 DEF Quiet, VisitStage, KeyStages
<1>7. ~Done(v) /\ TokensStay /\ SessionsStay(v)
  BY <1>1 DEF Done, TokensStay, SessionsStay, Live
<1>8. acts' = acts
  BY <1>1
<1> QED BY <1>1, <1>3, <1>4, <1>5, <1>6, <1>7, <1>8, QuietStep

\* The steps of a sign-in by passkey between its challenge and its session.
LEMMA KeyStep ==
    ASSUME ConsoleInv, NEW v \in Visits, visit[v].stage \in {"find key", "find token", "record"},
           UNCHANGED <<admin, passkey, challenge, session, jar, page, ctime, signIns, rbac, acts>>,
           visit' \in [Visits -> BrowserVisit],
           \A w \in Visits \ {v} : visit'[w] = visit[w],
           visit'[v].kind = visit[v].kind, visit'[v].of = visit[v].of,
           visit'[v].form = visit[v].form,
           visit'[v].stage \in {"find token", "record", "mint", "done"},
           visit'[v].stage = "find token" => visit'[v].token \in AdminIds,
           visit'[v].stage \in {"record", "mint"} => Known(visit'[v].token),
           visit'[v].stage = "mint" => ~visit'[v].late
    PROVE  ConsoleInv'
<1>t. ConsoleTypes /\ PasskeyInv /\ SigningIn(v) /\ HoldersInv
  BY DEF ConsoleInv
<1>1. visit[v].kind = "passkey" /\ visit[v].of \in Visits
  BY <1>t DEF SigningIn
<1>2. ConsoleTypes' /\ PasskeyInv'
  BY <1>t DEF ConsoleTypes, PasskeyInv
<1>3. SigningIn(v)' /\ Requesting(v)'
  BY <1>1 DEF SigningIn, Requesting, Known
<1>4. Holding(v)
  BY <1>1 DEF Holding, KeyStages
<1>5. TakesOwn(v) /\ SignInsStay(v)
  BY <1>t, <1>4 DEF TakesOwn, SignInsStay, HoldersInv
<1>6. ~Done(v)
  BY DEF Done
<1>7. acts' = acts /\ rbac' = rbac
  OBVIOUS
<1> QED BY <1>2, <1>3, <1>5, <1>6, <1>7, StandStill, VisitStep

LEMMA FindStep ==
    ASSUME ConsoleInv, NEW v \in Visits, FindPasskey(v) \/ FindToken(v) \/ RecordUse(v)
    PROVE  ConsoleInv'
<1>t. ConsoleTypes /\ PasskeyInv /\ SigningIn(v)
  BY DEF ConsoleInv
<1>1. /\ visit[v].stage \in {"find key", "find token", "record"}
      /\ UNCHANGED <<admin, passkey, challenge, session, jar, page, ctime, signIns, rbac, acts>>
  BY DEF FindPasskey, FindToken, RecordUse, Configured
<1>2. visit[v].of \in Visits /\ visit[v] \in BrowserVisit
  BY <1>t, <1>1, VisitFields DEF SigningIn
<1>3. passkey[visit[v].of] \in AnyPasskey
  BY <1>t, <1>2 DEF ConsoleTypes
<1>4. ASSUME NEW to \in {"find token", "record", "mint", "done"}, NEW a \in SomeToken,
             NEW role \in AnyRole, NEW late \in BOOLEAN,
             visit' = [visit EXCEPT ![v] = [visit[v] EXCEPT !.stage = to, !.token = a,
                                                            !.role = role, !.late = late]],
             to = "find token" => a \in AdminIds, to \in {"record", "mint"} => Known(a),
             to = "mint" => ~late
      PROVE  ConsoleInv'
  <2>1. ASSUME NEW r \in BrowserVisit
        PROVE  LET n == [r EXCEPT !.stage = to, !.token = a, !.role = role, !.late = late]
               IN  /\ n \in BrowserVisit /\ n.stage = to /\ n.kind = r.kind /\ n.token = a
                   /\ n.of = r.of /\ n.late = late /\ n.form = r.form
    BY DEF BrowserVisit, VisitStage
  <2>2. /\ visit' \in [Visits -> BrowserVisit]
        /\ \A w \in Visits \ {v} : visit'[w] = visit[w]
        /\ visit'[v].kind = visit[v].kind /\ visit'[v].of = visit[v].of
        /\ visit'[v].form = visit[v].form /\ visit'[v].stage = to /\ visit'[v].token = a
        /\ visit'[v].late = late
    BY <1>t, <1>2, <1>4, <2>1 DEF ConsoleTypes
  <2> QED BY <1>1, <1>4, <2>2, KeyStep
<1>5. /\ visit[v].token \in SomeToken /\ visit[v].role \in AnyRole /\ visit[v].late \in BOOLEAN
  BY <1>2 DEF BrowserVisit
<1>6. CASE FindPasskey(v)
  <2> DEFINE to == IF passkey[visit[v].of].state = "active" THEN "find token" ELSE "done"
             a == passkey[visit[v].of].owner
  <2>1. visit' = [visit EXCEPT ![v] = [visit[v] EXCEPT !.stage = to, !.token = a]]
    BY <1>6 DEF FindPasskey
  <2>2. to \in {"find token", "done"} /\ a \in SomeToken /\ (to = "find token" => a \in AdminIds)
    BY <1>t, <1>2, <1>3 DEF PasskeyInv, AnyPasskey
  <2> HIDE DEF to, a
  <2>3. ASSUME NEW r \in BrowserVisit
        PROVE  [r EXCEPT !.stage = to, !.token = a]
                 = [r EXCEPT !.stage = to, !.token = a, !.role = r.role, !.late = r.late]
    BY DEF BrowserVisit
  <2>4. to \notin {"record", "mint"}
    BY <2>2
  <2>6. visit' = [visit EXCEPT ![v] = [visit[v] EXCEPT !.stage = to, !.token = a,
                                                          !.role = visit[v].role,
                                                          !.late = visit[v].late]]
    BY <1>2, <2>1, <2>3
  <2> QED BY <1>4, <1>5, <2>2, <2>4, <2>6
<1>7. CASE FindToken(v)
  <2> DEFINE to == IF UsableAdmin(visit[v].token) THEN "record" ELSE "done"
             role == admin[visit[v].token].role
  <2>1. visit' = [visit EXCEPT ![v] = [visit[v] EXCEPT !.stage = to, !.role = role]]
    BY <1>7 DEF FindToken
  <2>2. visit[v].token \in AdminIds
    BY <1>t, <1>7 DEF SigningIn, FindToken
  <2>3. to \in {"record", "done"} /\ role \in AnyRole /\ (to = "record" => Known(visit[v].token))
    BY <1>t, <2>2 DEF ConsoleTypes, AnyRole, UsableAdmin, Known
  <2> HIDE DEF to, role
  <2>4. ASSUME NEW r \in BrowserVisit
        PROVE  [r EXCEPT !.stage = to, !.role = role]
                 = [r EXCEPT !.stage = to, !.token = r.token, !.role = role, !.late = r.late]
    BY DEF BrowserVisit
  <2>5. to \notin {"find token", "mint"}
    BY <2>3
  <2>6. visit' = [visit EXCEPT ![v] = [visit[v] EXCEPT !.stage = to,
                                                          !.token = visit[v].token,
                                                          !.role = role,
                                                          !.late = visit[v].late]]
    BY <1>2, <2>1, <2>4
  <2> QED BY <1>4, <1>5, <2>3, <2>5, <2>6
<1>8. CASE RecordUse(v)
  <2> DEFINE to == IF passkey[visit[v].of].state = "active" THEN "mint" ELSE "done"
             late == passkey[visit[v].of].state = "withdrawn"
  <2>1. visit' = [visit EXCEPT ![v] = [visit[v] EXCEPT !.stage = to, !.late = late]]
    BY <1>t, <1>8 DEF RecordUse, ConsoleTypes
  <2>2. Known(visit[v].token)
    BY <1>t, <1>8 DEF SigningIn, RecordUse
  <2>3. to \in {"mint", "done"} /\ late \in BOOLEAN /\ (to = "mint" => ~late)
    BY <1>3
  <2> HIDE DEF to, late
  <2>4. ASSUME NEW r \in BrowserVisit
        PROVE  [r EXCEPT !.stage = to, !.late = late]
                 = [r EXCEPT !.stage = to, !.token = r.token, !.role = r.role, !.late = late]
    BY DEF BrowserVisit
  <2>5. to # "find token"
    BY <2>3
  <2>6. visit' = [visit EXCEPT ![v] = [visit[v] EXCEPT !.stage = to,
                                                          !.token = visit[v].token,
                                                          !.role = visit[v].role,
                                                          !.late = late]]
    BY <1>2, <2>1, <2>4
  <2> QED BY <1>4, <1>5, <2>2, <2>3, <2>5, <2>6
<1> QED BY <1>6, <1>7, <1>8

LEMMA MintStep ==
    ASSUME ConsoleInv, NEW v \in Visits, MintSession(v)
    PROVE  ConsoleInv'
<1>t. ConsoleTypes /\ PasskeyInv /\ SigningIn(v)
  BY DEF ConsoleInv
<1>1. /\ visit[v].stage = "mint" /\ session' = Minted(v) /\ Step(v, "done")
      /\ jar' = [jar EXCEPT ![visit[v].browser] = v]
      /\ signIns' = signIns \cup {SignInOf(v)}
      /\ UNCHANGED <<admin, passkey, challenge, page, ctime, rbac, acts>>
  BY DEF MintSession, Configured, SignInOf
<1>2. "done" \in VisitStage
  BY DEF VisitStage
<1>3. /\ visit' \in [Visits -> BrowserVisit]
      /\ visit'[v].stage = "done"
      /\ visit'[v].kind = visit[v].kind /\ visit'[v].token = visit[v].token
      /\ visit'[v].of = visit[v].of /\ visit'[v].cookie = visit[v].cookie
      /\ visit'[v].form = visit[v].form /\ visit'[v].at = visit[v].at
      /\ visit'[v].late = visit[v].late
      /\ \A w \in Visits \ {v} : visit'[w] = visit[w]
  BY <1>t, <1>1, <1>2, StepTo
<1>4. Known(visit[v].token) /\ ~visit[v].late
  BY <1>t, <1>1 DEF SigningIn
<1>5. visit[v].role \in AnyRole /\ visit[v].at \in Nat /\ visit[v].token \in SomeToken
  BY <1>t, VisitFields DEF BrowserVisit
<1>6. NoSession \in AnySession
  BY DEF NoSession, SomeToken, AnyRole, AnySession
<1>7. PICK new \in AnySession :
        new = [token |-> visit[v].token, role |-> visit[v].role, born |-> visit[v].at,
               seen |-> visit[v].at]
  BY <1>5 DEF AnySession
<1>8. PICK old \in SomeVisit :
        session' = [Swept(visit[v].at) EXCEPT ![old] = NoSession, ![v] = new]
  BY <1>1, <1>7, <1>t, VisitFields DEF Minted, SomeVisit
<1>9. /\ Swept(visit[v].at) \in [Visits -> AnySession]
      /\ \A c \in Visits : Swept(visit[v].at)[c] \in {NoSession, session[c]}
  BY <1>t, <1>6 DEF Swept, ConsoleTypes
<1>10. /\ session' \in [Visits -> AnySession] /\ session'[v] = new
       /\ \A c \in Visits \ {v} : session'[c] \in {NoSession, session[c]}
  BY <1>6, <1>8, <1>9
<1>11. Backed(v)'
  BY <1>1, <1>3, <1>4, <1>7, <1>10 DEF Backed, Done, Known
<1>12. SessionsStay(v)
  BY <1>10, <1>11 DEF SessionsStay, Live, NoSession
<1>13. jar' \in [Browsers -> SomeVisit]
  BY <1>t, <1>1 DEF ConsoleTypes, SomeVisit
<1>14. ConsoleTypes' /\ PasskeyInv'
  BY <1>t, <1>1, <1>3, <1>10, <1>13 DEF ConsoleTypes, PasskeyInv
<1>15. SigningIn(v)' /\ Requesting(v)'
  BY <1>t, <1>3 DEF SigningIn, Requesting
<1>16. TakesOwn(v)
  BY <1>3 DEF TakesOwn, KeyStages
<1>17. SignInsStay(v)
  BY <1>1, <1>3, <1>4 DEF SignInsStay, SignInOf, Done
<1>18. ~Done(v) /\ TokensStay /\ ChallengesStay(v)
  BY <1>1 DEF Done, TokensStay, ChallengesStay
<1>19. acts' = acts /\ rbac' = rbac
  BY <1>1
<1> QED BY <1>3, <1>12, <1>14, <1>15, <1>16, <1>17, <1>18, <1>19, VisitStep

-----------------------------------------------------------------------------
(* A request with a session, and what no visit does.                       *)

\* A request that finds no session it may use is over.
LEMMA TurnAway ==
    ASSUME ConsoleInv, NEW v \in Visits, ~Done(v), NEW c \in SomeVisit,
           session' = Destroyed(c), jar' = [jar EXCEPT ![visit[v].browser] = Nobody],
           Step(v, "done"),
           UNCHANGED <<admin, passkey, challenge, page, ctime, signIns, rbac, acts>>
    PROVE  ConsoleInv'
<1>t. ConsoleTypes /\ PasskeyInv
  BY DEF ConsoleInv
<1>1. "done" \in VisitStage /\ "done" \in Quiet
  BY DEF VisitStage, Quiet, KeyStages
<1>2. NoSession \in AnySession
  BY DEF NoSession, SomeToken, AnyRole, AnySession
<1>3. /\ session' \in [Visits -> AnySession]
      /\ \A d \in Visits : session'[d] \in {NoSession, session[d]}
  <2>1. CASE session' = session
    BY <1>t, <2>1 DEF ConsoleTypes
  <2>2. CASE session' = [session EXCEPT ![c] = NoSession]
    <3>1. session \in [Visits -> AnySession]
      BY <1>t DEF ConsoleTypes
    <3> QED BY <1>2, <2>2, <3>1
  <2>3. session' = session \/ session' = [session EXCEPT ![c] = NoSession]
    BY DEF Destroyed
  <2> QED BY <2>1, <2>2, <2>3
<1>4. SessionsStay(v)
  BY <1>3 DEF SessionsStay, Live
<1>5. jar' \in [Browsers -> SomeVisit]
  BY <1>t DEF ConsoleTypes, SomeVisit
<1>6. ConsoleTypes' /\ PasskeyInv'
  BY <1>t, <1>1, <1>3, <1>5, StepTo DEF ConsoleTypes, PasskeyInv
<1>7. TokensStay /\ ChallengesStay(v)
  BY DEF TokensStay, ChallengesStay
<1> QED BY <1>t, <1>1, <1>4, <1>6, <1>7, StepTo, QuietStep

LEMMA OpenStep ==
    ASSUME ConsoleInv, NEW v \in Visits, OpenSession(v)
    PROVE  ConsoleInv'
<1>t. ConsoleTypes /\ PasskeyInv /\ SigningIn(v)
  BY DEF ConsoleInv
<1> DEFINE c == jar[visit[v].browser]
           out == c = Nobody \/ ~Live(c) \/ Expired(session[c], ctime)
<1>1. /\ visit[v].stage = "idle" /\ ~Done(v) /\ c \in SomeVisit
      /\ UNCHANGED <<admin, passkey, challenge, page, ctime, signIns, rbac, acts>>
  BY <1>t, VisitFields DEF OpenSession, Configured, Done, ConsoleTypes
<1>2. CASE out
  <2>1. /\ session' = Destroyed(c) /\ jar' = [jar EXCEPT ![visit[v].browser] = Nobody]
        /\ Step(v, "done")
    BY <1>t, <1>2 DEF OpenSession, Step, ConsoleTypes
  <2> QED BY <1>1, <2>1, TurnAway
<1>3. CASE ~out
  <2> DEFINE late == ~UsableAdmin(session[c].token)
             next == [visit[v] EXCEPT !.stage = "token", !.cookie = c,
                                      !.form = page[visit[v].browser],
                                      !.token = session[c].token, !.role = session[c].role,
                                      !.at = ctime, !.late = late]
  <2>1. /\ session' = [session EXCEPT ![c].seen = ctime] /\ jar' = jar
        /\ visit' = [visit EXCEPT ![v] = next]
    BY <1>3 DEF OpenSession
  <2>2. c \in Visits /\ Live(c) /\ ctime < session[c].born + AbsoluteTTL
    <3>1. c \in Visits /\ Live(c) /\ ~(ctime >= session[c].born + AbsoluteTTL)
      BY <1>1, <1>3 DEF SomeVisit, Expired
    <3>2. session[c].born \in Nat /\ ctime \in Nat /\ AbsoluteTTL \in Nat
      BY <1>t, <3>1, ConsoleAssumption DEF ConsoleTypes, AnySession
    <3> QED BY <3>1, <3>2
  <2>3. Backed(c)
    BY <2>2 DEF ConsoleInv
  <2>4. /\ Done(c) /\ c # v /\ Known(session[c].token) /\ session[c].token = visit[c].token
        /\ session[c].born = visit[c].at
    BY <1>1, <2>3 DEF Backed
  <2>5. late \in BOOLEAN /\ (late => admin[session[c].token].state = "revoked")
    <3>1. session[c].token \in AdminIds /\ admin[session[c].token].state # "absent"
      BY <2>4 DEF Known
    <3>2. admin[session[c].token].state \in {"usable", "revoked", "absent"}
      BY <1>t, <3>1 DEF ConsoleTypes
    <3> QED BY <3>1, <3>2, ConsoleAssumption DEF UsableAdmin
  <2>6. /\ session[c].token \in SomeToken /\ session[c].role \in AnyRole
        /\ page[visit[v].browser] \in SomeVisit /\ ctime \in Nat
    BY <1>t, <2>2, VisitFields DEF ConsoleTypes, AnySession
  <2> HIDE DEF late
  <2>7. /\ next \in BrowserVisit /\ next.stage = "token" /\ next.cookie = c
        /\ next.token = session[c].token /\ next.at = ctime /\ next.late = late
        /\ next.kind = visit[v].kind /\ next.of = visit[v].of
    <3>1. visit[v] \in BrowserVisit /\ "token" \in VisitStage
      BY VisitFields, <1>t DEF VisitStage
    <3> QED BY <1>1, <2>5, <2>6, <3>1 DEF BrowserVisit
  <2> HIDE DEF next
  <2>8. /\ visit' \in [Visits -> BrowserVisit] /\ visit'[v] = next
        /\ \A w \in Visits \ {v} : visit'[w] = visit[w]
    BY <1>t, <2>1, <2>7 DEF ConsoleTypes
  <2>9. /\ session' \in [Visits -> AnySession]
        /\ \A d \in Visits : session'[d].token = session[d].token /\ session'[d].born = session[d].born
        /\ \A d \in Visits \ {c} : session'[d] = session[d]
    BY <1>t, <2>1, <2>2, <2>6 DEF ConsoleTypes, AnySession
  <2>10. ConsoleTypes' /\ PasskeyInv'
    BY <1>t, <1>1, <2>1, <2>8, <2>9 DEF ConsoleTypes, PasskeyInv
  <2>11. SessionsStay(v)
    BY <2>2, <2>9 DEF SessionsStay, Live
  <2>12. SigningIn(v)'
    BY <1>t, <1>1, <2>4, <2>7, <2>8 DEF SigningIn, Known
  <2>13. /\ visit'[v].stage = "token" /\ visit'[v].cookie = c /\ visit'[v].at = ctime
         /\ visit'[v].token = session[c].token /\ visit'[v].late = late
    BY <2>7, <2>8
  <2>14. TakesOwn(v) /\ SignInsStay(v) /\ Requesting(v)'
    <3>1. visit'[c] = visit[c]
      BY <2>2, <2>4, <2>8
    <3>2. /\ visit'[c].stage = "done" /\ Known(session[c].token) /\ admin' = admin
          /\ session[c].token = visit'[c].token
          /\ ctime < visit'[c].at + AbsoluteTTL
      BY <1>1, <2>2, <2>4, <3>1 DEF Done
    <3>3. Known(visit[v].token)'
      BY <2>13, <3>2 DEF Known
    <3>4. Requesting(v)'
      BY <2>2, <2>5, <2>13, <3>2, <3>3 DEF Requesting, Done, Known
    <3>5. TakesOwn(v)
      BY <2>13 DEF TakesOwn, KeyStages
    <3>6. SignInsStay(v)
      BY <1>1 DEF SignInsStay
    <3> QED BY <3>4, <3>5, <3>6
  <2>15. visit'[v].kind = visit[v].kind
    BY <2>7, <2>8
  <2>16. TokensStay /\ ChallengesStay(v)
    BY <1>1 DEF TokensStay, ChallengesStay
  <2>17. rbac' = rbac /\ acts' = acts
    BY <1>1
  <2> QED BY <1>1, <2>8, <2>10, <2>11, <2>12, <2>14, <2>15, <2>16, <2>17, VisitStep
<1> QED BY <1>2, <1>3

LEMMA CheckTokenStep ==
    ASSUME ConsoleInv, NEW v \in Visits, CheckToken(v)
    PROVE  ConsoleInv'
<1>t. ConsoleTypes /\ PasskeyInv /\ SigningIn(v) /\ Requesting(v)
  BY DEF ConsoleInv
<1>1. /\ visit[v].stage = "token" /\ ~Done(v)
      /\ UNCHANGED <<admin, passkey, challenge, page, ctime, signIns, rbac, acts>>
  BY DEF CheckToken, Configured, Done
<1>2. CASE ~StillGood(v)
  BY <1>t, <1>1, <1>2, VisitFields, TurnAway DEF CheckToken
<1>3. CASE StillGood(v)
  <2>1. Step(v, "form") /\ session' = session /\ jar' = jar
    BY <1>3 DEF CheckToken
  <2>2. ~visit[v].late
    BY <1>t, <1>1, <1>3 DEF Requesting, StillGood, UsableAdmin
  <2>3. LET c == visit[v].cookie IN
          /\ c \in Visits /\ Done(c) /\ c # v /\ Known(visit[v].token)
          /\ visit[v].token = visit[c].token /\ visit[v].at < visit[c].at + AbsoluteTTL
    BY <1>t, <1>1 DEF Requesting
  <2>4. "form" \in VisitStage
    BY DEF VisitStage
  <2>5. /\ visit' \in [Visits -> BrowserVisit] /\ visit'[v].stage = "form"
        /\ visit'[v].kind = visit[v].kind /\ visit'[v].token = visit[v].token
        /\ visit'[v].of = visit[v].of /\ visit'[v].cookie = visit[v].cookie
        /\ visit'[v].form = visit[v].form /\ visit'[v].at = visit[v].at
        /\ visit'[v].late = visit[v].late
        /\ \A w \in Visits \ {v} : visit'[w] = visit[w]
    BY <1>t, <2>1, <2>4, StepTo
  <2>6. ConsoleTypes' /\ PasskeyInv'
    BY <1>t, <1>1, <2>1, <2>5 DEF ConsoleTypes, PasskeyInv
  <2>7. SigningIn(v)'
    BY <1>t, <2>5 DEF SigningIn
  <2>8. Requesting(v)'
    <3>1. visit'[visit[v].cookie] = visit[visit[v].cookie]
      BY <2>3, <2>5
    <3> QED BY <1>1, <2>2, <2>3, <2>5, <3>1 DEF Requesting, Done, Known
  <2>9. TakesOwn(v) /\ SignInsStay(v)
    BY <1>1, <2>5 DEF TakesOwn, SignInsStay, KeyStages
  <2>10. TokensStay /\ ChallengesStay(v) /\ SessionsStay(v)
    BY <1>1, <2>1, StandStill
  <2>11. rbac' = rbac /\ acts' = acts
    BY <1>1
  <2> QED BY <1>1, <2>5, <2>6, <2>7, <2>8, <2>9, <2>10, <2>11, VisitStep
<1> QED BY <1>2, <1>3

\* A challenge lapses, the clock moves, or nothing happens.
LEMMA TimePasses ==
    ASSUME ConsoleInv, ConsoleTypes',
           UNCHANGED <<admin, passkey, session, visit, rbac, signIns, acts>>,
           \A c \in Visits : /\ challenge'[c].state # "none" => challenge[c].state # "none"
                             /\ challenge[c].state = "consumed" => challenge'[c].state = "consumed"
    PROVE  ConsoleInv'
<1>i. /\ PasskeyInv /\ HoldersInv
      /\ \A c \in Visits : Live(c) => Backed(c)
      /\ \A c \in Visits : challenge[c].state # "none" => Done(c)
      /\ \A w \in Visits : SigningIn(w) /\ Requesting(w)
      /\ \A x \in signIns : SignInIsRight(x)
      /\ \A x \in acts : ActIsRight(x)
  BY DEF ConsoleInv
<1>1. PasskeyInv' /\ \A c \in Visits : Live(c)' => Backed(c)'
  BY <1>i DEF PasskeyInv, Live, Backed, Done, Known
<1>2. \A c \in Visits : challenge'[c].state # "none" => Done(c)'
  BY <1>i DEF Done
<1>3. \A w \in Visits : SigningIn(w)'
  BY <1>i DEF SigningIn, Known
<1>4. \A w \in Visits : Requesting(w)'
  BY <1>i DEF Requesting, Known, Done, Authorise, Allowed
<1>5. \A w \in Visits : Holding(w)' <=> Holding(w)
  BY DEF Holding
<1>6. HoldersInv'
  BY <1>i, <1>5 DEF HoldersInv
<1>7. \A x \in signIns' : SignInIsRight(x)'
  BY <1>i DEF SignInIsRight, SignInOf, Done
<1>8. \A x \in acts' : ActIsRight(x)'
  BY <1>i DEF ActIsRight, Done
<1> QED BY <1>1, <1>2, <1>3, <1>4, <1>6, <1>7, <1>8 DEF ConsoleInv

LEMMA RestartConsoleStep ==
    ASSUME ConsoleInv, RestartConsole
    PROVE  ConsoleInv'
<1>i. /\ ConsoleTypes /\ PasskeyInv /\ HoldersInv
      /\ \A c \in Visits : challenge[c].state # "none" => Done(c)
      /\ \A w \in Visits : SigningIn(w) /\ Requesting(w)
      /\ \A x \in signIns : SignInIsRight(x)
      /\ \A x \in acts : ActIsRight(x)
  BY DEF ConsoleInv
<1>1. /\ session' = [c \in Visits |-> NoSession]
      /\ visit' = [v \in Visits |-> IF visit[v].stage = "idle" THEN visit[v]
                                    ELSE [visit[v] EXCEPT !.stage = "done"]]
      /\ UNCHANGED <<admin, passkey, challenge, jar, page, ctime, signIns, rbac, acts>>
  BY DEF RestartConsole, Configured
<1>2. ASSUME NEW r \in BrowserVisit
      PROVE  LET s == [r EXCEPT !.stage = "done"]
             IN  /\ s \in BrowserVisit /\ s.stage = "done" /\ s.kind = r.kind /\ s.token = r.token
                 /\ s.of = r.of /\ s.cookie = r.cookie /\ s.form = r.form /\ s.at = r.at
                 /\ s.late = r.late
  BY DEF BrowserVisit, VisitStage
<1>3. visit \in [Visits -> BrowserVisit]
  BY <1>i DEF ConsoleTypes
<1>4. ASSUME NEW v \in Visits
      PROVE  /\ visit'[v] \in BrowserVisit
             /\ visit'[v].stage \in {"idle", "done"}
             /\ visit'[v].stage = "idle" <=> visit[v].stage = "idle"
             /\ visit'[v].kind = visit[v].kind /\ visit'[v].token = visit[v].token
             /\ visit'[v].of = visit[v].of /\ visit'[v].cookie = visit[v].cookie
             /\ visit'[v].form = visit[v].form /\ visit'[v].at = visit[v].at
             /\ visit'[v].late = visit[v].late
  <2>1. CASE visit[v].stage = "idle"
    BY <1>1, <1>3, <2>1
  <2>2. CASE visit[v].stage # "idle"
    <3>1. visit'[v] = [visit[v] EXCEPT !.stage = "done"]
      BY <1>1, <2>2
    <3> QED BY <1>2, <1>3, <2>2, <3>1
  <2> QED BY <2>1, <2>2
<1>5. NoSession \in AnySession
  BY DEF NoSession, SomeToken, AnyRole, AnySession
<1>6. visit' \in [Visits -> BrowserVisit]
  <2>1. \A v \in Visits : visit'[v] \in BrowserVisit
    BY <1>4
  <2> QED BY <1>1, <2>1
<1>7. ConsoleTypes' /\ PasskeyInv'
  BY <1>i, <1>1, <1>5, <1>6 DEF ConsoleTypes, PasskeyInv
<1>8. \A c \in Visits : ~Live(c)' /\ (Done(c) => Done(c)')
  BY <1>1, <1>4 DEF Live, Done
<1>9. \A w \in Visits : SigningIn(w)' /\ Requesting(w)'
  <2>1. \A w \in Visits : SigningIn(w)'
    BY <1>i, <1>4 DEF SigningIn
  <2>2. \A w \in Visits : Requesting(w)'
    BY <1>4 DEF Requesting
  <2> QED BY <2>1, <2>2
<1>10. \A w \in Visits : Holding(w)' => Holding(w)
  BY <1>1, <1>4 DEF Holding, KeyStages
<1>11. HoldersInv'
  <2>1. \A w \in Visits : visit'[w].form = visit[w].form
    BY <1>4
  <2>2. ASSUME NEW w \in Visits, Holding(w)'
        PROVE  visit'[w].form \in Visits /\ challenge'[visit'[w].form].state = "consumed"
    BY <1>i, <1>1, <1>10, <2>1, <2>2 DEF HoldersInv
  <2>3. ASSUME NEW w \in Visits, NEW u \in Visits, Holding(w)', Holding(u)',
               visit'[w].form = visit'[u].form
        PROVE  w = u
    BY <1>i, <1>10, <2>1, <2>3 DEF HoldersInv
  <2> QED BY <2>2, <2>3 DEF HoldersInv
<1>12. \A x \in signIns' : SignInIsRight(x)'
  BY <1>i, <1>1, <1>4, <1>8 DEF SignInIsRight, SignInOf
<1>13. \A x \in acts' : ActIsRight(x)'
  BY <1>i, <1>1, <1>4, <1>8 DEF ActIsRight
<1>14. \A c \in Visits : challenge'[c].state # "none" => Done(c)'
  BY <1>i, <1>1, <1>8
<1> QED BY <1>7, <1>8, <1>9, <1>11, <1>12, <1>13, <1>14 DEF ConsoleInv

LEMMA ConsoleStarts ==
    ASSUME ConsoleInit
    PROVE  ConsoleInv
<1>1. PICK mix \in VisitMixes, second \in Roles :
        /\ admin = [a \in AdminIds |-> [state |-> IF a = NextToken THEN "absent" ELSE "usable",
                                        role |-> IF a = SecondToken THEN second ELSE "full"]]
        /\ visit = [v \in Visits |-> Arriving(mix[v])]
        /\ passkey = [v \in Visits |-> IF mix[v].kind = "enrolled"
                                       THEN [owner |-> mix[v].token, state |-> "active"]
                                       ELSE NoPasskey]
        /\ session = [v \in Visits |->
                        IF mix[v].kind = "signed in"
                        THEN [token |-> mix[v].token, role |-> admin[mix[v].token].role,
                              born |-> 0, seen |-> 0]
                        ELSE NoSession]
        /\ jar = [b \in Browsers |-> IF SignedIn(mix, b) = {} THEN Nobody
                                     ELSE CHOOSE v \in SignedIn(mix, b) : TRUE]
  BY DEF ConsoleInit
<1>2. /\ page = jar /\ challenge = [v \in Visits |-> NoChallenge] /\ ctime = 0
      /\ rbac \in BOOLEAN /\ signIns = {} /\ acts = {}
  BY DEF ConsoleInit
<1>3. /\ FirstToken \in AdminIds /\ SecondToken \in AdminIds
      /\ admin \in [AdminIds -> [state : {"usable", "revoked", "absent"}, role : Roles]]
      /\ Known(FirstToken) /\ Known(SecondToken)
  BY <1>1, ConsoleAssumption DEF AdminIds, Known, Roles
<1>4. ASSUME NEW v \in Visits
      PROVE  /\ mix[v] \in Asking
             /\ mix[v].kind \in Earlier => Known(mix[v].token) /\ mix[v].token \in AdminIds
             /\ mix[v].kind \in {"paste", "revoke token"} => mix[v].token \in AdminIds
             /\ mix[v].kind = "passkey" => mix[v].of \in Visits
  <2>1. mix[v] \in Asking
    BY ConsoleAssumption
  <2>2. mix[v].token \in AdminIds \cup {Nobody} /\ mix[v].of \in Visits \cup {Nobody}
    BY <2>1 DEF Asking
  <2> QED BY <1>3, <2>1, <2>2, ConsoleAssumption
<1>5. ASSUME NEW v \in Visits
      PROVE  /\ visit[v] \in BrowserVisit
             /\ visit[v].stage = IF mix[v].kind \in Earlier THEN "done" ELSE "idle"
             /\ visit[v].kind = mix[v].kind /\ visit[v].token = mix[v].token
             /\ visit[v].of = mix[v].of /\ visit[v].at = 0 /\ visit[v].late = FALSE
  <2>1. /\ mix[v].kind \in VisitKinds /\ mix[v].browser \in Browsers
        /\ mix[v].token \in SomeToken /\ mix[v].of \in SomeVisit
    BY <1>4 DEF Asking, SomeToken, SomeVisit
  <2>2. Nobody \in SomeVisit /\ "none" \in AnyRole /\ {"idle", "done"} \subseteq VisitStage
    BY DEF SomeVisit, AnyRole, VisitStage
  <2>3. visit[v] = Arriving(mix[v])
    BY <1>1
  <2> QED BY <2>1, <2>2, <2>3 DEF Arriving, BrowserVisit
<1>6. /\ passkey \in [Visits -> AnyPasskey]
      /\ PasskeyInv
  <2>1. ASSUME NEW v \in Visits
        PROVE  /\ passkey[v] \in AnyPasskey
               /\ passkey[v].state = "active" => passkey[v].owner \in AdminIds
    <3>1. CASE mix[v].kind = "enrolled"
      <4>1. mix[v].token \in AdminIds
        BY <1>4, <3>1 DEF Earlier
      <4> QED BY <1>1, <3>1, <4>1 DEF AnyPasskey, SomeToken
    <3>2. CASE mix[v].kind # "enrolled"
      BY <1>1, <3>2 DEF NoPasskey, AnyPasskey, SomeToken
    <3> QED BY <3>1, <3>2
  <2> QED BY <1>1, <2>1 DEF PasskeyInv
<1>7. ASSUME NEW v \in Visits
      PROVE  /\ session[v] \in AnySession
             /\ Live(v) => Backed(v)
  <2>1. CASE mix[v].kind = "signed in"
    <3>1. session[v] = [token |-> mix[v].token, role |-> admin[mix[v].token].role,
                        born |-> 0, seen |-> 0]
      BY <1>1, <2>1
    <3>2. mix[v].token \in AdminIds /\ Known(mix[v].token) /\ visit[v].stage = "done"
      BY <1>4, <1>5, <2>1 DEF Earlier
    <3>3. admin[mix[v].token].role \in AnyRole /\ mix[v].token \in SomeToken
      BY <1>3, <3>2 DEF AnyRole, SomeToken
    <3>4. session[v] \in AnySession
      BY <3>1, <3>3 DEF AnySession
    <3>5. visit[v].token = mix[v].token /\ visit[v].at = 0
      BY <1>5
    <3>6. Backed(v)
      BY <3>1, <3>2, <3>5 DEF Backed, Done
    <3> QED BY <3>4, <3>6
  <2>2. CASE mix[v].kind # "signed in"
    BY <1>1, <2>2 DEF Live, NoSession, SomeToken, AnyRole, AnySession
  <2> QED BY <2>1, <2>2
<1>8. jar \in [Browsers -> SomeVisit]
  <2>1. ASSUME NEW b \in Browsers
        PROVE  jar[b] \in SomeVisit
    <3>1. SignedIn(mix, b) \subseteq Visits
      BY DEF SignedIn
    <3> QED BY <1>1, <3>1 DEF SomeVisit
  <2> QED BY <1>1, <2>1
<1>9. challenge \in [Visits -> AnyChallenge]
  BY <1>2 DEF NoChallenge, SomeToken, AnyChallenge
<1>10. /\ visit \in [Visits -> BrowserVisit]
       /\ session \in [Visits -> AnySession]
  <2>1. /\ \A v \in Visits : visit[v] \in BrowserVisit
        /\ \A v \in Visits :
              session[v] \in AnySession
    BY <1>5, <1>7
  <2> QED BY <1>1, <2>1
<1>11. ConsoleTypes
  BY <1>2, <1>3, <1>6, <1>8, <1>9, <1>10 DEF ConsoleTypes
<1>12. \A c \in Visits : challenge[c].state = "none"
  BY <1>2 DEF NoChallenge
<1>13. ASSUME NEW v \in Visits
       PROVE  SigningIn(v) /\ Requesting(v)
  BY <1>4, <1>5 DEF SigningIn, Requesting
<1>14. HoldersInv
  BY <1>2, <1>5 DEF HoldersInv, Holding, KeyStages
<1> QED BY <1>2, <1>6, <1>7, <1>11, <1>12, <1>13, <1>14 DEF ConsoleInv

LEMMA ConsoleSteps ==
    ASSUME ConsoleInv, [ConsoleNext]_consoleVars
    PROVE  ConsoleInv'
<1>1. ASSUME NEW v \in Visits, Visit(v)
      PROVE  ConsoleInv'
  <2>1. CASE PasteToken(v) \/ CheckRequired(v) \/ CheckForm(v)
    BY <2>1, PasteStep, ReadingStep
  <2>2. CASE SpendSignIn(v) \/ SpendEnrol(v)
    BY <2>2, SpendSignInStep, SpendEnrolStep
  <2>3. CASE FindPasskey(v) \/ FindToken(v) \/ RecordUse(v)
    BY <2>3, FindStep
  <2>4. CASE MintSession(v) \/ OpenSession(v) \/ CheckToken(v)
    BY <2>4, MintStep, OpenStep, CheckTokenStep
  <2>5. CASE \/ BeginSignIn(v) \/ BeginEnrol(v) \/ StorePasskey(v) \/ RotateToken(v)
             \/ RevokeToken(v)
    BY <2>5, LastStep
  <2>6. CASE \/ SetSubjectStatus(v) \/ ClearLimit(v) \/ FindPerson(v) \/ ShowReference(v)
             \/ CheckHistory(v) \/ CheckBurst(v) \/ Acknowledge(v) \/ Decide(v)
    BY <2>6, FormStep
  <2>7. CASE \/ IssueCodes(v) \/ CountKeys(v) \/ WithdrawKey(v) \/ CountWithdrawal(v)
             \/ AuditForm(v) \/ EraseOnApi(v) \/ CountPasskeys(v) \/ RenderPage(v)
    BY <2>7, AsideStep
  <2>8. CASE SignOut(v) \/ WithdrawPasskey(v) \/ OwnToken(v) \/ ReadKey(v)
    BY <2>8, SignOutStep, WithdrawPasskeyStep, OwnTokenStep, ReadKeyStep
  <2> QED BY <1>1, <2>1, <2>2, <2>3, <2>4, <2>5, <2>6, <2>7, <2>8 DEF Visit
<1>2. ConsoleTypes
  BY DEF ConsoleInv
<1>3. ASSUME NEW c \in Visits, LapseChallenge(c)
      PROVE  ConsoleInv'
  <2>1. /\ challenge[c].state = "open" /\ challenge' = [challenge EXCEPT ![c].state = "lapsed"]
        /\ UNCHANGED <<admin, passkey, session, jar, page, visit, ctime, rbac, signIns, acts>>
    BY <1>3 DEF LapseChallenge, Configured
  <2>2. /\ challenge' \in [Visits -> AnyChallenge]
        /\ \A d \in Visits : /\ challenge'[d].state # "none" => challenge[d].state # "none"
                             /\ challenge[d].state = "consumed" => challenge'[d].state = "consumed"
    <3>1. challenge \in [Visits -> AnyChallenge]
      BY <1>2 DEF ConsoleTypes
    <3> QED BY <2>1, <3>1 DEF AnyChallenge
  <2>3. ConsoleTypes'
    BY <1>2, <2>1, <2>2 DEF ConsoleTypes
  <2> QED BY <2>1, <2>2, <2>3, TimePasses
<1>4. ASSUME TickConsole
      PROVE  ConsoleInv'
  <2>1. ConsoleTypes'
    BY <1>2, <1>4 DEF ConsoleTypes, TickConsole, Configured
  <2>2. /\ UNCHANGED <<admin, passkey, session, visit, rbac, signIns, acts>>
        /\ challenge' = challenge
    BY <1>4 DEF TickConsole, Configured
  <2> QED BY <2>1, <2>2, TimePasses
<1>5. ASSUME UNCHANGED consoleVars
      PROVE  ConsoleInv'
  <2>1. ConsoleTypes'
    BY <1>2, <1>5 DEF ConsoleTypes, consoleVars
  <2>2. /\ UNCHANGED <<admin, passkey, session, visit, rbac, signIns, acts>>
        /\ challenge' = challenge
    BY <1>5 DEF consoleVars
  <2> QED BY <2>1, <2>2, TimePasses
<1> QED BY <1>1, <1>3, <1>4, <1>5, RestartConsoleStep DEF ConsoleNext

LEMMA ConsoleStaysSound == ConsoleSpec => []ConsoleInv
<1> QED BY ConsoleStarts, ConsoleSteps, PTL DEF ConsoleSpec

\* No form is acted on in the name of a token that was revoked, or out of its life, before
\* the request arrived, nor AbsoluteTTL after the session's sign-in, however many browsers,
\* sign-ins and forms run beside it (requireSession, get, expired, CompleteAdminAssertion).
THEOREM SessionsDoEnd == ConsoleSpec => []SessionsEnd
<1>1. ConsoleInv => SessionsEnd
  BY DEF ConsoleInv, ActIsRight, SessionsEnd
<1> QED BY <1>1, ConsoleStaysSound, PTL

\* A form acts as the administrator whose page it was sent from, and an auditor's, with
\* roles in force, only on a sign-in of its own or to read (checkCSRF,
\* requirePermission, rolePermissions).
THEOREM FormsActAsRendered == ConsoleSpec => []ActsAsRendered
<1>1. ConsoleInv => ActsAsRendered
  BY DEF ConsoleInv, ActIsRight, ActsAsRendered
<1> QED BY <1>1, ConsoleStaysSound, PTL

\* A passkey withdrawn before its use was recorded signs nobody in, and no challenge signs
\* in twice, whatever completions present it at once (recordAssertion,
\* ConsumeAdminChallenge).
THEOREM PasskeySignInsAreSound == ConsoleSpec => []PasskeySignInIsSound
<1>1. ASSUME ConsoleInv, NEW x \in signIns, NEW y \in signIns,
             x.kind = "passkey", y.kind = "passkey"
      PROVE  ~visit[x.visit].late /\ (x.challenge = y.challenge => x = y)
  <2>1. SignInIsRight(x) /\ SignInIsRight(y) /\ HoldersInv
    BY <1>1 DEF ConsoleInv
  <2>2. /\ x.visit \in Visits /\ x.challenge = visit[x.visit].form /\ x = SignInOf(x.visit)
        /\ visit[x.visit].kind = "passkey"
    BY <1>1, <2>1 DEF SignInIsRight, SignInOf
  <2>3. /\ y.visit \in Visits /\ y.challenge = visit[y.visit].form /\ y = SignInOf(y.visit)
        /\ visit[y.visit].kind = "passkey"
    BY <1>1, <2>1 DEF SignInIsRight, SignInOf
  <2>4. Holding(x.visit) /\ Holding(y.visit)
    BY <2>2, <2>3 DEF Holding
  <2>5. x.challenge = y.challenge => x.visit = y.visit
    BY <2>1, <2>2, <2>3, <2>4 DEF HoldersInv
  <2>6. ~visit[x.visit].late
    BY <1>1, <2>1 DEF SignInIsRight
  <2> QED BY <2>2, <2>3, <2>5, <2>6
<1>2. ConsoleInv => PasskeySignInIsSound
  BY <1>1 DEF PasskeySignInIsSound
<1> QED BY <1>2, ConsoleStaysSound, PTL
=============================================================================
