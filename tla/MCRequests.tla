----------------------------- MODULE MCRequests -----------------------------
(***************************************************************************)
(* The parts requests go through and share state in, each part alone: the  *)
(* chain of the audit log, the enrolment tickets, the administration       *)
(* console, the sealed values, the keys of the assertions and the alerts.  *)
(* No two of them share state, so a run follows one of them and leaves the *)
(* others where they started.                                              *)
(***************************************************************************)
EXTENDS AuditChain, Tickets, Console, Sealing, Assertions, Alerts

CONSTANTS c1, c2, t1, t2, t3, t4, v1, v2, v3, v4, v5, v6, b1, b2, first, second, next

VARIABLE scene

requestVars ==
    <<scene, chainVars, ticketVars, consoleVars, sealVars, assertionVars, alertVars>>

-----------------------------------------------------------------------------
(* Tickets: an issue, a redemption of its ticket, a second issue or a second *)
(* redemption, and a revocation or a redemption of either ticket.            *)

Wanted(kind, guard, target) == [kind |-> kind, guard |-> guard, target |-> target]

TicketMix(guard, third, last) ==
    [c \in TicketCalls |->
        CASE c = t1 -> Wanted("issue", guard, t1)
          [] c = t2 -> Wanted("redeem", FALSE, t1)
          [] c = t3 -> third
          [] c = t4 -> last]

MCTicketMixes ==
    {TicketMix(TRUE, Wanted("redeem", FALSE, t1), Wanted("revoke", FALSE, t1)),
     TicketMix(TRUE, Wanted("admin issue", FALSE, t1), Wanted("redeem", FALSE, t3)),
     TicketMix(FALSE, Wanted("admin issue", FALSE, t1), Wanted("revoke", FALSE, t1))}

-----------------------------------------------------------------------------
(* The console: small scenes of visits, each a hazard.                       *)

V(kind, browser, token, of) ==
    [kind |-> kind, browser |-> browser, token |-> token, of |-> of]

Scene(a, b, c, d, e, f) ==
    [v \in {v1, v2, v3, v4, v5, v6} |->
        CASE v = v1 -> a [] v = v2 -> b [] v = v3 -> c
          [] v = v4 -> d [] v = v5 -> e [] v = v6 -> f]

In(token, browser) == V("signed in", browser, token, Nobody)
Act(kind, browser) == V(kind, browser, Nobody, Nobody)

\* Each form, sent as the second token, which is revoked meanwhile.
Forms ==
    {Scene(In(second, b1), Act(k, b1), Act("load", b1), V("revoke token", b2, second, Nobody),
           V("enrolled", b1, second, Nobody), V("enrolled", b2, first, Nobody)) :
       k \in DOMAIN FormPermission}

\* Two withdrawals by one operator, while the person is erased.
Withdrawals ==
    Scene(In(first, b1), Act("withdraw key", b1), Act("withdraw key", b1),
          V("enrolled", b1, second, Nobody), In(first, b2), V("erase", b2, first, Nobody))

\* A browser that keeps its session busy up to its absolute deadline.
Busy ==
    Scene(In(first, b1), Act("lock", b1), Act("load", b1), Act("sign out", b1),
          V("enrolled", b1, second, Nobody), V("enrolled", b2, second, Nobody))

\* The browser signs in as another while a page of the first is open.
Switch ==
    Scene(In(first, b1), V("paste", b1, second, Nobody), Act("lock", b1), Act("load", b1),
          V("enrolled", b1, second, Nobody), V("enrolled", b2, second, Nobody))

\* A passkey is used twice while it is withdrawn and its token revoked.
Keys ==
    {Scene(In(first, b1), V("enrolled", b1, first, Nobody), Act("begin sign-in", b2),
           V("passkey", b2, Nobody, v2), V("passkey", b2, Nobody, v2), last) :
       last \in {V("withdraw passkey", b1, Nobody, v2), V("revoke token", b1, first, Nobody)}}

\* An enrolment runs beside a rotation of its token, whose successor signs in.
Rotation ==
    {Scene(In(first, b1), Act("begin enrol", b1), Act("enrol", b1),
           V("rotate", b2, first, Nobody), V("paste", b2, next, Nobody), last) :
       last \in {V("enrolled", b2, first, Nobody), V("enrolled", b2, second, Nobody)}}

\* The second token, an auditor's or not, withdraws its passkey and enrols another,
\* and is revoked meanwhile.
Own ==
    Scene(In(second, b1), V("withdraw passkey", b1, Nobody, v5), Act("begin enrol", b1),
          Act("enrol", b1), V("enrolled", b1, second, Nobody),
          V("revoke token", b2, second, Nobody))

MCVisitMixes == Forms \cup {Withdrawals, Busy, Switch, Own} \cup Keys \cup Rotation

\* Roles matter to the forms and the requirement of a passkey to the rest.
ConsoleLoad ==
    IF visit[v1].token = second
    THEN passkeyRequired /\ (rbac \/ admin[second].role = "auditor")
    ELSE rbac /\ admin[second].role = "full"

-----------------------------------------------------------------------------
(* Sealing: sign-ins of a person not known yet beside an enrolment and a    *)
(* secret sealed before the rotation, with the ids in two orders.            *)

MCSealMixes ==
    {<<"resolve", "before", "resolve">>, <<"before", "resolve", "enrol">>}

(* Alerts of two conditions, one of which names a subject.                   *)
MCOccurrences ==
    { <<"recovery.low", "carol", "absent">>, <<"kek.rotation_overdue", "absent", "v1">> }

-----------------------------------------------------------------------------
(* Bounds on what is explored.                                               *)

\* One reader of the audit log at a time.  A reader that pages meets no trim, and while
\* a walk reads on PostgreSQL one transaction, its number drawn, may commit: the walk
\* only sees what is committed.
ReadersLoad ==
    /\ pager.cursor > 0 =>
         walk.stage = "idle" /\ \A c \in Callers : caller[c].job # "prune"
    /\ walk.stage # "idle" =>
         caller[c1].stage \in {"idle", "prepared"} /\ caller[c2].stage = "idle"

\* One administrator runs a rewrap pass at a time.
OnePass == Cardinality({s \in KeyServers : rewrap[s].stage # "none"}) <= 1

\* Two verifications overlap early on, and later there is one at a time.
ChecksLoad == keyTime > 1 => \E c \in Checks : \A d \in Checks \ {c} : check[d] = Idle

\* The refusals are filed under a tenant nobody lists: they come alone, and one
\* at a time.
AlertLoad ==
    refused.count > 0 =>
      /\ raised = 0 /\ listing.at = "idle" /\ \A r \in alerts : r.open
      /\ Cardinality({q \in Requests : asking[q] # NotAsking}) <= 1

-----------------------------------------------------------------------------
RequestsInit ==
    /\ scene \in {"chain", "tickets", "console", "sealing", "assertions", "alerts"}
    /\ ChainInit
    /\ scene # "chain" => engine = "sqlite"
    /\ TicketsInit
    /\ scene # "tickets" =>
         /\ ticketEngine = "sqlite" /\ ~totpHeld
         /\ call = [c \in TicketCalls |->
                      FreshCall(TicketMix(TRUE, Wanted("redeem", FALSE, t1),
                                          Wanted("revoke", FALSE, t1))[c])]
    /\ ConsoleInit /\ ConsoleLoad
    /\ scene # "console" => ~passkeyRequired /\ visit = [v \in Visits |-> Arriving(Busy[v])]
    /\ SealingInit
    /\ scene # "sealing" => sealCall[1].kind = "before"
    /\ AssertionsInit
    /\ AlertsInit
    /\ scene # "alerts" => backend = "sqlite"

\* The part of this name moves and no other.
Frame(part) ==
    /\ scene = part /\ UNCHANGED scene
    /\ IF part = "chain" THEN TRUE ELSE UNCHANGED chainVars
    /\ IF part = "tickets" THEN TRUE ELSE UNCHANGED ticketVars
    /\ IF part = "console" THEN TRUE ELSE UNCHANGED consoleVars
    /\ IF part = "sealing" THEN TRUE ELSE UNCHANGED sealVars
    /\ IF part = "assertions" THEN TRUE ELSE UNCHANGED assertionVars
    /\ IF part = "alerts" THEN TRUE ELSE UNCHANGED alertVars

RequestsNext ==
    \/ Frame("chain") /\ ChainNext
    \/ Frame("tickets") /\ TicketsNext
    \/ Frame("console") /\ ConsoleNext
    \/ Frame("sealing") /\ SealingNext
    \/ Frame("assertions") /\ AssertionsNext
    \/ Frame("alerts") /\ AlertsNext

RequestsSpec == RequestsInit /\ [][RequestsNext]_requestVars
=============================================================================
