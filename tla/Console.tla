------------------------------ MODULE Console -------------------------------
(***************************************************************************)
(* The administration console (internal/admin/ui): sessions in memory, the *)
(* two ways to sign in, the console's own passkeys (internal/webauthn/     *)
(* admin.go over admin_credentials and admin_webauthn_challenges), and the *)
(* forms that act on people, alerts and approval requests; beside the two  *)
(* API operations that change the token a session was made with.           *)
(*                                                                         *)
(* A visit is an HTTP request by a browser; a step is a store call or an   *)
(* access to the session store.  A session, a challenge and a passkey are  *)
(* each named by the visit that created it.  The limiter that admits a     *)
(* sign-in is module Throttle; counters of a passkey are module Passkeys.  *)
(***************************************************************************)
EXTENDS Integers, FiniteSets, Rbac

CONSTANTS
    Visits,
    VisitMixes,        \* what the visits may be
    Browsers,
    FirstToken,        \* the administrative tokens at the start
    SecondToken,
    NextToken,         \* the successor a rotation of FirstToken mints
    MaxPasskeys,       \* webauthn.max_credentials_per_subject
    WithdrawBurst,     \* throttle.admin_revoke_burst
    IdleTTL,
    AbsoluteTTL,       \* admin.session_ttl
    MaxConsoleTime     \* bound: the clock

Nobody == "nobody"

AdminIds == {FirstToken, SecondToken, NextToken}

\* A visit of one of the first two kinds was served before the model starts.
Earlier == {"signed in", "enrolled"}

VisitKinds ==
    Earlier \cup
    {"paste", "begin sign-in", "passkey", "load", "sign out", "begin enrol", "enrol",
     "withdraw passkey", "rotate", "revoke token", "lock", "unlock", "clear limit",
     "erase", "codes", "reference", "withdraw key", "check history", "acknowledge", "decide"}

Asking == [kind : VisitKinds, browser : Browsers, token : AdminIds \cup {Nobody},
           of : Visits \cup {Nobody}]

ASSUME ConsoleAssumption ==
    /\ VisitMixes \subseteq [Visits -> Asking]
    /\ \A mix \in VisitMixes : \A v \in Visits :
          /\ mix[v].kind \in Earlier => mix[v].token \in {FirstToken, SecondToken}
          /\ mix[v].kind \in {"paste", "revoke token"} => mix[v].token # Nobody
          /\ mix[v].kind = "passkey" => mix[v].of # Nobody
    /\ NextToken \notin {FirstToken, SecondToken}
    /\ Nobody \notin Visits \cup AdminIds
    /\ IdleTTL \in Nat /\ AbsoluteTTL \in Nat /\ WithdrawBurst \in Nat \ {0}

VARIABLES
    admin,      \* admin_tokens: state and role of each
    passkey,    \* admin_credentials, by the visit that enrolled each
    challenge,  \* admin_webauthn_challenges, by the visit that began each
    session,    \* sessionStore.live, by the visit that minted each
    jar,        \* the cookie every browser holds
    page,       \* the session whose request token the browser's page carries
    visit,      \* the visits
    desk,       \* what the forms act on: a person with two keys, an alert, a request
    ctime,      \* the clock
    passkeyRequired, \* admin.passkey_required
    rbac,       \* features.admin_rbac
    signIns,    \* history: completed sign-ins
    acts,       \* history: forms acted on
    entries     \* the audit entries the forms write, by visit

consoleVars == <<admin, passkey, challenge, session, jar, page, visit, desk, ctime,
                 passkeyRequired, rbac, signIns, acts, entries>>

\* The session the browser b has at the start, if any.
SignedIn(mix, b) == {v \in Visits : mix[v].kind = "signed in" /\ mix[v].browser = b}

NoSession == [token |-> Nobody, role |-> "none", born |-> 0, seen |-> 0]
NoPasskey == [owner |-> Nobody, state |-> "none"]
NoChallenge == [ceremony |-> "none", token |-> Nobody, state |-> "none"]

Arriving(ask) ==
    [stage |-> IF ask.kind \in Earlier THEN "done" ELSE "idle", kind |-> ask.kind, browser |-> ask.browser, token |-> ask.token,
     of |-> ask.of, cookie |-> Nobody, form |-> Nobody, at |-> 0, late |-> FALSE,
     role |-> "none", key |-> "none"]

ConsoleInit ==
    /\ \E second \in Roles :
          admin = [a \in AdminIds |->
                     [state |-> IF a = NextToken THEN "absent" ELSE "usable",
                      role |-> IF a = SecondToken THEN second ELSE "full"]]
    /\ \E mix \in VisitMixes :
          /\ visit = [v \in Visits |-> Arriving(mix[v])]
          /\ passkey = [v \in Visits |-> IF mix[v].kind = "enrolled"
                                        THEN [owner |-> mix[v].token, state |-> "active"]
                                        ELSE NoPasskey]
          /\ session = [v \in Visits |->
                          IF mix[v].kind = "signed in"
                          THEN [token |-> mix[v].token, role |-> admin[mix[v].token].role,
                                born |-> 0, seen |-> 0]
                          ELSE NoSession]
          /\ jar = [b \in Browsers |-> IF SignedIn(mix, b) = {} THEN Nobody
                                        ELSE CHOOSE v \in SignedIn(mix, b) : TRUE]
    /\ page = jar
    /\ challenge = [v \in Visits |-> NoChallenge]
    /\ desk = [person |-> "active", limited |-> TRUE, batch |-> Nobody,
               keys |-> {"key", "spare key"}, count |-> [a \in AdminIds |-> 0],
               bulk |-> FALSE, alert |-> "open", request |-> "pending"]
    /\ ctime = 0
    /\ passkeyRequired \in BOOLEAN
    /\ rbac \in BOOLEAN
    /\ signIns = {}
    /\ acts = {}
    /\ entries = {}

UsableAdmin(a) == a # Nobody /\ admin[a].state = "usable"

\* CountActiveAdminCredentials, ListAdminCredentials.
ActivePasskeys(a) == {v \in Visits : passkey[v].owner = a /\ passkey[v].state = "active"}

Step(v, stage) == visit' = [visit EXCEPT ![v].stage = stage]

Configured == <<passkeyRequired, rbac, entries>>

-----------------------------------------------------------------------------
(* The session store.                                                      *)

Live(c) == session[c] # NoSession

\* Mutant of Expired: only the idle deadline is applied.
ExpiredIdleOnly(s, now) == now >= s.seen + IdleTTL

\* expired: the absolute deadline and the idle one.
Expired(s, now) == now >= s.born + AbsoluteTTL \/ now >= s.seen + IdleTTL

\* sweepLocked, at every mint.
Swept(now) == [c \in Visits |-> IF Live(c) /\ Expired(session[c], now) THEN NoSession
                                ELSE session[c]]

\* destroy.
Destroyed(c) == IF c = Nobody THEN session ELSE [session EXCEPT ![c] = NoSession]

\* The sessions once the browser's old one is destroyed and v's is minted, under the
\* instant the handler read when the visit arrived.
Minted(v) ==
    LET old == IF visit[v].cookie = Nobody THEN v ELSE visit[v].cookie
    IN  [Swept(visit[v].at) EXCEPT
            ![old] = NoSession,
            ![v] = [token |-> visit[v].token, role |-> visit[v].role,
                    born |-> visit[v].at, seen |-> visit[v].at]]

-----------------------------------------------------------------------------
(* Signing in.                                                             *)

\* verifyAdminToken of handleSignInSubmit: one lookup, then Usable.
PasteToken(v) ==
    /\ visit[v].stage = "idle"
    /\ visit[v].kind = "paste"
    /\ visit' = [visit EXCEPT ![v] =
                   [@ EXCEPT !.stage = IF UsableAdmin(visit[v].token) THEN "required" ELSE "done",
                             !.cookie = jar[visit[v].browser], !.at = ctime,
                             !.role = admin[visit[v].token].role]]
    /\ UNCHANGED Configured
    /\ UNCHANGED <<admin, passkey, challenge, session, jar, page, desk, ctime, signIns, acts>>

\* passkeyRequiredFor, of a token that holds one.
CheckRequired(v) ==
    /\ visit[v].stage = "required"
    /\ Step(v, IF passkeyRequired /\ ActivePasskeys(visit[v].token) # {} THEN "done" ELSE "mint")
    /\ UNCHANGED Configured
    /\ UNCHANGED <<admin, passkey, challenge, session, jar, page, desk, ctime, signIns, acts>>

\* persistAdminChallenge under BeginAdminAssertion, naming nobody.
BeginSignIn(v) ==
    /\ visit[v].stage = "idle"
    /\ visit[v].kind = "begin sign-in"
    /\ challenge' = [challenge EXCEPT
                       ![v] = [ceremony |-> "assertion", token |-> Nobody, state |-> "open"]]
    /\ Step(v, "done")
    /\ UNCHANGED Configured
    /\ UNCHANGED <<admin, passkey, session, jar, page, desk, ctime, signIns, acts>>

\* Mutant of Takes: the challenge is read and found open, and left so.
TakesNothing(c) == challenge

\* ConsumeAdminChallenge.
Takes(c) == [challenge EXCEPT ![c].state = "consumed"]

\* The challenge a completion presents; an open one is spent, whatever follows, and one
\* that does not fit leads to refused.
Spend(v, ceremony, owner, next, refused) ==
    \E c \in Visits :
        /\ challenge[c].state # "none"
        /\ challenge' = IF challenge[c].state = "open" THEN Takes(c) ELSE challenge
        /\ visit' = [visit EXCEPT ![v] =
             [@ EXCEPT !.stage = IF challenge[c] = [ceremony |-> ceremony, token |-> owner,
                                                    state |-> "open"]
                                 THEN next ELSE refused,
                       !.form = c,
                       !.cookie = jar[visit[v].browser],
                       !.at = ctime]]

\* CompleteAdminAssertion: the challenge first.
SpendSignIn(v) ==
    /\ visit[v].stage = "idle"
    /\ visit[v].kind = "passkey"
    /\ Spend(v, "assertion", Nobody, "find key", "done")
    /\ UNCHANGED Configured
    /\ UNCHANGED <<admin, passkey, session, jar, page, desk, ctime, signIns, acts>>

\* GetAdminCredentialByID: not withdrawn, and it names the token.
FindPasskey(v) ==
    /\ visit[v].stage = "find key"
    /\ visit' = [visit EXCEPT ![v] =
          [@ EXCEPT !.stage = IF passkey[visit[v].of].state = "active" THEN "find token" ELSE "done",
                    !.token = passkey[visit[v].of].owner]]
    /\ UNCHANGED Configured
    /\ UNCHANGED <<admin, passkey, challenge, session, jar, page, desk, ctime, signIns, acts>>

\* GetAdminTokenByID, Usable, then the signature, which the library checks.
FindToken(v) ==
    /\ visit[v].stage = "find token"
    /\ visit' = [visit EXCEPT ![v] =
          [@ EXCEPT !.stage = IF UsableAdmin(visit[v].token) THEN "record" ELSE "done",
                    !.role = admin[visit[v].token].role]]
    /\ UNCHANGED Configured
    /\ UNCHANGED <<admin, passkey, challenge, session, jar, page, desk, ctime, signIns, acts>>

\* Mutant of RecordUse: the use is recorded whether or not the key is withdrawn.
RecordUseAny(v) ==
    /\ visit[v].stage = "record"
    /\ visit' = [visit EXCEPT ![v].stage = "mint",
                              ![v].late = passkey[visit[v].of].state = "withdrawn"]
    /\ UNCHANGED Configured
    /\ UNCHANGED <<admin, passkey, challenge, session, jar, page, desk, ctime, signIns, acts>>

\* recordAssertion through adminCredentialWriter: a withdrawn key ends it.
RecordUse(v) ==
    /\ visit[v].stage = "record"
    /\ visit' = [visit EXCEPT ![v].stage =
                   IF passkey[visit[v].of].state = "active" THEN "mint" ELSE "done",
                              ![v].late = passkey[visit[v].of].state = "withdrawn"]
    /\ UNCHANGED Configured
    /\ UNCHANGED <<admin, passkey, challenge, session, jar, page, desk, ctime, signIns, acts>>

\* The new session and its cookie.
MintSession(v) ==
    /\ visit[v].stage = "mint"
    /\ session' = Minted(v)
    /\ jar' = [jar EXCEPT ![visit[v].browser] = v]
    /\ signIns' = signIns \cup
         {[visit |-> v, token |-> visit[v].token, kind |-> visit[v].kind,
           challenge |-> visit[v].form, ended |-> visit[v].cookie]}
    /\ Step(v, "done")
    /\ UNCHANGED Configured
    /\ UNCHANGED <<admin, passkey, challenge, page, desk, ctime, acts>>

-----------------------------------------------------------------------------
(* A request made with a session.                                          *)

SessionKinds ==
    VisitKinds \ (Earlier \cup {"paste", "begin sign-in", "passkey", "rotate", "revoke token", "erase"})

\* sessionStore.get under the cookie the browser sends: an expired session is
\* removed, a live one renewed.  The form is of the page the browser shows.
OpenSession(v) ==
    LET c == jar[visit[v].browser]
        out == c = Nobody \/ ~Live(c) \/ Expired(session[c], ctime)
    IN  /\ visit[v].stage = "idle"
        /\ visit[v].kind \in SessionKinds
        /\ session' = IF out THEN Destroyed(c) ELSE [session EXCEPT ![c].seen = ctime]
        /\ jar' = IF out THEN [jar EXCEPT ![visit[v].browser] = Nobody] ELSE jar
        /\ visit' = [visit EXCEPT ![v] =
             IF out THEN [@ EXCEPT !.stage = "done"]
             ELSE [@ EXCEPT !.stage = "token", !.cookie = c, !.form = page[visit[v].browser],
                            !.token = session[c].token, !.role = session[c].role, !.at = ctime,
                            !.late = ~UsableAdmin(session[c].token)]]
        /\ UNCHANGED Configured
        /\ UNCHANGED <<admin, passkey, challenge, page, desk, ctime, signIns, acts>>

\* Mutant of StillGood: the session is trusted for as long as it lives.
StillGoodUnread(v) == TRUE

\* requireSession's reading of the token behind the session.
StillGood(v) == UsableAdmin(visit[v].token) /\ admin[visit[v].token].role = visit[v].role

\* A session whose token is no longer good is destroyed.
CheckToken(v) ==
    /\ visit[v].stage = "token"
    /\ IF StillGood(v)
       THEN Step(v, "form") /\ UNCHANGED <<session, jar>>
       ELSE /\ session' = Destroyed(visit[v].cookie)
            /\ jar' = [jar EXCEPT ![visit[v].browser] = Nobody]
            /\ Step(v, "done")
    /\ UNCHANGED Configured
    /\ UNCHANGED <<admin, passkey, challenge, page, desk, ctime, signIns, acts>>

\* The permission each form asks for; one's own passkeys and session need none.
FormPermission ==
    [k \in {"lock", "unlock", "clear limit", "codes", "reference", "withdraw key",
            "check history", "acknowledge", "decide"} |->
        CASE k = "lock" -> "subject.lock" [] k = "unlock" -> "subject.unlock"
          [] k = "clear limit" -> "throttle.reset" [] k = "codes" -> "recovery.reissue"
          [] k = "reference" -> "subject.read" [] k = "withdraw key" -> "credential.revoke"
          [] k = "check history" -> "audit.verify" [] k = "acknowledge" -> "alert.acknowledge"
          [] k = "decide" -> "approval.decide"]

\* Mutant of FormIsOurs: the request token is not compared.
FormIsOursAny(v) == TRUE

\* checkCSRF: the page must have been rendered for this session.
FormIsOurs(v) == visit[v].form = visit[v].cookie

\* actionPreamble after the session: the request token, then the permission; what
\* either refuses is recorded (auditDenied).
CheckForm(v) ==
    /\ visit[v].stage = "form"
    /\ visit[v].kind # "load"
    /\ Step(v, IF /\ FormIsOurs(v)
                  /\ visit[v].kind \in DOMAIN FormPermission =>
                        Authorise(visit[v].role, FormPermission[visit[v].kind], rbac)
               THEN "act" ELSE "audit")
    /\ UNCHANGED Configured
    /\ UNCHANGED <<admin, passkey, challenge, session, jar, page, desk, ctime, signIns, acts>>

Acted(v) ==
    acts' = acts \cup {[visit |-> v, kind |-> visit[v].kind, token |-> visit[v].token,
                        role |-> visit[v].role, session |-> visit[v].cookie,
                        page |-> IF visit[v].form = Nobody THEN Nobody
                                 ELSE visit[visit[v].form].token,
                        at |-> visit[v].at, late |-> visit[v].late]}

\* The forms of the operator's own sign-in, which ask for no permission.
OwnForms == {"sign out", "begin enrol", "enrol", "withdraw passkey"}

\* A screen, which carries the request token of the session it was rendered for.
RenderPage(v) ==
    /\ visit[v].stage = "form"
    /\ visit[v].kind = "load"
    /\ page' = [page EXCEPT ![visit[v].browser] = visit[v].cookie]
    /\ Step(v, "done")
    /\ UNCHANGED Configured
    /\ UNCHANGED <<admin, passkey, challenge, session, jar, desk, ctime, signIns, acts>>

\* The first store call of a form of one of these kinds, and where it leads.
Acting(v, kinds, next) ==
    /\ visit[v].stage = "act"
    /\ visit[v].kind \in kinds
    /\ Step(v, next)
    /\ Acted(v)
    /\ UNCHANGED <<passkeyRequired, rbac, entries>>

Elsewhere == <<admin, passkey, challenge, session, jar, page, ctime, signIns>>

\* handleSignOut, which writes no entry.
SignOut(v) ==
    /\ Acting(v, {"sign out"}, "done")
    /\ session' = Destroyed(visit[v].cookie)
    /\ jar' = [jar EXCEPT ![visit[v].browser] = Nobody]
    /\ UNCHANGED <<admin, passkey, challenge, page, desk, ctime, signIns>>

PersonErased == desk.person = "deleted"

\* setSubjectStatus: a person being erased is not found.
SetSubjectStatus(v) ==
    /\ Acting(v, {"lock", "unlock"}, IF PersonErased THEN "done" ELSE "audit")
    /\ desk' = [desk EXCEPT !.person = IF PersonErased THEN @
                                       ELSE IF visit[v].kind = "lock" THEN "locked" ELSE "active"]
    /\ UNCHANGED Elsewhere

\* handleSubjectClearLimit: Limiter.ResetSubject.
ClearLimit(v) ==
    /\ Acting(v, {"clear limit"}, "audit")
    /\ desk' = [desk EXCEPT !.limited = FALSE]
    /\ UNCHANGED Elsewhere

\* handleSubjectRecoveryCodes: GetSubject, then ReplaceRecoveryCodes.
FindPerson(v) ==
    /\ Acting(v, {"codes"}, IF PersonErased THEN "done" ELSE "codes")
    /\ UNCHANGED desk /\ UNCHANGED Elsewhere

IssueCodes(v) ==
    /\ visit[v].stage = "codes"
    /\ desk' = [desk EXCEPT !.batch = v]
    /\ Step(v, "audit")
    /\ UNCHANGED Elsewhere /\ UNCHANGED <<passkeyRequired, rbac, acts, entries>>

\* handleSubjectReference: renderSubject shows it, unless there is no such person,
\* and only then is there something to record.
ShowReference(v) ==
    /\ Acting(v, {"reference"}, IF PersonErased THEN "done" ELSE "audit")
    /\ UNCHANGED desk /\ UNCHANGED Elsewhere

\* handleAuditCheck: Recorder.Verify, which module AuditChain walks, and its entry.
CheckHistory(v) ==
    /\ Acting(v, {"check history"}, "audit")
    /\ UNCHANGED desk /\ UNCHANGED Elsewhere

\* handleCredentialWithdraw: the operator's burst.
CheckBurst(v) ==
    /\ Acting(v, {"withdraw key"},
              IF desk.count[visit[v].token] >= WithdrawBurst THEN "audit" ELSE "read key")
    /\ UNCHANGED desk /\ UNCHANGED Elsewhere

\* GetCredential: not withdrawn already.
ReadKey(v) ==
    /\ visit[v].stage = "read key"
    /\ \E k \in {"key", "spare key"} :
          visit' = [visit EXCEPT ![v].stage = IF k \in desk.keys THEN "count keys" ELSE "done",
                                 ![v].key = k]
    /\ UNCHANGED <<desk, passkeyRequired, rbac, acts, entries>> /\ UNCHANGED Elsewhere

\* CountActiveCredentials: the last one asks for a box to be ticked.
CountKeys(v) ==
    /\ visit[v].stage = "count keys"
    /\ \E allowLast \in BOOLEAN :
          Step(v, IF Cardinality(desk.keys) <= 1 /\ ~allowLast THEN "done" ELSE "withdraw")
    /\ UNCHANGED <<desk, passkeyRequired, rbac, acts, entries>> /\ UNCHANGED Elsewhere

\* RevokeCredential.
WithdrawKey(v) ==
    /\ visit[v].stage = "withdraw"
    /\ Step(v, IF visit[v].key \in desk.keys THEN "count withdrawal" ELSE "done")
    /\ desk' = [desk EXCEPT !.keys = @ \ {visit[v].key}]
    /\ UNCHANGED Elsewhere /\ UNCHANGED <<passkeyRequired, rbac, acts, entries>>

\* Limiter.Record; the withdrawal that reaches the burst raises the alert.
CountWithdrawal(v) ==
    LET used == desk.count[visit[v].token] + 1
    IN  /\ visit[v].stage = "count withdrawal"
        /\ desk' = [desk EXCEPT !.count[visit[v].token] = used,
                                !.bulk = @ \/ used >= WithdrawBurst]
        /\ Step(v, "audit")
        /\ UNCHANGED Elsewhere /\ UNCHANGED <<passkeyRequired, rbac, acts, entries>>

\* handleAlertAcknowledge: one already acknowledged is not found.
Acknowledge(v) ==
    /\ Acting(v, {"acknowledge"}, IF desk.alert = "open" THEN "audit" ELSE "done")
    /\ desk' = [desk EXCEPT !.alert = "acknowledged"]
    /\ UNCHANGED Elsewhere

\* decideApproval of a request FirstToken raised: its own decision is refused and
\* recorded, a decided request is left alone.  Principals are module Approval's.
Decide(v) ==
    LET own == visit[v].token = FirstToken
        pending == desk.request = "pending"
    IN  /\ Acting(v, {"decide"}, IF pending THEN "audit" ELSE "done")
        /\ \E outcome \in {"approved", "rejected"} :
              desk' = [desk EXCEPT !.request = IF pending /\ ~own THEN outcome ELSE @]
        /\ UNCHANGED Elsewhere

\* audited and auditDenied: the entry that names the operator.
AuditForm(v) ==
    /\ visit[v].stage = "audit"
    /\ entries' = entries \cup {[visit |-> v, kind |-> visit[v].kind, token |-> visit[v].token]}
    /\ Step(v, "done")
    /\ UNCHANGED <<desk, passkeyRequired, rbac, acts>> /\ UNCHANGED Elsewhere

\* SoftDeleteSubject of an erasure, from the API.
EraseOnApi(v) ==
    /\ visit[v].stage = "idle"
    /\ visit[v].kind = "erase"
    /\ desk' = [desk EXCEPT !.person = "deleted"]
    /\ Step(v, "done")
    /\ UNCHANGED Elsewhere /\ UNCHANGED <<passkeyRequired, rbac, acts, entries>>

-----------------------------------------------------------------------------
(* The console's own passkeys.                                             *)

\* requireOwnToken reads the token once more.
OwnToken(v) ==
    /\ Acting(v, {"begin enrol", "enrol"},
              IF UsableAdmin(visit[v].token) THEN visit[v].kind ELSE "done")
    /\ UNCHANGED desk /\ UNCHANGED Elsewhere

\* BeginAdminRegistration: the cap, then a challenge that names the token.
BeginEnrol(v) ==
    /\ visit[v].stage = "begin enrol"
    /\ challenge' = IF Cardinality(ActivePasskeys(visit[v].token)) >= MaxPasskeys THEN challenge
                    ELSE [challenge EXCEPT ![v] = [ceremony |-> "registration",
                                                   token |-> visit[v].token, state |-> "open"]]
    /\ Step(v, "done")
    /\ UNCHANGED Configured
    /\ UNCHANGED <<admin, passkey, session, jar, page, desk, ctime, signIns, acts>>

\* CompleteAdminRegistration: the challenge must name the same token.
SpendEnrol(v) ==
    /\ visit[v].stage = "enrol"
    /\ Spend(v, "registration", visit[v].token, "store key", "audit")
    /\ UNCHANGED Configured
    /\ UNCHANGED <<admin, passkey, session, jar, page, desk, ctime, signIns, acts>>

\* The cap once more, and CreateAdminCredential; stored or refused, it is recorded.
StorePasskey(v) ==
    /\ visit[v].stage = "store key"
    /\ passkey' = IF Cardinality(ActivePasskeys(visit[v].token)) >= MaxPasskeys THEN passkey
                  ELSE [passkey EXCEPT ![v] = [owner |-> visit[v].token, state |-> "active"]]
    /\ Step(v, "audit")
    /\ UNCHANGED Configured
    /\ UNCHANGED <<admin, challenge, session, jar, page, desk, ctime, signIns, acts>>

\* GetAdminCredential, whose token must be the session's, and RevokeAdminCredential's
\* condition.
OwnActive(v) ==
    passkey[visit[v].of].owner = visit[v].token /\ passkey[visit[v].of].state = "active"

\* handlePasskeyWithdraw: a key of one's own that is active, and only then an entry.
WithdrawPasskey(v) ==
    /\ Acting(v, {"withdraw passkey"}, IF OwnActive(v) THEN "audit" ELSE "done")
    /\ passkey' = IF OwnActive(v) THEN [passkey EXCEPT ![visit[v].of].state = "withdrawn"]
                  ELSE passkey
    /\ UNCHANGED <<admin, challenge, session, jar, page, desk, ctime, signIns>>

-----------------------------------------------------------------------------
(* The tokens behind the sessions.                                         *)

\* handleAdminRotateOwnToken counts the passkeys first.
CountPasskeys(v) ==
    /\ visit[v].stage = "idle"
    /\ visit[v].kind = "rotate"
    /\ Step(v, IF UsableAdmin(FirstToken) /\ ActivePasskeys(FirstToken) = {} THEN "rotate" ELSE "done")
    /\ UNCHANGED Configured
    /\ UNCHANGED <<admin, passkey, challenge, session, jar, page, desk, ctime, signIns, acts>>

\* RotateAdminToken, of a token that is not revoked; its grace starts.  The successor of
\* a second rotation is another token yet, which no visit here has.
RotateToken(v) ==
    /\ visit[v].stage = "rotate"
    /\ admin' = IF admin[FirstToken].state = "revoked" \/ admin[NextToken].state # "absent"
                THEN admin
                ELSE [admin EXCEPT ![NextToken].state = "usable"]
    /\ Step(v, "done")
    /\ UNCHANGED Configured
    /\ UNCHANGED <<passkey, challenge, session, jar, page, desk, ctime, signIns, acts>>

\* RevokeAdminToken, or the end of a predecessor's grace.
RevokeToken(v) ==
    /\ visit[v].stage = "idle"
    /\ visit[v].kind = "revoke token"
    /\ admin' = IF admin[visit[v].token].state = "absent" THEN admin
                ELSE [admin EXCEPT ![visit[v].token].state = "revoked"]
    /\ Step(v, "done")
    /\ UNCHANGED Configured
    /\ UNCHANGED <<passkey, challenge, session, jar, page, desk, ctime, signIns, acts>>

\* DeleteExpiredChallenges, or the challenge's lifetime: it can no longer be spent.
LapseChallenge(c) ==
    /\ challenge[c].state = "open"
    /\ challenge' = [challenge EXCEPT ![c].state = "lapsed"]
    /\ UNCHANGED Configured
    /\ UNCHANGED <<admin, passkey, session, jar, page, visit, desk, ctime, signIns, acts>>

TickConsole ==
    /\ ctime < MaxConsoleTime
    /\ ctime' = ctime + 1
    /\ UNCHANGED Configured
    /\ UNCHANGED <<admin, passkey, challenge, session, jar, page, visit, desk, signIns, acts>>

\* The process restarts: the sessions are gone and so is every request under way.
RestartConsole ==
    /\ \E c \in Visits : Live(c)
    /\ session' = [c \in Visits |-> NoSession]
    /\ visit' = [v \in Visits |-> IF visit[v].stage = "idle" THEN visit[v]
                                  ELSE [visit[v] EXCEPT !.stage = "done"]]
    /\ UNCHANGED Configured
    /\ UNCHANGED <<admin, passkey, challenge, jar, page, desk, ctime, signIns, acts>>

Visit(v) ==
    \/ PasteToken(v) \/ CheckRequired(v) \/ BeginSignIn(v) \/ SpendSignIn(v)
    \/ FindPasskey(v) \/ FindToken(v) \/ RecordUse(v) \/ MintSession(v)
    \/ OpenSession(v) \/ CheckToken(v) \/ CheckForm(v) \/ RenderPage(v)
    \/ SignOut(v) \/ SetSubjectStatus(v) \/ ClearLimit(v) \/ FindPerson(v) \/ IssueCodes(v)
    \/ ShowReference(v) \/ CheckHistory(v) \/ CheckBurst(v) \/ ReadKey(v) \/ CountKeys(v)
    \/ WithdrawKey(v) \/ CountWithdrawal(v) \/ Acknowledge(v) \/ Decide(v) \/ AuditForm(v)
    \/ EraseOnApi(v)
    \/ OwnToken(v) \/ BeginEnrol(v) \/ SpendEnrol(v) \/ StorePasskey(v) \/ WithdrawPasskey(v)
    \/ CountPasskeys(v) \/ RotateToken(v) \/ RevokeToken(v)

ConsoleNext ==
    \/ \E v \in Visits : Visit(v) \/ LapseChallenge(v)
    \/ TickConsole
    \/ RestartConsole

ConsoleSpec == ConsoleInit /\ [][ConsoleNext]_consoleVars

-----------------------------------------------------------------------------
(* Properties.                                                             *)

\* No form is acted on under a token that was revoked, or out of its life, before
\* the request arrived, whatever session or sign-in was under way when it was, nor
\* AbsoluteTTL after the session's sign-in, however it was kept busy (requireSession,
\* get, expired, CompleteAdminAssertion).
SessionsEnd ==
    \A x \in acts : ~x.late /\ x.at < visit[x.session].at + AbsoluteTTL

\* A form acts as the administrator whose page it was sent from, although the
\* browser may have signed in as another since the page was loaded.  With roles in
\* force an auditor's forms are those of a sign-in of its own, which every role may
\* send (RBAC.md), and the two that read: none acts on a person, an alert or a
\* request (checkCSRF, requirePermission, rolePermissions).
ActsAsRendered ==
    \A x \in acts :
        /\ x.page = x.token
        /\ rbac /\ x.role = "auditor" => x.kind \in OwnForms \cup {"reference", "check history"}

\* A passkey withdrawn before its use was recorded signs nobody in, and a challenge
\* signs in once (recordAssertion, ConsumeAdminChallenge).
PasskeySignInIsSound ==
    \A x, y \in signIns : x.kind = "passkey" /\ y.kind = "passkey" =>
        /\ ~visit[x.visit].late
        /\ x.challenge = y.challenge => x = y

\* "AdminRevokeBurst is the number of revocations one administrator may perform
\* inside Window before the operation is refused" (config.go).
BurstBounds == Cardinality({"key", "spare key"} \ desk.keys) <= WithdrawBurst

\* "Refusing is what keeps the requirement and the credentials together until the
\* rotation can carry them" (rotate.go): a successor is not signed in by pasting
\* while its predecessor holds a passkey and the deployment requires it.
RequirementSurvivesRotation ==
    passkeyRequired /\ ActivePasskeys(FirstToken) # {} =>
        ~ \E x \in signIns : x.token = NextToken /\ x.kind = "paste"
=============================================================================
