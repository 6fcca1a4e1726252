---------------------------- MODULE AdminTokens ----------------------------
(***************************************************************************)
(* The administrative tokens of one tenant: minting, self-service          *)
(* rotation, and revocation behind the last-administrator guard            *)
(* (internal/api/admin.go and rotate.go over TokenStore).                  *)
(*                                                                         *)
(* Each request is a process that authenticates with a token and runs one  *)
(* handler; a step is a store call, an operation on the mutex              *)
(* adminRevocation, or a reading of the clock.  A token minted or rotated  *)
(* into existence is named by the request that created it.  Dual approval  *)
(* of minting is module Approval; here the feature is off.                 *)
(***************************************************************************)
EXTENDS TokenStore

CONSTANTS
    FirstAdmins,       \* the full administrators bootstrap created
    Lifetimes,         \* values of expires_in_days in use, 0 leaving it out
    MaxRotationGrace

NoReq == "none"

\* Bootstrap creates at least one administrator.  A lifetime is a day or more, a
\* request ends within seconds.
ASSUME TokenAssumption ==
    /\ Token = FirstAdmins \cup Reqs /\ FirstAdmins \cap Reqs = {}
    /\ IsFiniteSet(Token) /\ NoReq \notin Token /\ FirstAdmins # {}
    /\ Lifetimes \subseteq Nat /\ 0 \in Lifetimes
    /\ MaxRotationGrace \in Nat /\ Latency \in Nat /\ MaxTime \in Nat
    /\ \A life \in Lifetimes \ {0} : life > Latency

VARIABLES
    req,      \* the requests, by process
    mutex,    \* who holds adminRevocation
    born,     \* history: the expiry a line of tokens was issued with
    limited   \* history: some token has been asked a lifetime for

vars == <<clock, tokens, req, mutex, born, limited>>

Kind == {"mint", "rotate", "revoke"}

Stage == {"idle", "begin", "mint", "rotate", "list", "lock", "countNow",
          "countHorizon", "revoke", "done"}

Request ==
    [stage : Stage, kind : Kind \cup {NoReq},
     began  : Nat,
     caller : Token \cup {NoReq},
     own    : Row,                   \* the caller's row as the middleware read it
     now    : Nat,                   \* the handler's reading of the clock
     target : Token \cup {NoReq},
     copy   : Row]                    \* the target's row as ListAdminTokens had it

Fresh == [stage |-> "idle", kind |-> NoReq, began |-> 0, caller |-> NoReq,
          own |-> NoRow, now |-> 0, target |-> NoReq, copy |-> NoRow]

Done == [Fresh EXCEPT !.stage = "done"]

Init ==
    /\ clock = 1
    /\ tokens = [t \in Token |-> IF t \in FirstAdmins THEN Issued(t, TRUE, 0)
                                 ELSE NoRow]
    /\ req = [r \in Reqs |-> Fresh]
    /\ mutex = NoReq
    /\ born = [t \in Token |-> 0]
    /\ limited = FALSE

-----------------------------------------------------------------------------
(* The middleware and the two handlers that add a token.                   *)

\* RequireAdmin and the permission of the route: minting and revoking are a full
\* administrator's, rotating its own token is anybody's.
Authenticate(r, t, kind) ==
    /\ req[r].stage = "idle"
    /\ Usable(tokens[t], clock)
    /\ kind # "rotate" => tokens[t].full
    /\ req' = [req EXCEPT ![r] = [Fresh EXCEPT
                 !.stage = IF kind = "revoke" THEN "list" ELSE "begin",
                 !.kind = kind, !.began = clock, !.caller = t, !.own = tokens[t]]]
    /\ UNCHANGED <<clock, tokens, mutex, born, limited>>

\* The handler reads the clock.
Begin(r) ==
    /\ req[r].stage = "begin"
    /\ req' = [req EXCEPT ![r].now = clock, ![r].stage = req[r].kind]
    /\ UNCHANGED <<clock, tokens, mutex, born, limited>>

\* Mutant of Expiry: a sign error.
ExpiryBefore(now, life) == IF life = 0 THEN 0 ELSE now - life

\* expiryFromDays.
Expiry(now, life) == IF life = 0 THEN 0 ELSE now + life

\* CreateAdminToken.
Mint(r, full, life) ==
    /\ req[r].stage = "mint"
    /\ tokens' = [tokens EXCEPT ![r] = Issued(r, full, Expiry(req[r].now, life))]
    /\ born' = [born EXCEPT ![r] = Expiry(req[r].now, life)]
    /\ limited' = (limited \/ life # 0)
    /\ req' = [req EXCEPT ![r] = Done]
    /\ UNCHANGED <<clock, mutex>>

\* Mutant of SuccessorExpiry: what the body asks for is not held against the
\* predecessor's expiry.
SuccessorExpiryUnbounded(own, now, life) ==
    IF life = 0 THEN {own.expires} ELSE {Expiry(now, life)}

\* The successor's expiry: the predecessor's as it was read, or the shorter one
\* the body asks for.  Empty: the request is refused.
SuccessorExpiry(own, now, life) ==
    IF life = 0 THEN {own.expires}
    ELSE {e \in {Expiry(now, life)} : own.expires = 0 \/ e <= own.expires}

\* handleAdminRotateOwnToken down to RotateAdminToken.
Rotate(r, life, grace) ==
    LET expiries == SuccessorExpiry(req[r].own, req[r].now, life)
        old == req[r].caller
    IN  /\ req[r].stage = "rotate"
        /\ \/ /\ Rotatable(tokens, old)
              /\ \E e \in expiries :
                   tokens' = RotateTable(tokens, old, r, req[r].now + grace, e)
              /\ born' = [born EXCEPT ![r] = born[old]]
           \/ /\ ~Rotatable(tokens, old) \/ expiries = {}
              /\ UNCHANGED <<tokens, born>>
        /\ limited' = (limited \/ life # 0)
        /\ req' = [req EXCEPT ![r] = Done]
        /\ UNCHANGED <<clock, mutex>>

-----------------------------------------------------------------------------
(* Revocation.                                                             *)

\* handleAdminRevokeAdminToken reads the target before it takes the mutex.
List(r, t) ==
    /\ req[r].stage = "list"
    /\ \/ /\ tokens[t].present /\ ~tokens[t].revoked
          /\ req' = [req EXCEPT ![r].target = t, ![r].copy = tokens[t],
                                ![r].stage = "lock"]
       \/ /\ ~(tokens[t].present /\ ~tokens[t].revoked)
          /\ req' = [req EXCEPT ![r] = Done]
    /\ UNCHANGED <<clock, tokens, mutex, born, limited>>

Horizon(now) == now + MaxRotationGrace

\* The check that follows the one at stage s, for a guard that read the clock at
\* now: the horizon is not counted for a token due to stop before it.
After(s, copy, now) ==
    IF s = "lock" /\ Usable(copy, now) THEN "countNow"
    ELSE IF copy.expires # 0 /\ copy.expires <= Horizon(now) THEN "revoke"
    ELSE "countHorizon"

\* Mutant of Lock: the mutex is not there.
LockNothing(r) ==
    /\ req[r].stage = "lock"
    /\ mutex' = r
    /\ req' = [req EXCEPT
                 ![r].now = clock,
                 ![r].stage = IF req[r].copy.full
                              THEN After("lock", req[r].copy, clock) ELSE "revoke"]
    /\ UNCHANGED <<clock, tokens, born, limited>>

\* adminRevocation.Lock, then guardLastFullAdministrator reads the clock.
Lock(r) ==
    /\ req[r].stage = "lock"
    /\ mutex = NoReq
    /\ mutex' = r
    /\ req' = [req EXCEPT
                 ![r].now = clock,
                 ![r].stage = IF req[r].copy.full
                              THEN After("lock", req[r].copy, clock) ELSE "revoke"]
    /\ UNCHANGED <<clock, tokens, born, limited>>

\* The deferred Unlock.
Return(r) ==
    /\ req' = [req EXCEPT ![r] = Done]
    /\ mutex' = NoReq

\* Mutant of Refuses: the target itself passes for the one who remains.
RefusesNone(at) == FullTokens(tokens, at) = {}

\* CountAdminTokensByRole at an instant finds the target alone, or nobody.
Refuses(at) == Cardinality(FullTokens(tokens, at)) <= 1

CountNow(r) ==
    /\ req[r].stage = "countNow"
    /\ \/ Refuses(req[r].now) /\ Return(r)
       \/ /\ ~Refuses(req[r].now)
          /\ req' = [req EXCEPT
                       ![r].stage = After("countNow", req[r].copy, req[r].now)]
          /\ UNCHANGED mutex
    /\ UNCHANGED <<clock, tokens, born, limited>>

CountHorizon(r) ==
    /\ req[r].stage = "countHorizon"
    /\ \/ Refuses(Horizon(req[r].now)) /\ Return(r)
       \/ /\ ~Refuses(Horizon(req[r].now))
          /\ req' = [req EXCEPT ![r].stage = "revoke"]
          /\ UNCHANGED mutex
    /\ UNCHANGED <<clock, tokens, born, limited>>

\* RevokeAdminToken; a token another request has revoked meanwhile is not found.
Revoke(r) ==
    /\ req[r].stage = "revoke"
    /\ tokens' = [tokens EXCEPT ![req[r].target].revoked = TRUE]
    /\ Return(r)
    /\ UNCHANGED <<clock, born, limited>>

-----------------------------------------------------------------------------

TickTokens ==
    /\ clock < MaxTime
    /\ \A r \in Reqs : req[r].stage \notin {"idle", "done"} =>
                          clock - req[r].began < Latency
    /\ clock' = clock + 1
    /\ UNCHANGED <<tokens, req, mutex, born, limited>>

Next ==
    \/ \E r \in Reqs :
         \/ \E t \in Token, kind \in Kind : Authenticate(r, t, kind)
         \/ Begin(r)
         \/ \E full \in BOOLEAN, life \in Lifetimes : Mint(r, full, life)
         \/ \E life \in Lifetimes, grace \in 0..MaxRotationGrace :
              Rotate(r, life, grace)
         \/ \E t \in Token : List(r, t)
         \/ Lock(r) \/ CountNow(r) \/ CountHorizon(r) \/ Revoke(r)
    \/ TickTokens

Spec == Init /\ [][Next]_vars

-----------------------------------------------------------------------------
(* Properties.                                                             *)

\* Every variable keeps its type.
TypeOK ==
    /\ clock \in Nat
    /\ tokens \in [Token -> Row]
    /\ req \in [Reqs -> Request]
    /\ mutex \in Reqs \cup {NoReq}
    /\ born \in [Token -> Nat]
    /\ limited \in BOOLEAN

\* As long as no token is given a lifetime, there is always a full administrator that
\* will never stop: not even administrators who revoke each other at the same
\* moment, while others rotate, leave the deployment to tokens in their grace.
NeverUnadministrable ==
    ~limited =>
      \E t \in Token : tokens[t].full /\ tokens[t].present
                        /\ ~tokens[t].revoked /\ tokens[t].expires = 0

\* The step revokes token t for request r.
Revokes(r, t) == /\ req[r].stage = "revoke" /\ req'[r].stage = "done"
                 /\ req[r].target = t /\ ~tokens[t].revoked

\* A revocation of a token that was usable leaves a full administrator usable at
\* the instant the guard looked at, whatever rotates, is minted or is revoked
\* between its count and its write.
RevocationLeavesOne ==
    [][\A r \in Reqs, t \in Token :
         (Revokes(r, t) /\ tokens[t].full /\ Usable(tokens[t], req[r].now))
           => FullTokens(tokens', req[r].now) # {}]_vars

\* A deployment stays administrable, in the long run and at each revocation
\* (guardLastFullAdministrator).
StaysAdministrable == [](TypeOK /\ NeverUnadministrable) /\ RevocationLeavesOne

\* No token of a line outlives the expiry the line was issued with, however often
\* and however concurrently its holder rotates it.
RotationNeverExtends ==
    \A t \in Token : (tokens[t].present /\ born[t] # 0) =>
        tokens[t].expires # 0 /\ tokens[t].expires <= born[t]

\* A revoked token stays revoked and has no successor afterwards: a rotation that
\* authenticated before the revocation brings nothing back.
RevokedHasNoSuccessor ==
    [][\A r \in Reqs :
         (tokens'[r].present /\ ~tokens[r].present /\ req[r].stage = "rotate")
           => ~tokens[req[r].caller].revoked /\ ~tokens'[req[r].caller].revoked]_vars

\* A rotation is no way around a revocation nor around an expiry (RotateAdminToken,
\* handleAdminRotateOwnToken).
RotationIsNoEscape == []RotationNeverExtends /\ RevokedHasNoSuccessor

\* A revocation does not leave the deployment without a full administrator at the
\* far end of the longest rotation grace (guardLastFullAdministrator: "refuses a
\* revocation that would leave the deployment without a full administrator").
GuardCoversHorizon ==
    [][\A r \in Reqs, t \in Token :
         (/\ Revokes(r, t)
          /\ t \in FullTokens(tokens, Horizon(req[r].now)))
           => FullTokens(tokens', Horizon(req[r].now)) # {}]_vars
=============================================================================
