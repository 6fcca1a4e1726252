----------------------------- MODULE Assertions -----------------------------
(***************************************************************************)
(* The signing key of assertions, its rotation, and the verifier an        *)
(* application runs against the published key set (internal/assertion,     *)
(* assertion-key rotate of the wizard, handleJWKS, and RemoteKeySet and    *)
(* Verifier of sdk/go).                                                    *)
(*                                                                         *)
(* Keys are numbers in the order they are generated; a kid is its key, the *)
(* RFC 7638 thumbprint being injective, and 0 is a kid no key has.         *)
(* Signatures are sound: an assertion of a kid other than 0 was issued.    *)
(* Server and verifier read one clock; Skew is what both tolerate.         *)
(***************************************************************************)
EXTENDS Integers

CONSTANTS
    Checks,          \* goroutines of the application that verify
    AssertionTTL,    \* assertion.ttl
    AssertionSkew,   \* assertion.allowed_clock_skew, and the verifier's
    CacheTTL,        \* WithJWKSCacheTTL
    MinGap,          \* WithJWKSRefetchInterval
    FetchTimeout,    \* the HTTP client's timeout
    MaxKeys,         \* bound: keys ever generated
    MaxKeyTime       \* bound: the clock

ASSUME AssertionsAssumption ==
    /\ {AssertionTTL, CacheTTL, MinGap, MaxKeys, MaxKeyTime} \subseteq Nat \ {0}
    /\ {AssertionSkew, FetchTimeout} \subseteq Nat
    /\ FetchTimeout < CacheTTL

VARIABLES
    keyTime,     \* the clock
    keyFile,     \* the key in signing_key_path
    kept,        \* the .pub.pem files written beside it
    leaked,      \* keys whose private half is no longer the server's alone
    issuer,      \* the running server: the key it signs with, those it publishes
    cache,       \* RemoteKeySet.keys and fetchedAt
    notBefore,   \* RemoteKeySet.notBefore
    check,       \* the verifications
    published,   \* history: when each key appeared at the endpoint
    withdrawn,   \* history: when it left it
    stopped,     \* history: when it stopped signing
    fetched      \* history: the last fetch of each kind, and the kinds that came too soon

assertionVars == <<keyTime, keyFile, kept, leaked, issuer, cache, notBefore,
                   check, published, withdrawn, stopped, fetched>>

Kids == 0..MaxKeys
Never == -1
NoCache == [keys |-> {}, at |-> Never]
Idle == [stage |-> "idle"]

AssertionsInit ==
    /\ keyTime = 0
    /\ keyFile = 1 /\ kept = {} /\ leaked = {}
    /\ issuer = [signs |-> 1, publishes |-> {1}]
    /\ cache = NoCache /\ notBefore = 0
    /\ check = [c \in Checks |-> Idle]
    /\ published = [k \in Kids |-> IF k = 1 THEN 0 ELSE Never]
    /\ withdrawn = [k \in Kids |-> Never]
    /\ stopped = [k \in Kids |-> Never]
    /\ fetched = [lapsed |-> Never, provoked |-> Never, early |-> {}]

ServerSide == <<keyFile, kept, leaked, issuer, published, withdrawn, stopped>>
VerifierSide == <<cache, notBefore, check, fetched>>

-----------------------------------------------------------------------------
(* The server and its operator.                                            *)

\* The JWK Set: the signing key and every retired one.
\* Mutant of JWKS: the document holds the live key alone.
JWKSSigningOnly(signing, retired) == {signing}

JWKS(signing, retired) == {signing} \cup retired

\* assertion-key rotate, up to the outgoing public key's file: nothing is lost if it
\* stops here, and a later run writes the same key under another name.
KeepOutgoing ==
    /\ keyFile < MaxKeys
    /\ keyFile \notin kept
    /\ kept' = kept \cup {keyFile}
    /\ UNCHANGED <<keyTime, keyFile, leaked, issuer, published, withdrawn, stopped>>
    /\ UNCHANGED VerifierSide

\* The rest of it: the file at signing_key_path is replaced.  The running server has
\* the outgoing key in memory and signs with it until it is restarted.
ReplaceKey ==
    /\ keyFile < MaxKeys
    /\ keyFile \in kept
    /\ keyFile' = keyFile + 1
    /\ UNCHANGED <<keyTime, kept, leaked, issuer, published, withdrawn, stopped>>
    /\ UNCHANGED VerifierSide

\* How long the documentation has a retired key stay listed.
Changeover == AssertionTTL + AssertionSkew + CacheTTL

\* What retired_public_key_paths may hold, by the line rotate prints and the guide: the
\* outgoing keys, each until its changeover is over, and a leaked one not at all.
Listings ==
    LET due == {k \in issuer.publishes \ {keyFile} :
                   stopped[k] = Never \/ keyTime <= stopped[k] + Changeover}
    IN  {set \in SUBSET (kept \cap issuer.publishes) :
            due \ leaked \subseteq set /\ set \cap leaked = {}}

\* A start of the server: LoadPrivateKeyPEM, loadRetiredKeys and NewIssuer, which
\* refuses a retired key that is the signing key.
RestartIssuer ==
    \E retired \in Listings :
        LET document == JWKS(keyFile, retired)
        IN  /\ keyFile \notin retired
            /\ document # issuer.publishes
            /\ issuer' = [signs |-> keyFile, publishes |-> document]
            /\ published' = [k \in Kids |-> IF k \in document /\ published[k] = Never
                                            THEN keyTime ELSE published[k]]
            /\ withdrawn' = [k \in Kids |-> IF k \in issuer.publishes \ document
                                            THEN keyTime ELSE withdrawn[k]]
            /\ stopped' = IF keyFile = issuer.signs THEN stopped
                          ELSE [stopped EXCEPT ![issuer.signs] = keyTime]
            /\ UNCHANGED <<keyTime, keyFile, kept, leaked>>
            /\ UNCHANGED VerifierSide

\* The key the server signs with is compromised.
Leak ==
    /\ leaked = {}
    /\ leaked' = {issuer.signs}
    /\ UNCHANGED <<keyTime, keyFile, kept, issuer, published, withdrawn, stopped>>
    /\ UNCHANGED VerifierSide

\* The assertions Issue can have signed and that have not expired, whichever of them the
\* callers asked for; whoever holds a leaked key signs others.
Issued ==
    {t \in [kid : Kids \ {0}, exp : keyTime..(keyTime + AssertionTTL)] :
        LET signedAt == t.exp - AssertionTTL
        IN  \/ t.kid \in leaked
            \/ /\ published[t.kid] # Never /\ signedAt >= published[t.kid]
               /\ stopped[t.kid] # Never => signedAt <= stopped[t.kid]}

-----------------------------------------------------------------------------
(* RemoteKeySet.                                                           *)

Fresh == cache.at # Never /\ keyTime - cache.at < CacheTTL

\* The claims are read once the signature is good: exp with its tolerance.
Current(token) == keyTime <= token.exp + AssertionSkew

\* A token signed with its key; the others carry a kid of the caller's choice.
Genuine(token) == token.kid # 0

\* Verify's last steps, given the key: only an issued token has a good signature.
Verdict(token) == IF Genuine(token) /\ Current(token) THEN "accepted" ELSE "refused"

Reply(c, answer) ==
    check' = [check EXCEPT ![c] = [stage |-> "replied", token |-> check[c].token,
                                   answer |-> answer, at |-> keyTime]]

\* Verify parses the header, and Key finds the kid in a fresh cache or goes for the lock.
Present(c, token) ==
    LET hit == Fresh /\ token.kid \in cache.keys
    IN  /\ check[c].stage \in {"idle", "replied"}
        /\ check' = [check EXCEPT ![c] =
              IF hit THEN [stage |-> "replied", token |-> token, answer |-> Verdict(token),
                           at |-> keyTime]
              ELSE [stage |-> "waiting", token |-> token]]
        /\ UNCHANGED <<keyTime, cache, notBefore, fetched>> /\ UNCHANGED ServerSide

Holder(c) == check[c].stage \in {"fetching", "answered"}

\* Key under fetchMu, up to the request it sends.
\* Mutant of Lookup: the cache is not read again once the lock is held.
LookupOnce(c) ==
    /\ check[c].stage = "waiting" /\ \A d \in Checks : ~Holder(d)
    /\ IF keyTime < notBefore THEN Reply(c, IF Fresh THEN "unknown" ELSE "unavailable")
       ELSE check' = [check EXCEPT ![c] =
              [stage |-> "fetching", token |-> check[c].token, now |-> keyTime,
               fresh |-> FALSE]]
    /\ UNCHANGED <<keyTime, cache, notBefore, fetched>> /\ UNCHANGED ServerSide

Lookup(c) ==
    /\ check[c].stage = "waiting" /\ \A d \in Checks : ~Holder(d)
    /\ IF Fresh /\ check[c].token.kid \in cache.keys
       THEN Reply(c, Verdict(check[c].token))
       ELSE IF keyTime < notBefore THEN Reply(c, IF Fresh THEN "unknown" ELSE "unavailable")
       ELSE check' = [check EXCEPT ![c] =
              [stage |-> "fetching", token |-> check[c].token, now |-> keyTime,
               fresh |-> Fresh]]
    /\ UNCHANGED <<keyTime, cache, notBefore, fetched>> /\ UNCHANGED ServerSide

\* handleJWKS answers; the document is on its way back.
ServeJWKS(c) ==
    /\ check[c].stage = "fetching"
    /\ check' = [check EXCEPT ![c] =
          [stage |-> "answered", token |-> check[c].token, now |-> check[c].now,
           fresh |-> check[c].fresh, keys |-> issuer.publishes]]
    /\ UNCHANGED <<keyTime, cache, notBefore, fetched>> /\ UNCHANGED ServerSide

\* The fetches so far, for the property about their spacing.
Noted(kind, at) ==
    LET gap == IF kind = "lapsed" THEN CacheTTL ELSE MinGap
    IN  [fetched EXCEPT ![kind] = at,
            !.early = IF fetched[kind] # Never /\ at < fetched[kind] + gap
                      THEN @ \cup {kind} ELSE @]

\* The document arrives and replaces the cache, dated from before it was asked for.
\* Mutant of Install: dated from when it arrived.
InstallDatedLate(c) ==
    LET p == check[c]
    IN  /\ p.stage = "answered"
        /\ notBefore' = IF p.fresh THEN p.now + MinGap ELSE notBefore
        /\ cache' = [keys |-> p.keys, at |-> keyTime]
        /\ Reply(c, IF p.token.kid \in p.keys THEN Verdict(p.token) ELSE "unknown")
        /\ fetched' = Noted(IF p.fresh THEN "provoked" ELSE "lapsed", p.now)
        /\ UNCHANGED keyTime /\ UNCHANGED ServerSide

Install(c) ==
    LET p == check[c]
    IN  /\ p.stage = "answered"
        /\ notBefore' = IF p.fresh THEN p.now + MinGap ELSE notBefore
        /\ cache' = [keys |-> p.keys, at |-> p.now]
        /\ Reply(c, IF p.token.kid \in p.keys THEN Verdict(p.token) ELSE "unknown")
        /\ fetched' = Noted(IF p.fresh THEN "provoked" ELSE "lapsed", p.now)
        /\ UNCHANGED keyTime /\ UNCHANGED ServerSide

\* The fetch fails: refused, timed out, or unusable.  A fetch given up because the
\* caller's own context ended holds nobody back.
FetchFails(c) ==
    LET p == check[c]
    IN  /\ Holder(c)
        /\ Reply(c, "unavailable")
        /\ \/ notBefore' = p.now + MinGap
           \/ notBefore' = notBefore
        /\ UNCHANGED <<keyTime, cache, fetched>> /\ UNCHANGED ServerSide

\* Time passes; a request outlives its timeout by nothing.  A reply is
\* looked at before the next tick.
KeyTick ==
    /\ keyTime < MaxKeyTime
    /\ \A c \in Checks : Holder(c) => keyTime < check[c].now + FetchTimeout
    /\ keyTime' = keyTime + 1
    /\ check' = [c \in Checks |-> IF check[c].stage = "replied" THEN Idle ELSE check[c]]
    /\ UNCHANGED <<keyFile, kept, leaked, issuer, published, withdrawn, stopped>>
    /\ UNCHANGED <<cache, notBefore, fetched>>

AssertionsNext ==
    \/ KeepOutgoing \/ ReplaceKey \/ RestartIssuer \/ Leak \/ KeyTick
    \/ \E c \in Checks :
          \/ \E token \in Issued \cup {[kid |-> 0, exp |-> 0]} : Present(c, token)
          \/ Lookup(c) \/ ServeJWKS(c) \/ Install(c) \/ FetchFails(c)

AssertionsSpec == AssertionsInit /\ [][AssertionsNext]_assertionVars

-----------------------------------------------------------------------------
(* Properties.                                                             *)

Replied(answer) == {c \in Checks : check[c].stage = "replied" /\ check[c].answer = answer}

\* The fetch that holds the next one back is not the one that filled the cache.
HeldByFailure == notBefore # cache.at + MinGap

\* A rotation refuses nobody: an assertion inside its lifetime is called unknown, which
\* Verify reports as a bad assertion and not as an outage, only while the refetch interval
\* holds a fetch back, and then only if its key has been published for less than that
\* interval or the fetch that set it brought nothing (Key, under fetchMu).
RotationRefusesNobody ==
    \A c \in Replied("unknown") :
        LET token == check[c].token
        IN  Genuine(token) /\ token.kid \notin leaked /\ Current(token) =>
                /\ check[c].at < notBefore
                /\ check[c].at < published[token.kid] + MinGap \/ HeldByFailure

\* "A key withdrawn after a compromise must stop verifying once the cache lifetime has
\* passed, even if the endpoint is unreachable at that moment" (sdk/go/keys.go): nothing
\* is accepted under a key that left the document CacheTTL ago.
WithdrawnStopsVerifying ==
    \A c \in Replied("accepted") :
        LET w == withdrawn[check[c].token.kid]
        IN  w # Never => check[c].at < w + CacheTTL

\* However many goroutines find the cache lapsed or a kid missing together, a lapsed
\* cache is replaced once in its lifetime, and fetches an unknown kid provokes are
\* MinGap apart.
FetchesSpaced ==
    fetched.early = {}

\* The verifier's cache turns over in time and no faster (RemoteKeySet.Key, fetch).
CacheKeepsItsTimes == WithdrawnStopsVerifying /\ FetchesSpaced
=============================================================================
