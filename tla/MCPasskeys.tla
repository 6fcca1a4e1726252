----------------------------- MODULE MCPasskeys -----------------------------
(* Instances of Passkeys for TLC, and the loads they are checked under.  A *)
(* load is recognised by who owns the two credentials at the start.        *)
EXTENDS Passkeys, TLC

CONSTANTS alice, bob, k1, k2

ProcSymmetry == Permutations(Reqs) \cup Permutations(Challenges)

Owners(a, b) == rows[k1].subject = a /\ rows[k2].subject = b

\* Nothing but the requests moves.
Quiet == clock = 1 /\ acts = 0

\* Requests under way take these routes.
OnRoutes(routes) == \A r \in Reqs : req[r].route \in routes \cup {Nobody}

Begun(ceremonies, subjects) ==
    \A c \in Challenges : chal[c].issued =>
        chal[c].ceremony \in ceremonies /\ chal[c].subject \in subjects

CountsUpTo(n) == /\ \A r \in Reqs : req[r].count <= n
                 /\ \A i \in RowIds : rows[i].count <= n

Asserting == {"named", "discoverable"}

AtMostTwoChallenges == Cardinality({c \in Challenges : chal[c].issued}) <= 2

AtMost(n) == Cardinality({r \in Reqs : req[r].stage # "idle"}) <= n

\* Assertions of two subjects with a key each, over two challenges: two at once and a
\* tick or an intervention, or one and two ticks, the second of which lets the janitor
\* sweep its challenge.
AssertLoad ==
    /\ Owners(alice, bob) /\ ~refuse /\ CountsUpTo(1)
    /\ OnRoutes(Asserting) /\ Begun({"assertion"}, Subjects \cup {Nobody})
    /\ AtMostTwoChallenges
    /\ (AtMost(2) /\ acts + clock <= 2) \/ (AtMost(1) /\ acts + clock <= 3)

\* Three assertions with one key and any counters.
CloneLoad ==
    /\ Owners(alice, Nobody) /\ Quiet
    /\ OnRoutes(Asserting) /\ Begun({"assertion"}, {alice, Nobody})

\* Three enrolments and revocations of two subjects that hold nothing yet, over two
\* challenges.
EnrolLoad ==
    /\ Owners(Nobody, Nobody) /\ ~refuse /\ CountsUpTo(0) /\ clock <= 2
    /\ OnRoutes({"register", "revoke"}) /\ Begun({"registration"}, Subjects)
    /\ AtMostTwoChallenges

Load == AssertLoad \/ CloneLoad \/ EnrolLoad

\* Revocations of the two keys of one subject.
RevokeLoad == Owners(alice, alice) /\ Quiet /\ ~refuse /\ OnRoutes({"revoke"})
=============================================================================
