----------------------------- MODULE MCThrottle -----------------------------
(* Instances of Throttle for TLC.                                          *)
EXTENDS Throttle, TLC

CONSTANTS r1, r2, r3

\* The requests differ in nothing but their identity.
ReqSymmetry == Permutations(Reqs)

PlainGuess(r) == req[r].factor = "totp" /\ req[r].network = NoNetwork

\* Bound on the load: three guesses at one code, with a fault or an unlock, or two
\* requests of any factor with or without a declared network, with both.
Load == \/ faults + unlocks <= 1 /\ \A r \in Reqs : PlainGuess(r)
        \/ \E r \in Reqs : PlainGuess(r) /\ req[r].stage = "idle"
=============================================================================
