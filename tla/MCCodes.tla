------------------------------ MODULE MCCodes ------------------------------
(***************************************************************************)
(* The codes a subject types in, each kind alone: those of an              *)
(* authenticator application and those of a recovery sheet.                *)
(***************************************************************************)
EXTENDS Totp, Recovery, TLC

CONSTANTS q1, q2, q3, q4, r1, r2, r3, r4

VARIABLE scene

codeVars == <<scene, totpVars, vars>>

\* The requests about TOTP may change names.  Fairness and the property that needs it
\* speak only of the others, so TLC's warning about symmetry and liveness does not
\* apply.
TotpSymmetry == Permutations(TotpReqs)

\* Only this kind moves.
TotpMoves == scene = "totp" /\ UNCHANGED <<scene, vars>>
RecoveryMoves == scene = "recovery" /\ UNCHANGED <<scene, totpVars>>

\* What the requests for recovery codes are about matters where they run.
CodesInit ==
    /\ scene \in {"totp", "recovery"}
    /\ TotpInit
    /\ Init
    /\ scene = "totp" =>
         \A r \in Reqs : req[r].kind = "issue" /\ req[r].subject = "alice"

CodesNext ==
    \/ TotpMoves /\ TotpNext
    \/ RecoveryMoves /\ Next

CodesSpec ==
    /\ CodesInit /\ [][CodesNext]_codeVars
    /\ \A r \in Reqs : WF_codeVars(RecoveryMoves /\ req[r].stage # "idle" /\ Step(r))
=============================================================================
