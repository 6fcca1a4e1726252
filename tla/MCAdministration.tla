-------------------------- MODULE MCAdministration -------------------------
(***************************************************************************)
(* What the administrators of a tenant share, the table of their tokens:   *)
(* minting, rotating and revoking them, and the approvals they give each   *)
(* other, each part alone.                                                 *)
(***************************************************************************)
EXTENDS AdminTokens, Approval, TLC

CONSTANTS a1, a2, r1, r2, r3, r4

VARIABLE scene

\* The administrators differ in nothing but their identity, and neither do the
\* requests, save for one of them.
Symmetry == Permutations(Admins) \cup Permutations(Reqs \ {r4})

\* Three requests run about tokens, and four about approvals.
ThreeAboutTokens == req'[r4].stage = "idle"

\* Requests are served once and their names are arbitrary: of those that queue an
\* operation, the first to begin is this one.  Where none does, three requests run.
FirstToQueue ==
    /\ ask'[r4].stage \in {"idle", "queue", "done"}
    /\ ask'[r4].stage = "idle" => \A r \in Reqs : ask'[r].stage # "queue"

AdministrationInit ==
    /\ scene \in {"tokens", "approval"}
    /\ Init
    /\ ApprovalInit

AdministrationNext ==
    \/ /\ scene = "tokens" /\ Next /\ ThreeAboutTokens
       /\ UNCHANGED <<scene, approvals, ask, person, runs>>
    \/ /\ scene = "approval" /\ ApprovalNext /\ FirstToQueue
       /\ UNCHANGED <<scene, req, mutex, born, limited>>

AdministrationSpec ==
    AdministrationInit /\ [][AdministrationNext]_<<scene, vars, approvalVars>>
=============================================================================
