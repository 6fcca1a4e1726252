-------------------------------- MODULE Rbac --------------------------------
(***************************************************************************)
(* What an administrative role may do (internal/rbac): the one mapping the *)
(* API's middleware and the console consult.                               *)
(***************************************************************************)

ReadPermissions ==
    {"subject.list", "subject.read", "credential.list", "audit.read", "audit.verify",
     "alert.read", "approval.read", "health.read_detailed", "api_key.list",
     "admin_token.list"}

\* The writes every role may perform: they touch the caller's own token only.
SelfServicePermissions == {"admin_token.rotate_self"}

OperatorExtras ==
    {"subject.lock", "subject.unlock", "credential.revoke", "recovery.reissue",
     "throttle.reset", "alert.acknowledge", "enrolment_ticket.issue"}

AllPermissions ==
    ReadPermissions \cup SelfServicePermissions \cup OperatorExtras \cup
    {"credential.revoke_bulk", "approval.decide", "erasure.request", "erasure.cancel",
     "api_key.create", "api_key.revoke", "api_key.rotate", "admin_token.create",
     "admin_token.revoke", "kek.rotate"}

Roles == {"auditor", "operator", "full"}

\* Mutant of RolePermissions: the operator's writes are added to the set the
\* auditor's shares.
RolePermissionsAliased ==
    [auditor  |-> ReadPermissions \cup SelfServicePermissions \cup OperatorExtras,
     operator |-> ReadPermissions \cup SelfServicePermissions \cup OperatorExtras,
     full     |-> AllPermissions]

\* init.
RolePermissions ==
    [auditor  |-> ReadPermissions \cup SelfServicePermissions,
     operator |-> ReadPermissions \cup SelfServicePermissions \cup OperatorExtras,
     full     |-> AllPermissions]

\* Allowed: a role this build does not know holds nothing.
Allowed(role, p) == role \in Roles /\ p \in RolePermissions[role]

\* Authorise: without admin_rbac every known role has full authority.
Authorise(role, p, rbacEnabled) ==
    role \in Roles /\ p \in AllPermissions /\ (~rbacEnabled \/ Allowed(role, p))
=============================================================================
