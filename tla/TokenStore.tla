----------------------------- MODULE TokenStore -----------------------------
(***************************************************************************)
(* The admin_tokens table and what each statement of the store does to its *)
(* rows (internal/store/sqlite/authn.go and rotate.go; the PostgreSQL      *)
(* store runs the same statements), with the clock the requests read.  A   *)
(* token is a model value, time a natural number, and an expiry of 0       *)
(* stands for NULL: a token without one never expires.                     *)
(***************************************************************************)
EXTENDS Integers, FiniteSets

CONSTANTS
    Token,
    Reqs,     \* the requests; a token they create is named by its request
    Latency,  \* longest life of a request, in ticks
    MaxTime   \* bound: last instant

VARIABLES
    clock,
    tokens    \* the admin_tokens table

NoPrincipal == "none"

Row == [present : BOOLEAN, full : BOOLEAN, principal : Token \cup {NoPrincipal},
        expires : Nat, revoked : BOOLEAN]

\* A row of CreateAdminToken.  A token that was issued is its own principal.
Issued(t, full, expires) ==
    [present |-> TRUE, full |-> full, principal |-> t, expires |-> expires,
     revoked |-> FALSE]

NoRow == [Issued(NoPrincipal, FALSE, 0) EXCEPT !.present = FALSE]

\* AdminToken.Usable, and the condition of CountAdminTokensByRole.
Usable(row, now) ==
    row.present /\ ~row.revoked /\ (row.expires = 0 \/ now < row.expires)

FullTokens(table, now) == {t \in Token : table[t].full /\ Usable(table[t], now)}

\* RotateAdminToken on a predecessor that is not revoked: its expiry may only
\* move earlier, and the successor carries its principal.
RotateTable(table, old, new, cutoff, expires) ==
    [table EXCEPT ![old].expires = IF @ = 0 \/ @ > cutoff THEN cutoff ELSE @,
                  ![new] = [Issued(new, table[old].full, expires) EXCEPT
                              !.principal = table[old].principal]]

\* Mutant of Rotatable: a revoked predecessor is rotated too.
RotatableRevoked(table, old) == table[old].present

\* rotateAuthnRow inserts nothing for a predecessor that is missing or revoked.
Rotatable(table, old) == table[old].present /\ ~table[old].revoked
=============================================================================
