--------------------------- MODULE ThrottleStore ---------------------------
(***************************************************************************)
(* One row of the throttle_buckets table, and what each statement of the   *)
(* store does to it.  Every operator is one statement of                   *)
(* internal/store/sqlite/throttle.go and is atomic; the PostgreSQL store   *)
(* runs the same statements.  Time is a natural number, 0 standing for a   *)
(* NULL blocked_until.  The attempts column is left out: it is judged only *)
(* for the volume dimensions, which are not modelled here.                 *)
(***************************************************************************)
EXTENDS Integers

CONSTANT Window  \* throttle.window, in ticks

\* config.go refuses a window that is not positive.
ASSUME WindowAssumption == Window \in Nat \ {0}

Row == [present : BOOLEAN, windowStart : Nat, failures : Nat,
        blockedUntil : Nat, updatedAt : Nat, owned : BOOLEAN]

\* A bucket that has no row.
NoRow == [present |-> FALSE, windowStart |-> 0, failures |-> 0,
          blockedUntil |-> 0, updatedAt |-> 0, owned |-> FALSE]

\* ThrottleState.Blocked.
Blocked(row, now) == now < row.blockedUntil

\* Mutant of Rolls: a window that is over still counts.
RollsLate(row, now) == ~row.present \/ row.windowStart < now - Window

\* The attempt opens a counting window: there is no row, or its window is over.
Rolls(row, now) == ~row.present \/ row.windowStart <= now - Window

\* Mutant of HitRow: the window is opened a whole window in the past.
HitRowBackdated(row, now, failure, owner) ==
    [present      |-> TRUE,
     windowStart  |-> IF Rolls(row, now) THEN now - Window ELSE row.windowStart,
     failures     |-> row.failures + (IF failure THEN 1 ELSE 0),
     blockedUntil |-> row.blockedUntil,
     updatedAt    |-> now,
     owned        |-> row.owned \/ owner]

\* The INSERT ... ON CONFLICT of Hit.  blocked_until is not mentioned in it and
\* survives the roll; the owning subject is filled in once and then kept.
HitRow(row, now, failure, owner) ==
    LET inc == IF failure THEN 1 ELSE 0
    IN  [present      |-> TRUE,
         windowStart  |-> IF Rolls(row, now) THEN now ELSE row.windowStart,
         failures     |-> IF Rolls(row, now) THEN inc ELSE row.failures + inc,
         blockedUntil |-> row.blockedUntil,
         updatedAt    |-> now,
         owned        |-> row.owned \/ owner]

\* The upsert of Block.  It stamps the row with the wall clock, not with the
\* caller's reading, and creates an ownerless row where there is none.
BlockRow(row, until, clock) ==
    IF row.present
    THEN [row EXCEPT !.blockedUntil = until, !.updatedAt = clock]
    ELSE [present |-> TRUE, windowStart |-> clock, failures |-> 0,
          blockedUntil |-> until, updatedAt |-> clock, owned |-> FALSE]

\* Mutant of Stale: the sweep looks at the last attempt only.
StaleByAge(row, before) == row.present /\ row.updatedAt < before

\* The predicate of DeleteStaleThrottles.
Stale(row, before) ==
    row.present /\ row.updatedAt < before /\ row.blockedUntil < before
=============================================================================
