------------------------------ MODULE PgStore -------------------------------
(***************************************************************************)
(* The PostgreSQL store under concurrency: sessions that run the programs  *)
(* of StoreCalls as READ COMMITTED transactions.                           *)
(*                                                                         *)
(* A statement finds the rows its WHERE clause matches in a snapshot of    *)
(* what is committed as it starts, then takes them one by one: a row       *)
(* another transaction has written is waited for, and the clause is put    *)
(* again to the row as that transaction left it.  What a transaction       *)
(* writes is seen by others when it commits, and not at all when it fails. *)
(***************************************************************************)
EXTENDS AtomicStore

VARIABLES
    tx          \* by session: the transaction in progress

pgVars == <<table, rows, asked, tx>>

\* at: the statement being run; scanned: its snapshot has been taken; todo: the rows it
\* matched and has not taken yet; held: what the transaction has locked; wrote: the rows
\* it has written; last, count: the rows of the last statement and of all.
Fresh_tx == [at |-> 1, scanned |-> FALSE, todo |-> {}, held |-> {}, wrote |-> <<>>,
             last |-> 0, count |-> 0]

PgInit ==
    /\ AtomicInit
    /\ tx = [p \in Sessions |-> Fresh_tx]

Program(p) == Menu(table, p)[asked[p].call]

\* What a session sees: the committed rows under its own.
Seen(t, i) == IF i \in DOMAIN t.wrote THEN t.wrote[i] ELSE rows[i]

Open(p) == asked[p].answer = "running"

Executing(p) == Open(p) /\ tx[p].at <= Len(Program(p))

Free(p, locks) == \A q \in Sessions \ {p} : locks \cap tx[q].held = {}

BeginTx(p, k) ==
    /\ Ask(p, k)
    /\ UNCHANGED tx

Finish(p, answer, count, changed) ==
    /\ asked' = Answered(p, answer, count, changed)
    /\ tx' = [tx EXCEPT ![p] = Fresh_tx]

\* The statement has taken its rows, t being the transaction then: the call is refused,
\* goes on to its next statement, or, having written nothing, is answered.
StatementDone(p, t) ==
    LET s == Program(p)[t.at]
        skip == /\ t.at < Len(Program(p))
                /\ Program(p)[t.at + 1].otherwise
                /\ t.last > 0
        next == t.at + (IF skip THEN 2 ELSE 1)
    IN IF t.last = 0 /\ s.needs # "nothing"
       THEN Finish(p, s.needs, 0, {})
       ELSE IF next > Len(Program(p)) /\ DOMAIN t.wrote = {}
       THEN Finish(p, "done", t.count, {})
       ELSE /\ tx' = [tx EXCEPT ![p] = [t EXCEPT !.at = next, !.scanned = FALSE]]
            /\ UNCHANGED asked

Continue(p, t) ==
    IF t.todo = {} THEN StatementDone(p, t)
    ELSE tx' = [tx EXCEPT ![p] = t] /\ UNCHANGED asked

\* The statement takes its snapshot.  One that reads is done; one that goes through an
\* index looks at its row when it takes it.
Scan(p) ==
    /\ Executing(p)
    /\ ~tx[p].scanned
    /\ LET t == tx[p]
           s == Program(p)[t.at]
           matches == {i \in s.on : s.indexed \/ Seen(t, i) \in DOMAIN s.does}
           found == [t EXCEPT !.scanned = TRUE, !.last = 0]
       IN /\ s.on # {}
          /\ Continue(p, IF s.reads THEN [found EXCEPT !.last = Cardinality(matches)]
                                    ELSE [found EXCEPT !.todo = matches])
    /\ UNCHANGED <<table, rows>>

\* pg_advisory_xact_lock: held until the transaction ends.
TakeAdvisoryLock(p) ==
    /\ Executing(p)
    /\ LET t == tx[p]
           s == Program(p)[t.at]
       IN /\ s.on = {}
          /\ Free(p, s.key)
          /\ Continue(p, [t EXCEPT !.held = @ \cup s.key, !.last = 0])
    /\ UNCHANGED <<table, rows>>

\* The statement takes a row it matched, once no other transaction holds it, and puts its
\* clause to the row again; a row it inserts must be beside no row the index excludes.
TakeRow(p, i) ==
    /\ Executing(p)
    /\ i \in tx[p].todo
    /\ LET t == tx[p]
           s == Program(p)[t.at]
           rivals == {j \in s.among : rows[j] \in s.unique}
           clash == \E j \in s.among : Seen(t, j) \in s.unique
           row == Seen(t, i)
           rest == [t EXCEPT !.todo = @ \ {i}]
       IN /\ Free(p, {i} \cup s.key \cup rivals)
          /\ Continue(p,
                IF row \in DOMAIN s.does /\ ~clash
                THEN [rest EXCEPT !.held = @ \cup {i} \cup s.key,
                                  !.wrote = [j \in DOMAIN t.wrote \cup {i} |->
                                                IF j = i THEN s.does[row] ELSE t.wrote[j]],
                                  !.last = @ + 1,
                                  !.count = @ + 1]
                ELSE rest)
    /\ UNCHANGED <<table, rows>>

\* inTx's commit; the connection may go before the caller hears of it.
CommitTx(p) ==
    /\ Open(p)
    /\ tx[p].at > Len(Program(p))
    /\ LET t == tx[p]
           after == [i \in Ids |-> Seen(t, i)]
           changed == {i \in Ids : after[i] # rows[i]}
       IN /\ rows' = after
          /\ \E answer \in {"done", "lost"} :
                Finish(p, answer, IF answer = "lost" THEN 0 ELSE t.count, changed)
    /\ UNCHANGED table

\* inTx's deferred rollback: the connection goes, the request's context ends, or the
\* database picks this transaction to break a deadlock.
Rollback(p) ==
    /\ Open(p)
    /\ Finish(p, "lost", 0, {})
    /\ UNCHANGED <<table, rows>>

PgNext ==
    \E p \in Sessions :
        \/ \E k \in DOMAIN Menu(table, p) : BeginTx(p, k)
        \/ Scan(p)
        \/ TakeAdvisoryLock(p)
        \/ \E i \in Ids : TakeRow(p, i)
        \/ CommitTx(p)
        \/ Rollback(p)

PgSpec == PgInit /\ [][PgNext]_pgVars

(***************************************************************************)
(* Properties                                                              *)
(***************************************************************************)

\* Refinement: PostgreSQL's transactions implement AtomicStore.  Whatever calls overlap
\* and wherever one fails, every call of the store takes effect as a whole at one instant
\* or not at all: the compare-and-swap updates (AdvanceSignCount, ConsumeTOTPStep,
\* ConsumeRecoveryCode, ConsumeChallenge, DecideApproval) lose to the first winner with no
\* transaction around them, RevokeAllCredentials never leaves one factor live, a rotation
\* is never interleaved with a revocation, and of two concurrent replacements of a
\* recovery sheet one sheet is left.
CallsAreAtomic == AtomicSpec
=============================================================================
