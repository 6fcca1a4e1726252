---------------------------- MODULE MCBackground ----------------------------
(***************************************************************************)
(* What runs underneath the requests, each part alone: the shipper of the  *)
(* audit log, the erasures and their sweep, the start and stop of replicas *)
(* and the transactions of the PostgreSQL store.  No two of them share     *)
(* state, so a run follows one of them and leaves the others where they    *)
(* started.                                                                *)
(***************************************************************************)
EXTENDS AuditSink, Erasure, Lifecycle, PgStore

CONSTANTS h1, h2, h3, p1, p2, l1, l2, x1, x2

VARIABLE scene

backgroundVars == <<scene, sinkVars, erasureVars, lifeVars, pgVars>>

\* Two replicas of one binary, an upgrade in progress, and a binary whose first
\* migration was edited after it was applied elsewhere.
MCBuilds ==
    LET one == [v \in 1..1 |-> "m"]
        two == [v \in 1..2 |-> "m"]
        edited == [v \in 1..2 |-> IF v = 1 THEN "e" ELSE "m"]
    IN {[r \in Servers |-> two],
        [r \in Servers |-> IF r = l1 THEN one ELSE two],
        [r \in Servers |-> IF r = l1 THEN two ELSE edited]}

\* The handlers take turns in every order, so which handler is of which kind is
\* fixed: a request, a cancellation and one more, a second request where there is
\* a lease and a lock where there is not, or where erasure is immediate.
Kinds ==
    /\ deferred \/ lockKind = "lease"
    /\ handler[h1].kind = "erase"
    /\ handler[h2].kind = "cancel"
    /\ handler[h3].kind = IF deferred /\ lockKind = "lease" THEN "erase" ELSE "lock"

\* Only this part moves.
SinkMoves == scene = "sink" /\ UNCHANGED <<scene, erasureVars, lifeVars, pgVars>>
SweepMoves == scene = "erasure" /\ UNCHANGED <<scene, sinkVars, lifeVars, pgVars>>
LifeMoves == scene = "life" /\ UNCHANGED <<scene, sinkVars, erasureVars, pgVars>>
PgMoves == scene = "postgres" /\ UNCHANGED <<scene, sinkVars, erasureVars, lifeVars>>

BackgroundInit ==
    /\ scene \in {"sink", "erasure", "life", "postgres"}
    /\ SinkInit
    /\ ErasureInit /\ Kinds
    /\ scene # "erasure" =>
         deferred /\ lockKind = "lease"
    /\ LifeInit
    /\ scene # "life" => ~Agreeing
    /\ PgInit
    /\ scene # "postgres" => table = "recovery"

BackgroundNext ==
    \/ SinkMoves /\ SinkNext
    \/ SweepMoves /\ ErasureNext
    \/ LifeMoves /\ LifeNext
    \/ PgMoves /\ PgNext

\* The fairness of the three modules, each under its own scene.
BackgroundFairness ==
    /\ WF_backgroundVars(SinkMoves /\ Flush) /\ WF_backgroundVars(SinkMoves /\ CatchUp)
    /\ WF_backgroundVars(SinkMoves /\ Level) /\ WF_backgroundVars(SinkMoves /\ Post)
    /\ WF_backgroundVars(SinkMoves /\ SetMark)
    /\ WF_backgroundVars(SinkMoves /\ BackoffOver) /\ WF_backgroundVars(SinkMoves /\ Restart)
    /\ SF_backgroundVars(SinkMoves /\ ~backoff /\ Tick)
    /\ SF_backgroundVars(SinkMoves /\ CatchUp /\ worker'.at # "select" /\ worker'.at # "down")
    /\ SF_backgroundVars(SinkMoves /\ Post /\ worker'.at = "mark")
    /\ SF_backgroundVars(SinkMoves /\ SetMark /\ mark' # mark)
    /\ \A p \in Replicas : WF_backgroundVars(SweepMoves /\ Pass(p))
    /\ WF_backgroundVars(SweepMoves /\ (\E p \in Replicas : Acquire(p)))
    /\ WF_backgroundVars(SweepMoves /\ Expire)
    /\ \A r \in Servers : WF_backgroundVars(LifeMoves /\ RunsOn(r))

BackgroundSpec == BackgroundInit /\ [][BackgroundNext]_backgroundVars /\ BackgroundFairness
=============================================================================
