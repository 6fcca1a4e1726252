----------------------------- MODULE AuditChain -----------------------------
(***************************************************************************)
(* The hash-chained audit log: appending, erasing a subject's personal     *)
(* fields, trimming to retention through a checkpoint, verifying and       *)
(* paging (internal/audit, store/sqlite/audit.go, store/postgres/audit.go, *)
(* the two audit handlers of internal/api/admin.go).                       *)
(*                                                                         *)
(* The engine is chosen once.  On SQLite a transaction holds the only      *)
(* write connection, so it is one step.  On PostgreSQL it runs at READ     *)
(* COMMITTED and is several: the statements before the append lock, each   *)
(* of which reads what is committed by then, the lock, the draw of a       *)
(* sequence number and the read of the head, the commit.  A verification   *)
(* is several reads on either engine.                                      *)
(*                                                                         *)
(* SHA-256 is ideal: a hash is the tuple of what it covers.                *)
(***************************************************************************)
EXTENDS Integers, FiniteSets, FiniteSetsExt

CONSTANTS
    Callers,     \* goroutines that write to the log
    LogSubjects, \* subjects an entry may name
    MaxSeq,      \* bound: sequence numbers drawn
    MaxTime,     \* bound: readings of the process clock, in any order
    PageSize     \* rows per page of a walk or of a query

NoSubject == "no subject"

NoDetail == <<>>

Unheld == "nobody"

ASSUME ChainAssumption ==
    /\ MaxSeq \in Nat /\ MaxTime \in Nat /\ PageSize \in Nat \ {0}
    /\ Unheld \notin Callers
    /\ NoSubject \notin LogSubjects

VARIABLES
    engine,       \* "sqlite" or "postgres"
    log,          \* audit_log
    checkpoints,  \* audit_checkpoints
    drawn,        \* the last value handed out by the sequence of PostgreSQL
    appendLock,   \* the caller holding the advisory lock on the chain
    caller,       \* the writing transactions
    walk,         \* one verification
    pager,        \* one reader following next_seq
    trimmed       \* history: the entries trimmed, each with its cut, and whether
                  \* it was committed after its retention pass first read the log

chainVars == <<engine, log, checkpoints, drawn, appendLock, caller, walk,
               pager, trimmed>>

-----------------------------------------------------------------------------
(* Entries and hashes (chain.go, checkpoint.go).                           *)

Genesis == <<"genesis">>

PIIDigest(salt, subject, detail) == <<salt, subject, detail>>

ComputeHash(e, prev) == <<prev, e.seq, e.at, e.kind, e.digest>>

\* The salt is fresh, and named by the entry it is drawn for.
Prepare(seq, prev, at, kind, subject, detail) ==
    LET e == [seq |-> seq, at |-> at, kind |-> kind, subject |-> subject,
              detail |-> detail, salt |-> seq, prev |-> prev,
              digest |-> PIIDigest(seq, subject, detail), hash |-> Genesis]
    IN  [e EXCEPT !.hash = ComputeHash(e, prev)]

Erase(e) == [e EXCEPT !.subject = NoSubject, !.detail = NoDetail, !.salt = 0]

PersonalFieldsVerify(e) ==
    IF e.salt = 0 THEN e.subject = NoSubject /\ e.detail = NoDetail
    ELSE e.digest = PIIDigest(e.salt, e.subject, e.detail)

VerifyEntry(e, prev) ==
    e.prev = prev /\ PersonalFieldsVerify(e) /\ e.hash = ComputeHash(e, prev)

Top(rows) == CHOOSE e \in rows : \A f \in rows : f.seq <= e.seq

Below(rows, seq) == {e \in rows : e.seq < seq}

\* The first entry that does not verify, or 0.  Every entry before it verified,
\* so what it must chain onto is the stored hash of the row before it.
VerifySequence(rows, prev) ==
    LET expected(e) == IF Below(rows, e.seq) = {} THEN prev
                       ELSE Top(Below(rows, e.seq)).hash
        broken == {e.seq : e \in {f \in rows : ~VerifyEntry(f, expected(f))}}
    IN  IF broken = {} THEN 0 ELSE Min(broken)

PruneMarkerDetail(row) == <<"retention_prune", row.seq, row.hash>>

MarkerAttestsCheckpoint(detail, cp) ==
    detail = <<"retention_prune", cp.seq, cp.hash>>

NoCheckpoint == [seq |-> 0, hash |-> Genesis, marker |-> 0]

NewestCheckpoint ==
    IF checkpoints = {} THEN NoCheckpoint
    ELSE CHOOSE c \in checkpoints : \A d \in checkpoints : d.seq <= c.seq

\* chainHeadTx: the newest row, else what the newest checkpoint says, else genesis.
HeadSeq == IF log = {} THEN NewestCheckpoint.seq ELSE Top(log).seq

HeadHash == IF log = {} THEN NewestCheckpoint.hash ELSE Top(log).hash

-----------------------------------------------------------------------------
\* A transaction that has read nothing yet.  A retention pass removes nothing above
\* bound; head, a history, is the last entry of the log it first read.
Pending(job, at, subject) ==
    [stage |-> "idle", job |-> job, at |-> at, subject |-> subject,
     seq |-> 0, prev |-> Genesis, rows |-> {}, bound |-> 0, head |-> 0]

IdleCaller == Pending("append", 1, NoSubject)

IdleWalk ==
    [stage |-> "idle", from |-> 1, cp |-> NoCheckpoint, prev |-> Genesis,
     cursor |-> 0, broken |-> 0, trimmedMeanwhile |-> FALSE, anchored |-> TRUE]

ChainInit ==
    /\ engine \in {"sqlite", "postgres"}
    /\ log = {}
    /\ checkpoints = {}
    /\ drawn = 0
    /\ appendLock = Unheld
    /\ caller = [c \in Callers |-> IdleCaller]
    /\ walk = IdleWalk
    /\ pager = [cursor |-> 0, seen |-> {}]
    /\ trimmed = {}

\* What enters the store: Record with an event, the janitor's erasure pass for a
\* subject, or its retention pass with its cut.
Jobs ==
    {Pending("append", at, s) : at \in 1..MaxTime, s \in LogSubjects \cup {NoSubject}}
    \cup {Pending("erase", MaxTime, s) : s \in LogSubjects}
    \cup {Pending("prune", cut, NoSubject) : cut \in 2..MaxTime}

\* The rows an erasure clears.
Naming(s) == {e \in log : e.subject = s /\ e.salt # 0}

\* Mutant of PruneBound: cut at the newest entry that is old enough.
PruneBoundByTime(cut) ==
    LET old == {e \in log : e.at < cut}
    IN  IF old = {} THEN 0 ELSE Top(old).seq

\* keepFrom: the oldest entry still to be kept, past every number when none is.
KeepFrom(cut) ==
    LET kept == {e.seq : e \in {f \in log : f.at >= cut}}
    IN  IF kept = {} THEN MaxSeq + 1 ELSE Min(kept)

\* lastSeq: the last entry before a number; 0 when there is none.
LastBefore(seq) == IF Below(log, seq) = {} THEN 0 ELSE Top(Below(log, seq)).seq

\* The entry before the oldest one still to be kept; 0 when nothing is old enough.
PruneBound(cut) == LastBefore(KeepFrom(cut))

\* What the transaction appends: the entry, the tombstone, or the retention
\* marker, whose time is a reading of its own that no cut depends on.
Appended(job, seq, prev, bound) ==
    CASE job.job = "append" ->
           Prepare(seq, prev, job.at, "event", job.subject, NoDetail)
      [] job.job = "erase" ->
           Prepare(seq, prev, job.at, "tombstone", NoSubject, <<"erased">>)
      [] job.job = "prune" ->
           Prepare(seq, prev, MaxTime, "marker", NoSubject,
                   PruneMarkerDetail(CHOOSE e \in log : e.seq = bound))

\* Mutant of Erased: the personal fields go, their salt stays.
ErasedFieldsOnly(rows) ==
    {IF e.seq \in rows THEN [e EXCEPT !.subject = NoSubject, !.detail = NoDetail]
     ELSE e : e \in log}

\* The update of audit_log that the update guard permits.
Erased(rows) == {IF e.seq \in rows THEN Erase(e) ELSE e : e \in log}

NoteTrim(pruning) ==
    walk' = [walk EXCEPT !.trimmedMeanwhile = @ \/ (pruning /\ walk.stage # "idle")]

\* The effect of a transaction, once committed: the append, and with it the
\* erasure or the checkpoint and the deletion of the prefix.
Commit(job, new) ==
    /\ CASE job.job = "append" -> log' = log \cup {new} /\ UNCHANGED <<checkpoints, trimmed>>
         [] job.job = "erase" -> log' = Erased(job.rows) \cup {new}
                                 /\ UNCHANGED <<checkpoints, trimmed>>
         [] job.job = "prune" ->
              /\ log' = {e \in log : e.seq > job.bound} \cup {new}
              /\ checkpoints' = checkpoints \cup
                   {[seq |-> job.bound, marker |-> new.seq,
                     hash |-> (CHOOSE e \in log : e.seq = job.bound).hash]}
              /\ trimmed' = trimmed \cup
                   {[at |-> e.at, cut |-> job.at, since |-> e.seq > job.head] :
                      e \in Below(log, job.bound + 1)}
    /\ NoteTrim(job.job = "prune")

\* SQLite: the whole transaction under the write connection.  One that fails, and
\* a retention pass with nothing old enough to remove, change nothing.
SqliteTx(c) ==
    /\ engine = "sqlite"
    /\ \E job \in Jobs :
         LET rows  == {e.seq : e \in Naming(job.subject)}
             bound == PruneBound(job.at)
             full  == [job EXCEPT !.rows = rows, !.bound = bound, !.head = HeadSeq]
         IN  /\ job.job = "prune" => bound # 0
             /\ HeadSeq < MaxSeq
             /\ Commit(full, Appended(full, HeadSeq + 1, HeadHash, bound))
    /\ UNCHANGED <<engine, drawn, appendLock, caller, pager>>

\* PostgreSQL, before the append lock: an erasure updates its rows and keeps
\* them locked, a retention pass reads the first entry to keep.
RowsLocked(c) == UNION {caller[d].rows : d \in Callers \ {c}}

PgFirst(c) ==
    /\ engine = "postgres"
    /\ caller[c].stage = "idle"
    /\ \E job \in Jobs :
         LET rows  == IF job.job = "erase" THEN {e.seq : e \in Naming(job.subject)} ELSE {}
             prune == job.job = "prune"
         IN  /\ rows \cap RowsLocked(c) = {}
             /\ caller' = [caller EXCEPT ![c] =
                  [job EXCEPT !.stage = IF prune THEN "cut" ELSE "waiting", !.rows = rows,
                              !.bound = IF prune THEN KeepFrom(job.at) - 1 ELSE 0,
                              !.head = IF prune THEN HeadSeq ELSE 0]]
    /\ UNCHANGED <<engine, log, checkpoints, drawn, appendLock, walk, pager, trimmed>>

\* The next statement of a retention pass finds the last entry before that one, in
\* the log as it is by then.  With none there is nothing to do.
PgBound(c) ==
    /\ caller[c].stage = "cut"
    /\ LET bound == LastBefore(caller[c].bound + 1)
       IN  caller' = [caller EXCEPT ![c] =
             IF bound = 0 THEN IdleCaller ELSE [@ EXCEPT !.stage = "waiting", !.bound = bound]]
    /\ UNCHANGED <<engine, log, checkpoints, drawn, appendLock, walk, pager, trimmed>>

\* Mutant of PgLock: the append lock is not taken.
PgLockNot(c) ==
    /\ caller[c].stage = "waiting"
    /\ caller' = [caller EXCEPT ![c].stage = "locked"]
    /\ UNCHANGED <<engine, log, checkpoints, drawn, appendLock, walk, pager, trimmed>>

\* pg_advisory_xact_lock
PgLock(c) ==
    /\ caller[c].stage = "waiting"
    /\ appendLock = Unheld
    /\ appendLock' = c
    /\ caller' = [caller EXCEPT ![c].stage = "locked"]
    /\ UNCHANGED <<engine, log, checkpoints, drawn, walk, pager, trimmed>>

\* prepareAppend: nextval, then the head of the chain.
PgPrepare(c) ==
    /\ caller[c].stage = "locked"
    /\ drawn < MaxSeq
    /\ drawn' = drawn + 1
    /\ caller' = [caller EXCEPT ![c].stage = "prepared",
                                ![c].seq = drawn + 1, ![c].prev = HeadHash]
    /\ UNCHANGED <<engine, log, checkpoints, appendLock, walk, pager, trimmed>>

\* audit_checkpoints_insert_guard: the boundary is a row that is still there.
BoundaryPresent(bound) == \E e \in log : e.seq = bound

\* The inserts, the deletion and the commit, which releases the locks.  A
\* deletion waits for the rows an erasure holds.
PgCommit(c) ==
    /\ caller[c].stage = "prepared"
    /\ caller[c].job = "prune" =>
         /\ BoundaryPresent(caller[c].bound)
         /\ RowsLocked(c) \cap 1..caller[c].bound = {}
    /\ Commit(caller[c], Appended(caller[c], caller[c].seq, caller[c].prev, caller[c].bound))
    /\ caller' = [caller EXCEPT ![c] = IdleCaller]
    /\ appendLock' = Unheld
    /\ UNCHANGED <<engine, drawn, pager>>

\* The transaction fails: a guard of the schema, a deadlock broken by the
\* server, a timeout, a lost connection.  The number drawn is not returned.
PgRollback(c) ==
    /\ engine = "postgres"
    /\ caller[c].stage \in {"cut", "waiting", "locked", "prepared"}
    /\ caller' = [caller EXCEPT ![c] = IdleCaller]
    /\ appendLock' = IF appendLock = c THEN Unheld ELSE appendLock
    /\ UNCHANGED <<engine, log, checkpoints, drawn, walk, pager, trimmed>>

-----------------------------------------------------------------------------
(* VerifyChain, a sequence of reads.                                       *)

WalkBegin ==
    /\ walk.stage = "idle"
    /\ \E from \in 1..MaxSeq :
         walk' = [IdleWalk EXCEPT !.from = from, !.cursor = from - 1,
                    !.stage = IF from = 1 THEN "checkpoint" ELSE "before"]
    /\ UNCHANGED <<engine, log, checkpoints, drawn, appendLock, caller, pager, trimmed>>

\* unattestedCheckpoint reads the newest checkpoint, then the entry it names.
WalkCheckpoint ==
    /\ walk.stage = "checkpoint"
    /\ walk' = [walk EXCEPT !.cp = NewestCheckpoint,
                  !.stage = IF checkpoints = {} THEN "before" ELSE "marker"]
    /\ UNCHANGED <<engine, log, checkpoints, drawn, appendLock, caller, pager, trimmed>>

WalkMarker ==
    /\ walk.stage = "marker"
    /\ LET attested == \E e \in log : e.seq = walk.cp.marker
                                      /\ MarkerAttestsCheckpoint(e.detail, walk.cp)
       IN  walk' = [walk EXCEPT !.stage = IF attested THEN "before" ELSE "done",
                                !.broken = IF attested THEN 0 ELSE walk.cp.seq]
    /\ UNCHANGED <<engine, log, checkpoints, drawn, appendLock, caller, pager, trimmed>>

\* Mutant of HashBefore: a walk from the beginning starts at genesis.
HashBeforeGenesis(from) ==
    IF Below(log, from) = {} THEN Genesis ELSE Top(Below(log, from)).hash

\* hashBefore.  Only a walk from the beginning consults a checkpoint.
HashBefore(from) ==
    IF from = 1 THEN NewestCheckpoint.hash
    ELSE IF Below(log, from) = {} THEN Genesis ELSE Top(Below(log, from)).hash

WalkBefore ==
    /\ walk.stage = "before"
    /\ walk' = [walk EXCEPT !.stage = "page", !.prev = HashBefore(walk.from),
                  !.anchored = walk.from = 1 \/ Below(log, walk.from) \notin {{}, log}]
    /\ UNCHANGED <<engine, log, checkpoints, drawn, appendLock, caller, pager, trimmed>>

Page(after) ==
    {e \in log : e.seq > after /\ Cardinality({f \in log : f.seq > after /\ f.seq < e.seq}) < PageSize}

WalkPage ==
    /\ walk.stage = "page"
    /\ LET batch  == Page(walk.cursor)
           broken == VerifySequence(batch, walk.prev)
       IN  walk' = IF batch = {} THEN [walk EXCEPT !.stage = "done"]
                   ELSE IF broken # 0 THEN [walk EXCEPT !.stage = "done", !.broken = broken]
                   ELSE [walk EXCEPT !.prev = Top(batch).hash, !.cursor = Top(batch).seq]
    /\ UNCHANGED <<engine, log, checkpoints, drawn, appendLock, caller, pager, trimmed>>

\* Recorder.Verify records the outcome as any event, and the
\* caller is told; nothing more is kept of the walk.
WalkEnd ==
    /\ walk.stage = "done"
    /\ walk' = IdleWalk
    /\ UNCHANGED <<engine, log, checkpoints, drawn, appendLock, caller, pager, trimmed>>

\* QueryAudit or ReadAuditRange after the last sequence number seen.
ReadPage ==
    /\ Page(pager.cursor) # {}
    /\ pager' = [cursor |-> Top(Page(pager.cursor)).seq,
                 seen |-> pager.seen \cup {e.seq : e \in Page(pager.cursor)}]
    /\ UNCHANGED <<engine, log, checkpoints, drawn, appendLock, caller, walk, trimmed>>

Walk == WalkBegin \/ WalkCheckpoint \/ WalkMarker \/ WalkBefore \/ WalkPage \/ WalkEnd

Write(c) ==
    \/ SqliteTx(c) \/ PgFirst(c) \/ PgBound(c) \/ PgLock(c) \/ PgPrepare(c)
    \/ PgCommit(c) \/ PgRollback(c)

ChainNext == Walk \/ ReadPage \/ \E c \in Callers : Write(c)

ChainSpec == ChainInit /\ [][ChainNext]_chainVars

-----------------------------------------------------------------------------
(* Properties.                                                             *)

\* Read at one instant the log always verifies: the newest checkpoint is attested
\* by a marker still in the log, and the rows chain from it to the head without a
\* fork, whatever appends, erasures and trims ran at once (prepareAppend,
\* EraseSubjectAuditEntries, PruneAuditLog).
AlwaysVerifies ==
    /\ VerifySequence(log, NewestCheckpoint.hash) = 0
    /\ checkpoints # {} =>
         \E e \in log : e.seq = NewestCheckpoint.marker
                        /\ MarkerAttestsCheckpoint(e.detail, NewestCheckpoint)

\* Of the log a retention pass first read, it trims no entry inside the retention
\* period, although the clock that dates entries may step back (PruneAuditLog).
OnlyOldIsTrimmed == \A t \in trimmed : t.at < t.cut \/ t.since

\* "It removes entries older than before" (PruneAuditLog of store/postgres/audit.go):
\* nor does it trim a recent entry committed while it was under way.
NothingRecentIsTrimmed == \A t \in trimmed : t.at < t.cut

\* The log is whole: what is left verifies, and nothing was trimmed that was to be
\* kept when the pass first looked (prepareAppend, PruneAuditLog).
LogIsWhole == AlwaysVerifies /\ OnlyOldIsTrimmed

\* A verification that reports a break is right, unless a trim committed while it
\* was reading or it began outside the rows of the log: appends and erasures under
\* way never make it report an untouched log (VerifyChain).
NoFalseBreak ==
    walk.broken # 0 => walk.trimmedMeanwhile \/ ~walk.anchored

\* A reader that follows next_seq has seen every entry below its cursor: nothing
\* is committed behind it later on, since numbers are drawn under the append lock.
NothingBehindCursor ==
    \A e \in log : e.seq <= pager.cursor => e.seq \in pager.seen

\* docs/MONITORING.md, retention: after a trim, verify from the sequence number
\* above the watermark of the newest checkpoint.
VerifiesAboveWatermark ==
    walk.broken # 0 /\ checkpoints # {} =>
        walk.trimmedMeanwhile \/ walk.from # NewestCheckpoint.seq + 1
=============================================================================
