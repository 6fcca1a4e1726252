----------------------------- MODULE AuditSink ------------------------------
(***************************************************************************)
(* The audit export: recorders offer the entries they appended to a        *)
(* bounded queue, one worker delivers them in batches to an external       *)
(* receiver, and a file remembers how far delivery got                     *)
(* (internal/auditsink, Recorder.Record of internal/audit).                *)
(*                                                                         *)
(* Entries are numbered along the chain, so "chains onto" is "one more":   *)
(* the gaps PostgreSQL leaves in seq are not visible here, as they are not *)
(* to code that compares hashes.  Entries below the watermark are never    *)
(* trimmed here; module AuditChain has the trimming.                       *)
(***************************************************************************)
EXTENDS Integers, Sequences, FiniteSets

CONSTANTS
    MaxEntries,   \* bound: entries ever appended
    BufferSize,   \* audit.sink.buffer_size
    BatchSize,    \* audit.sink.batch_size
    MaxRestarts   \* bound: crashes and shutdowns

ASSUME SinkAssumption ==
    /\ BufferSize \in Nat \ {0}
    /\ BatchSize \in Nat \ {0}

VARIABLES
    written,    \* length of the audit log
    unoffered,  \* appended by a recorder that has not called Offer yet
    queue,      \* the channel
    resync,     \* the next flush reads from the log
    worker,     \* the goroutine running Run
    mark,       \* the watermark in memory, and whether its hash is known
    markFile,   \* the watermark on disk
    backoff,    \* now is before nextAttempt
    failing,    \* lastErr is set
    received,   \* entries the receiver holds
    heard,      \* the head the last heartbeat named
    accepted,   \* history: entries the queue took
    dropped,    \* history: entries the queue could not take
    restarts    \* history: crashes and shutdowns so far

sinkVars == <<written, unoffered, queue, resync, worker, mark, markFile, backoff,
              failing, received, heard, accepted, dropped, restarts>>

\* Where the worker is: waiting in select, delivering a batch it holds, writing
\* the watermark after the receiver acknowledged it, or not running.
IdleWorker == [at |-> "select", pending |-> <<>>, batch |-> <<>>,
               path |-> "queue", stopping |-> FALSE]

Down == [IdleWorker EXCEPT !.at = "down"]

\* New and loadWatermark on a first start.
SinkInit ==
    /\ written = 0
    /\ unoffered = {}
    /\ queue = <<>>
    /\ resync = TRUE
    /\ worker = IdleWorker
    /\ mark = [seq |-> 0, joined |-> TRUE]
    /\ markFile = 0
    /\ backoff = FALSE
    /\ failing = FALSE
    /\ received = {}
    /\ heard = 0
    /\ accepted = {}
    /\ dropped = {}
    /\ restarts = 0

Running == worker.at # "down"

-----------------------------------------------------------------------------
(* The recorders.                                                          *)

\* Append commits.  Record goes on to offer the entry; the store's own markers
\* and tombstones are never offered.
AppendEntry ==
    /\ Running
    /\ written < MaxEntries
    /\ written' = written + 1
    /\ unoffered' \in {unoffered, unoffered \cup {written + 1}}
    /\ UNCHANGED <<queue, resync, worker, mark, markFile, backoff, failing,
                   received, heard, accepted, dropped, restarts>>

\* Offer: never blocks.  Concurrent recorders offer in any order.
Offer(e) ==
    /\ Running
    /\ unoffered' = unoffered \ {e}
    /\ \/ /\ Len(queue) < BufferSize
          /\ queue' = Append(queue, e)
          /\ accepted' = accepted \cup {e}
          /\ UNCHANGED <<resync, dropped>>
       \/ /\ Len(queue) = BufferSize
          /\ resync' = TRUE
          /\ dropped' = dropped \cup {e}
          /\ UNCHANGED <<queue, accepted>>
    /\ UNCHANGED <<written, worker, mark, markFile, backoff, failing, received,
                   heard, restarts>>

-----------------------------------------------------------------------------
(* The worker.                                                             *)

\* Everything but the variables the worker's bookkeeping touches.
World == <<written, unoffered, received, heard, accepted, dropped, restarts>>

\* Run receives an entry; a full batch is flushed at once.
Receive ==
    /\ worker.at = "select"
    /\ queue # <<>>
    /\ queue' = Tail(queue)
    /\ LET pending == Append(worker.pending, Head(queue))
       IN  worker' = [worker EXCEPT !.pending = pending,
                        !.at = IF Len(pending) >= BatchSize THEN "flush" ELSE "select"]
    /\ UNCHANGED World /\ UNCHANGED <<resync, mark, markFile, backoff, failing>>

\* The ticker fires.
Tick ==
    /\ worker.at = "select"
    /\ worker' = [worker EXCEPT !.at = "flush"]
    /\ UNCHANGED World /\ UNCHANGED <<queue, resync, mark, markFile, backoff, failing>>

\* nextAttempt passes.
BackoffOver ==
    /\ backoff
    /\ backoff' = FALSE
    /\ UNCHANGED World /\ UNCHANGED <<queue, resync, worker, mark, markFile, failing>>

\* Mutant of UsableBatch: entries are taken in the order they were offered.
UsableBatchAsOffered(pending) ==
    [batch |-> SelectSeq(pending, LAMBDA e : e > mark.seq), ok |-> mark.joined]

\* usableBatch: what lies above the watermark, if it chains onto it and on, which is
\* to say that it is the next entries of the log, in their order.
UsableBatch(pending) ==
    LET fresh == {i \in 1..Len(pending) : pending[i] > mark.seq}
        next  == [k \in 1..Cardinality(fresh) |-> mark.seq + k]
    IN  [batch |-> next,
         ok |-> \/ fresh = {}
                \/ /\ mark.joined
                   /\ {pending[i] : i \in fresh} = {next[k] : k \in DOMAIN next}
                   /\ \A i, j \in fresh : i < j => pending[i] < pending[j]]

\* The rest of a flush: back to select, or to the end of a shutdown.
Rest(w) == IF w.stopping THEN Down ELSE [IdleWorker EXCEPT !.at = "select"]

\* flush: drain, give up inside the backoff, choose between queue and log.
Flush ==
    /\ worker.at = "flush"
    /\ LET room    == BatchSize - Len(worker.pending)
           taken   == IF room < Len(queue) THEN room ELSE Len(queue)
           pending == worker.pending \o SubSeq(queue, 1, taken)
           usable  == UsableBatch(pending)
       IN  /\ queue' = SubSeq(queue, taken + 1, Len(queue))
           /\ IF backoff
              THEN /\ resync' = (resync \/ pending # <<>>)
                   /\ worker' = Rest(worker)
              ELSE /\ UNCHANGED resync
                   /\ worker' = IF resync \/ ~usable.ok
                                THEN [worker EXCEPT !.at = "catchup", !.pending = <<>>]
                                ELSE IF usable.batch = <<>> THEN Rest(worker)
                                ELSE [worker EXCEPT !.at = "post", !.pending = <<>>,
                                        !.batch = usable.batch, !.path = "queue"]
    /\ UNCHANGED World /\ UNCHANGED <<mark, markFile, backoff, failing>>

\* fail: everything undelivered is recovered from the log later.
Fail ==
    /\ failing' = TRUE
    /\ resync' = TRUE
    /\ backoff' = TRUE
    /\ worker' = Rest(worker)

\* succeed.
Succeed == failing' = FALSE /\ backoff' = FALSE

\* catchUp: checkWatermark, then a page of the log past the watermark; the two
\* reads are one step, since the log only grows.  It fails when a read does, when
\* the context has ended, or when the watermark is ahead of the log.
CatchUp ==
    /\ worker.at = "catchup"
    /\ LET n     == IF written - mark.seq < BatchSize THEN written - mark.seq ELSE BatchSize
           page  == [i \in 1..n |-> mark.seq + i]
       IN  \/ /\ mark.seq = written
              /\ worker' = [worker EXCEPT !.at = "level"]
              /\ UNCHANGED <<failing, resync, backoff>>
           \/ /\ mark.seq < written
              /\ worker' = [worker EXCEPT !.at = "post", !.batch = page, !.path = "log"]
              /\ UNCHANGED <<failing, resync, backoff>>
           \/ Fail
    /\ UNCHANGED World /\ UNCHANGED <<queue, mark, markFile>>

\* The catch-up found itself level with the log and says so.
Level ==
    /\ worker.at = "level"
    /\ resync' = FALSE
    /\ Succeed
    /\ worker' = Rest(worker)
    /\ UNCHANGED World /\ UNCHANGED <<queue, mark, markFile>>

\* Mutant of Post: the watermark is written before the batch is sent.
PostAfterMark ==
    /\ worker.at = "post"
    /\ markFile' = worker.batch[Len(worker.batch)]
    /\ worker' = [worker EXCEPT !.at = "mark"]
    /\ \/ /\ received' = received \cup {worker.batch[i] : i \in 1..Len(worker.batch)}
       \/ UNCHANGED received
    /\ UNCHANGED <<written, unoffered, heard, accepted, dropped, restarts, queue,
                   resync, mark, backoff, failing>>

\* post: the receiver takes the batch and its answer arrives; or the answer is
\* lost; or nothing arrives.
Post ==
    /\ worker.at = "post"
    /\ \/ /\ received' = received \cup {worker.batch[i] : i \in 1..Len(worker.batch)}
          /\ worker' = [worker EXCEPT !.at = "mark"]
          /\ UNCHANGED <<resync, backoff, failing>>
       \/ /\ received' = received \cup {worker.batch[i] : i \in 1..Len(worker.batch)}
          /\ Fail
       \/ UNCHANGED received /\ Fail
    /\ UNCHANGED <<written, unoffered, heard, accepted, dropped, restarts, queue,
                   mark, markFile>>

\* watermark.set: durable first, then in memory; or the file cannot be written.
\* A short page from the log is the last one.
SetMark ==
    /\ worker.at = "mark"
    /\ LET last == worker.batch[Len(worker.batch)]
       IN  \/ /\ markFile' = last
              /\ mark' = [seq |-> last, joined |-> TRUE]
              /\ Succeed
              /\ worker' = IF worker.path = "queue" THEN Rest(worker)
                           ELSE IF Len(worker.batch) < BatchSize
                           THEN [worker EXCEPT !.at = "level", !.batch = <<>>]
                           ELSE [worker EXCEPT !.at = "catchup", !.batch = <<>>]
              /\ UNCHANGED resync
           \/ Fail /\ UNCHANGED <<mark, markFile>>
    /\ UNCHANGED World /\ UNCHANGED queue

\* heartbeat: names the head of the chain, and acknowledges nothing.
SendHeartbeat ==
    /\ worker.at = "select"
    /\ ~backoff
    /\ \/ heard' = written /\ Succeed /\ UNCHANGED <<resync, worker>>
       \/ /\ UNCHANGED heard
          /\ failing' = TRUE /\ resync' = TRUE /\ backoff' = TRUE
          /\ UNCHANGED worker
    /\ UNCHANGED <<written, unoffered, received, accepted, dropped, restarts,
                   queue, mark, markFile>>

-----------------------------------------------------------------------------
(* Stopping and starting.                                                  *)

\* Runner.Stop: finalFlush clears the backoff and tries once.
Stop ==
    /\ worker.at = "select"
    /\ restarts < MaxRestarts
    /\ restarts' = restarts + 1
    /\ backoff' = FALSE
    /\ worker' = [worker EXCEPT !.at = "flush", !.stopping = TRUE]
    /\ UNCHANGED <<written, unoffered, queue, resync, mark, markFile, failing,
                   received, heard, accepted, dropped>>

\* The process dies wherever it is.
Crash ==
    /\ Running
    /\ restarts < MaxRestarts
    /\ restarts' = restarts + 1
    /\ worker' = Down
    /\ UNCHANGED <<written, unoffered, queue, resync, mark, markFile, backoff,
                   failing, received, heard, accepted, dropped>>

\* Mutant of Restart: the queue is trusted from the start.
RestartTrusting ==
    /\ ~Running
    /\ worker' = IdleWorker
    /\ queue' = <<>>
    /\ unoffered' = {}
    /\ mark' = [seq |-> markFile, joined |-> TRUE]
    /\ resync' = FALSE
    /\ backoff' = FALSE
    /\ failing' = FALSE
    /\ UNCHANGED <<written, markFile, received, heard, accepted, dropped, restarts>>

\* New: the watermark is loaded, and may be unreadable or carry no hash; the
\* queue is empty and the first flush reads from the log.
Restart ==
    /\ ~Running
    /\ worker' = IdleWorker
    /\ queue' = <<>>
    /\ unoffered' = {}
    /\ \E seq \in {0, markFile} : \E joined \in {TRUE, seq = 0} :
         /\ mark' = [seq |-> seq, joined |-> joined]
         /\ markFile' = seq
    /\ resync' = TRUE
    /\ backoff' = FALSE
    /\ failing' = FALSE
    /\ UNCHANGED <<written, received, heard, accepted, dropped, restarts>>

Work ==
    \/ Receive \/ Tick \/ Flush \/ CatchUp \/ Level \/ Post \/ SetMark

SinkNext ==
    \/ AppendEntry \/ (\E e \in unoffered : Offer(e))
    \/ Work \/ BackoffOver \/ SendHeartbeat
    \/ Stop \/ Crash \/ Restart

\* The scheduler runs the worker and its timers, a process that is down is
\* started again, and the receiver, the store and the disk do not fail for ever.
\* A tick finds the backoff over now and then: heartbeats, the other attempts that
\* can fail, come at a longer interval than flushes.
SinkFairness ==
    /\ WF_sinkVars(Flush) /\ WF_sinkVars(CatchUp) /\ WF_sinkVars(Level)
    /\ WF_sinkVars(Post) /\ WF_sinkVars(SetMark)
    /\ SF_sinkVars(~backoff /\ Tick) /\ WF_sinkVars(BackoffOver) /\ WF_sinkVars(Restart)
    /\ SF_sinkVars(CatchUp /\ worker'.at # "select" /\ worker'.at # "down")
    /\ SF_sinkVars(Post /\ worker'.at = "mark")
    /\ SF_sinkVars(SetMark /\ mark' # mark)

SinkSpec == SinkInit /\ [][SinkNext]_sinkVars

FairSinkSpec == SinkSpec /\ SinkFairness

-----------------------------------------------------------------------------
(* Properties.                                                             *)

W == INSTANCE Witness WITH witnessed <- received

\* The receiver always holds a prefix of the log: no full queue, entries offered
\* out of order, failed or half-acknowledged POST, lost watermark, crash or
\* restart leaves a hole in it (catchUp and deliver).
NoHoles == W!WitnessSpec

\* There is always again a moment when the receiver holds every entry the queue has
\* accepted and all before them, although the process may die holding some (flush, New).
AcceptedIsDelivered == []<>(\A n \in accepted : 1..n \subseteq received)

\* Offer: "An entry the queue cannot take is dropped, counted and logged; the
\* audit log still holds it and the next flush reads it from there, so the
\* receiver ends up with it either way."
DroppedIsDelivered == \A n \in 1..MaxEntries : n \in dropped ~> n \in received
=============================================================================
