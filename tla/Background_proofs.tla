------------------------- MODULE Background_proofs -------------------------
(***************************************************************************)
(* Machine-checked proofs about what keeps a deployment going beside its   *)
(* subjects' requests: the exporter of the audit log (AuditSink), for      *)
(* every log length, queue and batch size; the deferred erasures           *)
(* (Erasure), for every number of handlers and replicas and every kind of  *)
(* sweep lock; the start of replicas on one database (Lifecycle), for      *)
(* every number of replicas and every mix of binaries; and the tokens it   *)
(* is administered with (AdminTokens), for every number of administrators  *)
(* and of requests.                                                        *)
(***************************************************************************)
EXTENDS AuditSink, Erasure, Lifecycle, AdminTokens, FiniteSetTheorems, SequenceTheorems, TLAPS

-----------------------------------------------------------------------------
(***************************************************************************)
(* The exporter implements the witness of module Witness: whatever is      *)
(* dropped, repeated, reordered, lost or cut short on the way, the         *)
(* receiver holds a prefix of the log and the prefix only grows.           *)
(*                                                                         *)
(* The argument is that a batch about to be sent always begins right above *)
(* the watermark, and that neither watermark, in memory or on disk, ever   *)
(* runs ahead of what the receiver holds.                                  *)
(***************************************************************************)

WorkerStage == {"select", "flush", "catchup", "level", "post", "mark", "down"}

Worker == [at : WorkerStage, pending : Seq(Nat), batch : Seq(Nat),
           path : {"queue", "log"}, stopping : BOOLEAN]

\* Only entries of the log.
Logged(s) == s \in Seq(Nat) /\ \A i \in 1..Len(s) : s[i] <= written

SinkTypes ==
    /\ written \in Nat
    /\ markFile \in Nat
    /\ mark \in [seq : Nat, joined : BOOLEAN]
    /\ unoffered \subseteq 1..written
    /\ worker \in Worker

\* What waits to be delivered is in the log, and less than a batch of it is in the
\* worker's hands while it waits for more.
WaitingInv ==
    /\ Logged(queue)
    /\ Logged(worker.pending)
    /\ Len(worker.pending) <= BatchSize
    /\ worker.at = "select" => Len(worker.pending) < BatchSize

\* The receiver holds a prefix, and no watermark is past its end.
PrefixInv ==
    \E n \in 0..written : received = 1..n /\ mark.seq <= n /\ markFile <= n

\* The entries from one past m on, all of them in the log.
Follows(batch, m) ==
    /\ batch # <<>>
    /\ \A i \in 1..Len(batch) : batch[i] = m + i
    /\ m + Len(batch) <= written

\* A batch on its way begins where the watermark ends, and the receiver has all of
\* it before the watermark moves.
BatchInv ==
    /\ worker.at \in {"post", "mark"} => Follows(worker.batch, mark.seq)
    /\ worker.at = "mark" => 1..(mark.seq + Len(worker.batch)) \subseteq received

\* The end of the batch in hand, when it follows the watermark.
BatchEnd == mark.seq + Len(worker.batch)

SinkInv == SinkTypes /\ WaitingInv /\ PrefixInv /\ BatchInv

-----------------------------------------------------------------------------
(* Lemmas about the operators.                                             *)

\* The log only grows, so what is in it stays in it.
LEMMA LoggedStays ==
    ASSUME NEW s, Logged(s), written \in Nat, written' \in Nat, written <= written'
    PROVE  s \in Seq(Nat) /\ \A i \in 1..Len(s) : s[i] <= written'
BY LenProperties DEF Logged

\* One more entry of the log may join a sequence of them.
LEMMA LoggedAppend ==
    ASSUME NEW s, Logged(s), NEW e \in 0..written, written \in Nat
    PROVE  Logged(Append(s, e)) /\ Len(Append(s, e)) = Len(s) + 1
<1>1. s \in Seq(Nat) /\ e \in Nat /\ Len(s) \in Nat
  BY LenProperties DEF Logged
<1>2. Append(s, e) \in Seq(Nat) /\ Len(Append(s, e)) = Len(s) + 1
  BY <1>1, AppendProperties
<1>3. \A i \in 1..(Len(s) + 1) : Append(s, e)[i] <= written
  <2> TAKE i \in 1..(Len(s) + 1)
  <2>1. CASE i = Len(s) + 1
    BY <1>1, <2>1, AppendProperties
  <2>2. CASE i # Len(s) + 1
    <3>1. i \in 1..Len(s)
      BY <1>1, <2>2
    <3> QED BY <1>1, <3>1, AppendProperties DEF Logged
  <2> QED BY <2>1, <2>2
<1> QED BY <1>2, <1>3 DEF Logged

\* A stretch of a sequence of log entries is one too.
LEMMA LoggedSubSeq ==
    ASSUME NEW s, Logged(s), NEW m \in Nat, NEW n \in Nat,
           1 <= m, m <= n + 1, n <= Len(s)
    PROVE  Logged(SubSeq(s, m, n)) /\ Len(SubSeq(s, m, n)) = n + 1 - m
<1>1. s \in Seq(Nat) /\ Len(s) \in Nat
  BY LenProperties DEF Logged
<1>2. CASE m = n + 1
  <2>1. SubSeq(s, m, n) = <<>>
    BY <1>1, <1>2, SubSeqEmpty
  <2> QED BY <1>2, <2>1, EmptySeq DEF Logged
<1>3. CASE m <= n
  <2>1. m \in 1..(n + 1) /\ n \in m..Len(s)
    BY <1>1, <1>3
  <2>2. /\ SubSeq(s, m, n) \in Seq(Nat) /\ Len(SubSeq(s, m, n)) = n + 1 - m
        /\ \A i \in 1..(n - m + 1) : SubSeq(s, m, n)[i] = s[m + i - 1]
    BY <1>1, <1>3, <2>1, SubSeqProperties
  <2>3. \A i \in 1..(n - m + 1) : s[m + i - 1] <= written
    BY <1>1, <1>3 DEF Logged
  <2> QED BY <1>3, <2>2, <2>3 DEF Logged
<1> QED BY <1>2, <1>3

\* Two sequences of log entries make one.
LEMMA LoggedConcat ==
    ASSUME NEW s, NEW t, Logged(s), Logged(t)
    PROVE  Logged(s \o t) /\ Len(s \o t) = Len(s) + Len(t)
<1>1. s \in Seq(Nat) /\ t \in Seq(Nat) /\ Len(s) \in Nat /\ Len(t) \in Nat
  BY LenProperties DEF Logged
<1>2. /\ s \o t \in Seq(Nat) /\ Len(s \o t) = Len(s) + Len(t)
      /\ \A i \in 1..(Len(s) + Len(t)) :
           (s \o t)[i] = IF i <= Len(s) THEN s[i] ELSE t[i - Len(s)]
  BY <1>1, ConcatProperties
<1>3. \A i \in 1..(Len(s) + Len(t)) : (s \o t)[i] <= written
  BY <1>1, <1>2 DEF Logged
<1> QED BY <1>2, <1>3 DEF Logged

\* What comes out of usableBatch may be sent: it follows the watermark and is in the
\* log, whatever order the entries were offered in.
LEMMA UsableFollows ==
    ASSUME NEW pending, Logged(pending), SinkTypes,
           UsableBatch(pending).ok, UsableBatch(pending).batch # <<>>
    PROVE  /\ UsableBatch(pending).batch \in Seq(Nat)
           /\ Follows(UsableBatch(pending).batch, mark.seq)
<1> DEFINE fresh == {i \in 1..Len(pending) : pending[i] > mark.seq}
           size == Cardinality(fresh)
           next == [k \in 1..size |-> mark.seq + k]
<1>1. mark.seq \in Nat /\ Len(pending) \in Nat /\ pending \in Seq(Nat) /\ written \in Nat
  BY LenProperties DEF SinkTypes, Logged
<1>2. size \in Nat
  <2>1. IsFiniteSet(1..Len(pending))
    BY <1>1, FS_Interval
  <2> QED BY <2>1, FS_Subset, FS_CardinalityType
<1>3. /\ UsableBatch(pending).batch = next
      /\ fresh = {} \/ {pending[i] : i \in fresh} = {next[k] : k \in DOMAIN next}
  BY DEF UsableBatch
<1> HIDE DEF size
<1>4. next \in Seq(Nat) /\ Len(next) = size
  <2>1. \A k \in 1..size : mark.seq + k \in Nat
    BY <1>1, <1>2
  <2> QED BY <1>2, <2>1, IsASeq
<1>5. size # 0
  BY <1>2, <1>3, <1>4, EmptySeq
<1>6. fresh # {}
  BY <1>5, FS_EmptySet DEF size
<1>7. next[size] = mark.seq + size /\ size \in DOMAIN next
  BY <1>2, <1>5
<1>8. PICK i \in fresh : pending[i] = next[size]
  <2>1. next[size] \in {next[k] : k \in DOMAIN next}
    BY <1>7
  <2>2. next[size] \in {pending[i] : i \in fresh}
    BY <1>3, <1>6, <2>1
  <2> HIDE DEF fresh, next
  <2> QED BY <2>2
<1>9. mark.seq + size <= written
  BY <1>7, <1>8 DEF Logged
<1>10. next # <<>>
  BY <1>2, <1>4, <1>5, EmptySeq
<1> QED BY <1>3, <1>4, <1>9, <1>10 DEF Follows

\* The page read past the watermark follows it.
LEMMA PageFollows ==
    ASSUME SinkTypes, NEW n \in Nat \ {0}, mark.seq + n <= written,
           NEW page, page = [i \in 1..n |-> mark.seq + i]
    PROVE  page \in Seq(Nat) /\ Follows(page, mark.seq)
<1>1. \A i \in 1..n : mark.seq + i \in Nat
  BY DEF SinkTypes
<1>2. page \in Seq(Nat) /\ Len(page) = n
  BY <1>1, IsASeq
<1> QED BY <1>2, EmptySeq DEF Follows

\* Sending a batch that follows the watermark makes a longer prefix, or changes nothing.
LEMMA SendingExtends ==
    ASSUME SinkInv, worker.at = "post",
           received' = received \cup {worker.batch[i] : i \in 1..Len(worker.batch)},
           written' = written
    PROVE  /\ BatchEnd \in 1..written /\ 1..BatchEnd \subseteq received'
           /\ received' = received \/ (BatchEnd \notin received /\ received' = 1..BatchEnd)
<1> DEFINE size == Len(worker.batch)
           sent == {worker.batch[i] : i \in 1..size}
<1>1. /\ mark.seq \in Nat /\ size \in Nat \ {0} /\ written \in Nat
      /\ BatchEnd = mark.seq + size /\ BatchEnd <= written
      /\ \A i \in 1..size : worker.batch[i] = mark.seq + i
  BY EmptySeq, LenProperties DEF SinkInv, BatchInv, Follows, SinkTypes, Worker, BatchEnd
<1>2. PICK n \in 0..written : received = 1..n /\ mark.seq <= n
  BY DEF SinkInv, PrefixInv
<1>3. sent = (mark.seq + 1)..BatchEnd
  <2>1. sent = {mark.seq + i : i \in 1..size}
    BY <1>1
  <2>2. ASSUME NEW x \in (mark.seq + 1)..BatchEnd PROVE x \in sent
    <3>1. x - mark.seq \in 1..size /\ x = mark.seq + (x - mark.seq)
      BY <1>1
    <3> QED BY <1>1, <3>1
  <2>3. ASSUME NEW x \in sent PROVE x \in (mark.seq + 1)..BatchEnd
    BY <1>1, <2>1
  <2> QED BY <2>2, <2>3
<1> HIDE DEF sent
<1>4. received' = received \cup sent
  BY DEF sent
<1>5. CASE BatchEnd <= n
  <2>1. received' = received
    BY <1>1, <1>2, <1>3, <1>4, <1>5
  <2> QED BY <1>1, <1>2, <1>5, <2>1
<1>6. CASE n < BatchEnd
  <2>1. received' = 1..BatchEnd
    BY <1>1, <1>2, <1>3, <1>4, <1>6
  <2> QED BY <1>1, <1>2, <1>6, <2>1
<1>7. BatchEnd \in Nat /\ n \in Nat
  <2> HIDE DEF size
  <2> QED BY <1>1, <1>2
<1>8. BatchEnd <= n \/ n < BatchEnd
  BY <1>7
<1> QED BY <1>5, <1>6, <1>8

-----------------------------------------------------------------------------
(* The invariant.                                                          *)

\* The invariant holds at the start.
LEMMA SinkInitInv == SinkInit => SinkInv
<1> SUFFICES ASSUME SinkInit PROVE SinkInv
  OBVIOUS
<1> USE DEF SinkInit, IdleWorker
<1>1. SinkTypes
  BY DEF SinkTypes, Worker, WorkerStage
<1>2. WaitingInv
  <2>1. Logged(<<>>) /\ Len(<<>>) = 0
    BY EmptySeq DEF Logged
  <2> QED BY <2>1, SinkAssumption DEF WaitingInv
<1>3. PrefixInv
  BY DEF PrefixInv
<1>4. BatchInv
  BY DEF BatchInv
<1> QED BY <1>1, <1>2, <1>3, <1>4 DEF SinkInv

\* A worker that lets go of what it holds keeps the invariant, whatever becomes of
\* the flags; so does one that turns to the log.
LEMMA LetGo ==
    ASSUME SinkInv, Logged(queue)',
           UNCHANGED <<written, unoffered, mark, markFile>>,
           received' = received \/ \E n \in 1..written : n \notin received /\ received' = 1..n,
           worker' \in Worker, worker'.pending = <<>>, worker'.at \notin {"post", "mark"}
    PROVE  SinkInv'
<1>1. SinkTypes'
  BY DEF SinkInv, SinkTypes
<1>2. WaitingInv'
  <2>1. Logged(<<>>)' /\ Len(<<>>) = 0
    BY EmptySeq DEF Logged
  <2> QED BY <2>1, SinkAssumption DEF WaitingInv
<1>3. PrefixInv'
  <2>1. PICK n \in 0..written : received = 1..n /\ mark.seq <= n /\ markFile <= n
    BY DEF SinkInv, PrefixInv
  <2>2. CASE received' = received
    BY <2>1, <2>2 DEF PrefixInv
  <2>3. ASSUME NEW m \in 1..written, m \notin received, received' = 1..m PROVE PrefixInv'
    <3>1. n < m /\ m \in 0..written
      BY <2>1, <2>3 DEF SinkInv, SinkTypes
    <3> QED BY <2>1, <2>3, <3>1 DEF PrefixInv, SinkInv, SinkTypes
  <2> QED BY <2>2, <2>3
<1>4. BatchInv'
  BY DEF BatchInv
<1> QED BY <1>1, <1>2, <1>3, <1>4 DEF SinkInv

\* Rest is one way of letting go, whatever the worker was doing.
LEMMA RestLetsGo ==
    ASSUME worker \in Worker
    PROVE  Rest(worker) \in Worker /\ Rest(worker).pending = <<>>
           /\ Rest(worker).at \notin {"post", "mark"}
BY EmptySeq DEF Rest, Down, IdleWorker, Worker, WorkerStage

\* Steps that leave alone everything but the worker's place keep the invariant, if
\* the place they go to asks for nothing.
LEMMA WorkerMoves ==
    ASSUME SinkInv, UNCHANGED <<written, unoffered, queue, mark, markFile, received>>,
           worker' \in Worker, worker'.pending = worker.pending,
           worker'.at \in {"select", "flush"}, worker.at = "select"
    PROVE  SinkInv'
BY DEF SinkInv, SinkTypes, WaitingInv, PrefixInv, BatchInv, Logged

\* Every step of the recorders, the worker and the faults keeps the invariant.
LEMMA SinkStep == SinkInv /\ [SinkNext]_sinkVars => SinkInv'
<1> SUFFICES ASSUME SinkInv, [SinkNext]_sinkVars PROVE SinkInv'
  OBVIOUS
<1>t. /\ written \in Nat /\ markFile \in Nat /\ mark \in [seq : Nat, joined : BOOLEAN]
      /\ worker \in Worker /\ unoffered \subseteq 1..written
      /\ Logged(queue) /\ Logged(worker.pending)
      /\ queue \in Seq(Nat) /\ Len(queue) \in Nat /\ Len(worker.pending) \in Nat
      /\ BatchSize \in Nat \ {0} /\ Len(worker.pending) <= BatchSize
      /\ \E n \in 0..written : received = 1..n /\ mark.seq <= n /\ markFile <= n
  BY SinkAssumption, LenProperties DEF SinkInv, SinkTypes, WaitingInv, PrefixInv, Logged
<1>r. /\ Rest(worker) \in Worker /\ Rest(worker).pending = <<>>
      /\ Rest(worker).at \notin {"post", "mark"}
  BY <1>t, RestLetsGo
<1>1. ASSUME AppendEntry PROVE SinkInv'
  <2>1. /\ written' = written + 1 /\ unoffered' \subseteq 1..(written + 1)
        /\ UNCHANGED <<queue, worker, mark, markFile, received>>
    BY <1>1, <1>t DEF AppendEntry
  <2>2. Logged(queue)' /\ Logged(worker.pending)'
    <3>1. written' \in Nat /\ written <= written'
      BY <1>t, <2>1
    <3>2. /\ \A i \in 1..Len(queue) : queue[i] <= written'
          /\ \A i \in 1..Len(worker.pending) : worker.pending[i] <= written'
      BY <1>t, <3>1, LoggedStays
    <3> QED BY <1>t, <2>1, <3>2 DEF Logged
  <2>3. SinkTypes' /\ WaitingInv'
    BY <1>t, <2>1, <2>2 DEF SinkInv, SinkTypes, WaitingInv
  <2>4. PrefixInv'
    BY <1>t, <2>1 DEF PrefixInv
  <2>5. BatchInv'
    BY <1>t, <2>1 DEF SinkInv, BatchInv, Follows, Worker
  <2> QED BY <2>3, <2>4, <2>5 DEF SinkInv
<1>2. ASSUME NEW e \in unoffered, Offer(e) PROVE SinkInv'
  <2>1. /\ unoffered' = unoffered \ {e} /\ queue' \in {queue, Append(queue, e)}
        /\ UNCHANGED <<written, worker, mark, markFile, received>>
    BY <1>2 DEF Offer
  <2>2. Logged(queue')
    <3>1. e \in 0..written
      BY <1>t
    <3>2. Logged(Append(queue, e))
      BY <1>t, <3>1, LoggedAppend
    <3> QED BY <1>t, <2>1, <3>2
  <2>3. SinkTypes' /\ WaitingInv'
    BY <1>t, <2>1, <2>2 DEF SinkInv, SinkTypes, WaitingInv, Logged
  <2>4. PrefixInv' /\ BatchInv'
    BY <1>t, <2>1 DEF SinkInv, PrefixInv, BatchInv, Follows
  <2> QED BY <2>3, <2>4 DEF SinkInv
<1>3. ASSUME Receive PROVE SinkInv'
  <2> DEFINE pending == Append(worker.pending, Head(queue))
  <2>1. /\ worker.at = "select" /\ queue # <<>> /\ queue' = Tail(queue)
        /\ worker' = [worker EXCEPT !.pending = pending,
                         !.at = IF Len(pending) >= BatchSize THEN "flush" ELSE "select"]
        /\ UNCHANGED <<written, unoffered, mark, markFile, received>>
    BY <1>3 DEF Receive, World
  <2>2. Len(queue) # 0
    BY <1>t, <2>1, EmptySeq
  <2>3. Head(queue) \in 0..written
    <3>1. Head(queue) \in Nat /\ Head(queue) = queue[1] /\ 1 \in 1..Len(queue)
      BY <1>t, <2>1, <2>2, HeadTailProperties
    <3> QED BY <1>t, <3>1 DEF Logged
  <2>4. Logged(pending) /\ Len(pending) = Len(worker.pending) + 1
    BY <1>t, <2>3, LoggedAppend
  <2>5. Logged(queue')
    <3>1. queue' = SubSeq(queue, 2, Len(queue))
      BY <1>t, <2>1, TailIsSubSeq
    <3>2. Logged(SubSeq(queue, 2, Len(queue)))
      BY <1>t, <2>2, LoggedSubSeq
    <3> QED BY <3>1, <3>2
  <2>6. Len(worker.pending) < BatchSize
    BY <2>1 DEF SinkInv, WaitingInv
  <2> HIDE DEF pending
  <2>7. /\ worker' \in Worker /\ worker'.pending = pending
        /\ worker'.at = IF Len(pending) >= BatchSize THEN "flush" ELSE "select"
    BY <1>t, <2>1, <2>4 DEF Worker, WorkerStage, Logged
  <2>8. SinkTypes' /\ PrefixInv' /\ BatchInv'
    BY <1>t, <2>1, <2>7 DEF SinkTypes, PrefixInv, BatchInv
  <2>9. WaitingInv'
    BY <1>t, <2>1, <2>4, <2>5, <2>6, <2>7 DEF WaitingInv, Logged
  <2> QED BY <2>8, <2>9 DEF SinkInv
<1>4. ASSUME Tick \/ SendHeartbeat \/ Stop PROVE SinkInv'
  <2>1. /\ worker.at = "select"
        /\ worker' \in {worker, [worker EXCEPT !.at = "flush"],
                        [worker EXCEPT !.at = "flush", !.stopping = TRUE]}
        /\ UNCHANGED <<written, unoffered, queue, mark, markFile, received>>
    BY <1>4 DEF Tick, SendHeartbeat, Stop, World
  <2>2. /\ worker' \in Worker /\ worker'.pending = worker.pending
        /\ worker'.at \in {"select", "flush"}
    BY <1>t, <2>1 DEF Worker, WorkerStage
  <2> QED BY <2>1, <2>2, WorkerMoves
<1>5. ASSUME BackoffOver \/ UNCHANGED sinkVars PROVE SinkInv'
  <2>1. UNCHANGED <<written, unoffered, queue, worker, mark, markFile, received>>
    BY <1>5 DEF BackoffOver, World, sinkVars
  <2> QED BY <2>1 DEF SinkInv, SinkTypes, WaitingInv, PrefixInv, BatchInv, Logged, Follows
<1>6. ASSUME Flush PROVE SinkInv'
  <2> DEFINE room    == BatchSize - Len(worker.pending)
             taken   == IF room < Len(queue) THEN room ELSE Len(queue)
             pending == worker.pending \o SubSeq(queue, 1, taken)
             usable  == UsableBatch(pending)
             send    == [worker EXCEPT !.at = "post", !.pending = <<>>,
                           !.batch = usable.batch, !.path = "queue"]
             read    == [worker EXCEPT !.at = "catchup", !.pending = <<>>]
  <2>1. /\ queue' = SubSeq(queue, taken + 1, Len(queue))
        /\ \/ worker' = Rest(worker)
           \/ worker' = read
           \/ usable.ok /\ usable.batch # <<>> /\ worker' = send
        /\ UNCHANGED <<written, unoffered, mark, markFile, received>>
    BY <1>6 DEF Flush, World
  <2>2. taken \in 0..Len(queue)
    BY <1>t
  <2> HIDE DEF taken
  <2>3. Logged(queue') /\ Logged(pending)
    <3>1. Logged(SubSeq(queue, taken + 1, Len(queue)))
      BY <1>t, <2>2, LoggedSubSeq
    <3>2. Logged(SubSeq(queue, 1, taken))
      BY <1>t, <2>2, LoggedSubSeq
    <3>3. Logged(pending)
      BY <1>t, <3>2, LoggedConcat
    <3> QED BY <2>1, <3>1, <3>3
  <2> HIDE DEF pending, usable
  <2>4. CASE worker' = Rest(worker)
    BY <1>r, <2>1, <2>3, <2>4, LetGo DEF Logged
  <2>5. CASE worker' = read
    <3>1. worker' \in Worker /\ worker'.pending = <<>> /\ worker'.at = "catchup"
      BY <1>t, <2>5, EmptySeq DEF Worker, WorkerStage
    <3> QED BY <2>1, <2>3, <3>1, LetGo DEF Logged
  <2>6. CASE usable.ok /\ usable.batch # <<>> /\ worker' = send
    <3>1. usable.batch \in Seq(Nat) /\ Follows(usable.batch, mark.seq)
      BY <2>3, <2>6, UsableFollows DEF usable, SinkInv
    <3>2. /\ worker' \in Worker /\ worker'.pending = <<>> /\ worker'.at = "post"
          /\ worker'.batch = usable.batch
      BY <1>t, <2>6, <3>1, EmptySeq DEF Worker, WorkerStage
    <3>3. SinkTypes' /\ PrefixInv' /\ BatchInv'
      BY <1>t, <2>1, <3>1, <3>2 DEF SinkTypes, PrefixInv, BatchInv, Follows
    <3>4. WaitingInv'
      BY <1>t, <2>1, <2>3, <3>2, EmptySeq DEF WaitingInv, Logged
    <3> QED BY <3>3, <3>4 DEF SinkInv
  <2> QED BY <2>1, <2>4, <2>5, <2>6
<1>7. ASSUME CatchUp PROVE SinkInv'
  <2> DEFINE n    == IF written - mark.seq < BatchSize THEN written - mark.seq ELSE BatchSize
             page == [i \in 1..n |-> mark.seq + i]
             send == [worker EXCEPT !.at = "post", !.batch = page, !.path = "log"]
  <2>1. /\ UNCHANGED <<written, unoffered, received, queue, mark, markFile>>
        /\ worker.at = "catchup"
        /\ \/ worker' = [worker EXCEPT !.at = "level"]
           \/ mark.seq < written /\ worker' = send
           \/ worker' = Rest(worker)
    BY <1>7 DEF CatchUp, Fail, World
  <2>2. CASE worker' = [worker EXCEPT !.at = "level"]
    <3>1. worker' \in Worker /\ worker'.pending = worker.pending /\ worker'.at = "level"
      BY <1>t, <2>2 DEF Worker, WorkerStage
    <3> QED BY <1>t, <2>1, <3>1 DEF SinkInv, SinkTypes, WaitingInv, PrefixInv, BatchInv, Logged
  <2>3. CASE mark.seq < written /\ worker' = send
    <3>1. n \in Nat \ {0} /\ mark.seq + n <= written
      BY <1>t, <2>3
    <3> HIDE DEF n
    <3>2. page \in Seq(Nat) /\ Follows(page, mark.seq)
      BY <3>1, PageFollows DEF SinkInv
    <3> HIDE DEF page
    <3>3. /\ worker' \in Worker /\ worker'.pending = worker.pending /\ worker'.at = "post"
          /\ worker'.batch = page
      BY <1>t, <2>3, <3>2 DEF Worker, WorkerStage
    <3>4. SinkTypes' /\ WaitingInv' /\ PrefixInv'
      BY <1>t, <2>1, <3>3 DEF SinkInv, SinkTypes, WaitingInv, PrefixInv, Logged
    <3>5. BatchInv'
      BY <1>t, <2>1, <3>2, <3>3 DEF BatchInv, Follows
    <3> QED BY <3>4, <3>5 DEF SinkInv
  <2>4. CASE worker' = Rest(worker)
    BY <1>t, <1>r, <2>1, <2>4, LetGo DEF Logged
  <2> QED BY <2>1, <2>2, <2>3, <2>4
<1>8. ASSUME Level PROVE SinkInv'
  <2>1. UNCHANGED <<written, unoffered, received, queue, mark, markFile>> /\ worker' = Rest(worker)
    BY <1>8 DEF Level, World
  <2> QED BY <1>t, <1>r, <2>1, LetGo DEF Logged
<1>9. ASSUME Post PROVE SinkInv'
  <2>1. /\ UNCHANGED <<written, unoffered, queue, mark, markFile>> /\ worker.at = "post"
        /\ \/ /\ received' = received \cup {worker.batch[i] : i \in 1..Len(worker.batch)}
              /\ worker' \in {[worker EXCEPT !.at = "mark"], Rest(worker)}
           \/ received' = received /\ worker' = Rest(worker)
    BY <1>9 DEF Post, Fail
  <2>2. CASE received' = received /\ worker' = Rest(worker)
    BY <1>t, <1>r, <2>1, <2>2, LetGo DEF Logged
  <2>3. CASE received' = received \cup {worker.batch[i] : i \in 1..Len(worker.batch)}
    <3>1. /\ BatchEnd \in 1..written /\ 1..BatchEnd \subseteq received'
          /\ received' = received \/ (BatchEnd \notin received /\ received' = 1..BatchEnd)
      BY <2>1, <2>3, SendingExtends
    <3>2. CASE worker' = Rest(worker)
      BY <1>t, <1>r, <2>1, <3>1, <3>2, LetGo DEF Logged
    <3>3. CASE worker' = [worker EXCEPT !.at = "mark"]
      <4>1. /\ worker' \in Worker /\ worker'.pending = worker.pending /\ worker'.at = "mark"
            /\ worker'.batch = worker.batch
        BY <1>t, <3>3 DEF Worker, WorkerStage
      <4>2. SinkTypes' /\ WaitingInv'
        BY <1>t, <2>1, <4>1 DEF SinkInv, SinkTypes, WaitingInv, Logged
      <4>3. PrefixInv'
        <5>1. PICK n \in 0..written : received = 1..n /\ mark.seq <= n /\ markFile <= n
          BY <1>t
        <5>2. BatchEnd \notin received => n < BatchEnd
          BY <3>1, <5>1
        <5> QED BY <1>t, <2>1, <3>1, <5>1, <5>2 DEF PrefixInv
      <4>4. BatchInv'
        BY <2>1, <3>1, <4>1 DEF SinkInv, BatchInv, Follows, BatchEnd
      <4> QED BY <4>2, <4>3, <4>4 DEF SinkInv
    <3> QED BY <2>1, <2>3, <3>2, <3>3
  <2> QED BY <2>1, <2>2, <2>3
<1>10. ASSUME SetMark PROVE SinkInv'
  <2> DEFINE size == Len(worker.batch)
             last == worker.batch[size]
  <2>1. /\ UNCHANGED <<written, unoffered, received, queue>> /\ worker.at = "mark"
        /\ \/ /\ markFile' = last /\ mark' = [seq |-> last, joined |-> TRUE]
              /\ worker' \in {Rest(worker), [worker EXCEPT !.at = "level", !.batch = <<>>],
                              [worker EXCEPT !.at = "catchup", !.batch = <<>>]}
           \/ UNCHANGED <<mark, markFile>> /\ worker' = Rest(worker)
    BY <1>10 DEF SetMark, Fail, World
  <2>2. CASE UNCHANGED <<mark, markFile>> /\ worker' = Rest(worker)
    BY <1>t, <1>r, <2>1, <2>2, LetGo DEF Logged
  <2>3. CASE /\ markFile' = last /\ mark' = [seq |-> last, joined |-> TRUE]
             /\ worker' \in {Rest(worker), [worker EXCEPT !.at = "level", !.batch = <<>>],
                             [worker EXCEPT !.at = "catchup", !.batch = <<>>]}
    <3>1. size \in Nat \ {0} /\ last = mark.seq + size /\ 1..last \subseteq received
      <4>1. Follows(worker.batch, mark.seq) /\ 1..(mark.seq + size) \subseteq received
        BY <2>1 DEF SinkInv, BatchInv
      <4>2. size \in Nat \ {0}
        BY <1>t, <4>1, EmptySeq, LenProperties DEF Follows, Worker
      <4>3. last = mark.seq + size
        BY <4>1, <4>2 DEF Follows
      <4> QED BY <4>1, <4>2, <4>3
    <3> HIDE DEF last, size
    <3>2. /\ worker' \in Worker /\ worker'.pending \in {<<>>, worker.pending}
          /\ worker'.at \notin {"post", "mark"}
          /\ worker'.at = "select" => worker'.pending = <<>>
      BY <1>t, <1>r, <2>3, EmptySeq DEF Worker, WorkerStage
    <3>3. last \in Nat /\ last \in received
      BY <1>t, <3>1
    <3>4. SinkTypes' /\ BatchInv'
      BY <1>t, <2>1, <2>3, <3>2, <3>3 DEF SinkTypes, BatchInv
    <3>5. PrefixInv'
      BY <1>t, <2>1, <2>3, <3>3 DEF PrefixInv
    <3>6. WaitingInv'
      <4>1. Logged(<<>>) /\ Len(<<>>) = 0
        BY EmptySeq DEF Logged
      <4>2. /\ Logged(worker'.pending) /\ Len(worker'.pending) <= BatchSize
            /\ worker'.at = "select" => Len(worker'.pending) < BatchSize
        BY <1>t, <3>2, <4>1
      <4> QED BY <1>t, <2>1, <4>2 DEF WaitingInv, Logged
    <3> QED BY <3>4, <3>5, <3>6 DEF SinkInv
  <2> QED BY <2>1, <2>2, <2>3
<1>11. ASSUME Crash PROVE SinkInv'
  <2>1. UNCHANGED <<written, unoffered, received, queue, mark, markFile>> /\ worker' = Down
    BY <1>11 DEF Crash
  <2>2. Down \in Worker /\ Down.pending = <<>> /\ Down.at = "down"
    BY EmptySeq DEF Down, IdleWorker, Worker, WorkerStage
  <2> QED BY <1>t, <2>1, <2>2, LetGo DEF Logged
<1>12. ASSUME Restart PROVE SinkInv'
  <2>1. /\ worker' = IdleWorker /\ queue' = <<>> /\ unoffered' = {}
        /\ UNCHANGED <<written, received>> /\ markFile' \in {0, markFile}
        /\ mark' \in [seq : {0, markFile}, joined : BOOLEAN] /\ mark'.seq = markFile'
    <3>1. PICK seq \in {0, markFile} :
            /\ \E joined \in {TRUE, seq = 0} : mark' = [seq |-> seq, joined |-> joined]
            /\ markFile' = seq
      BY <1>12 DEF Restart
    <3>2. PICK joined \in BOOLEAN : mark' = [seq |-> seq, joined |-> joined]
      BY <3>1
    <3> QED BY <1>12, <3>1, <3>2 DEF Restart
  <2>2. /\ IdleWorker \in Worker /\ IdleWorker.pending = <<>> /\ IdleWorker.at = "select"
        /\ <<>> \in Seq(Nat) /\ Len(<<>>) = 0
    BY EmptySeq DEF IdleWorker, Worker, WorkerStage
  <2>3. SinkTypes' /\ BatchInv' /\ PrefixInv'
    BY <1>t, <2>1, <2>2 DEF SinkTypes, BatchInv, PrefixInv
  <2>4. WaitingInv'
    BY <1>t, <2>1, <2>2 DEF WaitingInv, Logged
  <2> QED BY <2>3, <2>4 DEF SinkInv
<1> QED
  BY <1>1, <1>2, <1>3, <1>4, <1>5, <1>6, <1>7, <1>8, <1>9, <1>10, <1>11, <1>12
  DEF SinkNext, Work

-----------------------------------------------------------------------------
(* The theorem.                                                            *)

\* Each step of the exporter is a step of the witness or none.
LEMMA SinkStepWitnesses == SinkInv /\ [SinkNext]_sinkVars => [W!WitnessNext]_(W!witnessVars)
<1> SUFFICES ASSUME SinkInv, [SinkNext]_sinkVars
             PROVE  [W!WitnessNext]_(W!witnessVars)
  OBVIOUS
<1>1. CASE AppendEntry
  BY <1>1 DEF AppendEntry, W!WitnessNext, W!WriteEntry
<1>2. CASE Post
  <2>1. written' = written /\ worker.at = "post"
        /\ \/ received' = received
           \/ received' = received \cup {worker.batch[i] : i \in 1..Len(worker.batch)}
    BY <1>2 DEF Post
  <2>2. CASE received' = received
    BY <2>1, <2>2 DEF W!witnessVars
  <2>3. CASE received' = received \cup {worker.batch[i] : i \in 1..Len(worker.batch)}
    <3>1. /\ BatchEnd \in 1..written
          /\ received' = received \/ (BatchEnd \notin received /\ received' = 1..BatchEnd)
      BY <2>1, <2>3, SendingExtends
    <3> QED BY <2>1, <3>1 DEF W!WitnessNext, W!TakePrefix, W!witnessVars
  <2> QED BY <2>1, <2>2, <2>3
<1>3. CASE ~AppendEntry /\ ~Post
  <2>1. UNCHANGED <<written, received>>
    BY <1>3 DEF SinkNext, Work, Offer, Receive, Tick, Flush, CatchUp, Level, SetMark,
                BackoffOver, SendHeartbeat, Stop, Crash, Restart, World, sinkVars
  <2> QED BY <2>1 DEF W!witnessVars
<1> QED BY <1>1, <1>2, <1>3

\* The invariant holds of every behaviour of the exporter.
LEMMA SinkInvHolds == SinkSpec => []SinkInv
<1>1. SinkInv /\ [SinkNext]_sinkVars => SinkInv'
  BY SinkStep
<1> QED BY SinkInitInv, <1>1, PTL DEF SinkSpec

\* The exporter implements the witness: no full queue, entries offered out of order,
\* failed or half-acknowledged POST, lost watermark, crash or restart leaves a hole in
\* what the receiver holds (catchUp, usableBatch, watermark.set).
THEOREM ShipperWitnesses == SinkSpec => NoHoles
<1>1. SinkInit => W!WitnessInit
  BY DEF SinkInit, W!WitnessInit
<1>2. SinkInv /\ [SinkNext]_sinkVars => [W!WitnessNext]_(W!witnessVars)
  BY SinkStepWitnesses
<1> QED BY <1>1, <1>2, SinkInvHolds, PTL DEF SinkSpec, NoHoles, W!WitnessSpec

-----------------------------------------------------------------------------
(***************************************************************************)
(* Nothing but a subject pending deletion is purged, a request marked      *)
(* purged is true of the subject and of the audit trail, and the replicas  *)
(* do the work of one.                                                     *)
(*                                                                         *)
(* The trail is the hard part.  The sweep empties it before it purges, so a *)
(* handler that is between its change and its audit entry would put the    *)
(* subject's name back.  The invariant says why there is none: a request   *)
(* falls due when no handler is under way, and while it is pending no other *)
(* can be filed, so nothing that leads to an entry about a deleted subject *)
(* can start.                                                              *)
(***************************************************************************)

HandlerStage == {"idle", "create", "soft delete", "cancel", "restore", "audit", "done"}

HandlerState == [stage : HandlerStage, kind : HandlerKinds, found : Handlers \cup {None}]

SweepStage == {"idle", "list", "next", "erase", "purge", "mark", "record", "release"}

SweeperState == [stage : SweepStage, list : SUBSET Handlers, at : Handlers \cup {None}]

ErasureTypes ==
    /\ subject \in {"active", "locked", "deleted", "absent"}
    /\ erasure \in [Handlers -> {None, "pending", "cancelled", "purged"}]
    /\ dueNow \subseteq Handlers
    /\ deferred \in BOOLEAN
    /\ handler \in [Handlers -> HandlerState]
    /\ lockKind \in {"lease", "session", "unpinned"}
    /\ sweepLock \in Replicas \cup {None}
    /\ sweeper \in [Replicas -> SweeperState]

\* A handler that has not filed its request has none, what is due was filed, and one
\* request is pending at most.
FiledInv ==
    /\ \A h \in Handlers :
         /\ handler[h].stage \in {"idle", "create"} => erasure[h] = None
         /\ handler[h].stage = "cancel" => handler[h].found \in Handlers
    /\ \A e \in dueNow : erasure[e] # None
    /\ \A d, e \in Handlers : erasure[d] = "pending" /\ erasure[e] = "pending" => d = e

\* A sweep works on requests that were due when it listed them.
ListInv ==
    \A p \in Replicas :
        /\ sweeper[p].list \subseteq dueNow
        /\ sweeper[p].stage \in {"erase", "purge", "mark", "record"} => sweeper[p].at \in dueNow

\* While a due request is pending, no handler is about to delete or restore the
\* subject, and none is about to write of one that is deleted.
DueInv ==
    deferred =>
        \A e \in dueNow : erasure[e] = "pending" =>
            \A h \in Handlers :
                /\ handler[h].stage \notin {"soft delete", "restore"}
                /\ handler[h].stage = "audit" => subject \in {"active", "locked"}

\* How far a sweep of a request has come, and what that says of subject and trail.
GoneInv ==
    /\ \A p \in Replicas :
         /\ sweeper[p].stage = "mark" => subject = "absent"
         /\ deferred /\ sweeper[p].stage \in {"purge", "mark"}
              /\ erasure[sweeper[p].at] = "pending" =>
                trail = {} \/ subject \in {"active", "locked"}
    /\ \A e \in Handlers : erasure[e] = "purged" =>
         /\ subject = "absent"
         /\ deferred => trail = {} /\ \A h \in Handlers : handler[h].stage # "audit"

\* The replica that sweeps is the one the lock belongs to.
OwnerInv ==
    lockKind # "unpinned" => \A p \in Replicas : Sweeping(p) => sweepLock = p

\* A sweep about to report a purge is alone in it, and the purge is not reported yet.
ReportInv ==
    /\ \A x \in recorded : x.request \in Handlers /\ erasure[x.request] = "purged"
    /\ \A p \in Replicas : sweeper[p].stage = "record" =>
         /\ erasure[sweeper[p].at] = "purged"
         /\ \A x \in recorded : x.request # sweeper[p].at
         /\ \A q \in Replicas : sweeper[q].stage = "record" /\ sweeper[q].at = sweeper[p].at => p = q

ErasureInv ==
    /\ ErasureTypes /\ FiledInv /\ ListInv /\ DueInv /\ GoneInv /\ OwnerInv /\ ReportInv
    /\ OnlyDeletedIsPurged /\ RecordedOnce

-----------------------------------------------------------------------------
(* The steps of the handlers.                                              *)

\* The invariant holds at the start.
LEMMA ErasureInitInv == ErasureInit => ErasureInv
<1> SUFFICES ASSUME ErasureInit PROVE ErasureInv
  OBVIOUS
<1> USE DEF ErasureInit, IdleSweeper
<1>1. ErasureTypes
  <2>1. handler \in [Handlers -> HandlerState]
    BY DEF HandlerState, HandlerStage
  <2>2. sweeper \in [Replicas -> SweeperState]
    BY DEF SweeperState, SweepStage
  <2> QED BY <2>1, <2>2 DEF ErasureTypes
<1>2. FiledInv /\ ListInv /\ DueInv /\ GoneInv
  BY DEF FiledInv, ListInv, DueInv, GoneInv, None
<1>3. OwnerInv /\ ReportInv /\ OnlyDeletedIsPurged /\ RecordedOnce
  BY DEF OwnerInv, Sweeping, ReportInv, OnlyDeletedIsPurged, RecordedOnce
<1> QED BY <1>1, <1>2, <1>3 DEF ErasureInv

\* A handler that moves on changes its own stage only.
LEMMA MoveEffect ==
    ASSUME handler \in [Handlers -> HandlerState], NEW h \in Handlers,
           NEW to \in HandlerStage, Move(h, to)
    PROVE  /\ handler' \in [Handlers -> HandlerState]
           /\ handler'[h].stage = to /\ handler'[h].found = handler[h].found
           /\ \A g \in Handlers \ {h} : handler'[g] = handler[g]
BY DEF Move, HandlerState

\* What the handlers never touch is the janitors' own: their invariants stand as long
\* as requests only fall due and those marked purged stay so.
LEMMA JanitorsStand ==
    ASSUME ErasureInv, UNCHANGED Janitors, dueNow \subseteq dueNow',
           \A e \in Handlers : erasure[e] = "purged" => erasure'[e] = "purged"
    PROVE  ListInv' /\ OwnerInv' /\ ReportInv' /\ OnlyDeletedIsPurged' /\ RecordedOnce'
<1>t. /\ UNCHANGED <<lockKind, sweepLock, sweeper, purges, recorded>>
      /\ dueNow \subseteq Handlers
  BY DEF Janitors, ErasureInv, ErasureTypes
<1>1. ListInv' /\ OwnerInv'
  BY <1>t DEF ErasureInv, ListInv, OwnerInv, Sweeping
<1>2. ReportInv'
  BY <1>t DEF ErasureInv, ListInv, ReportInv
<1>3. OnlyDeletedIsPurged' /\ RecordedOnce'
  BY <1>t DEF ErasureInv, OnlyDeletedIsPurged, RecordedOnce
<1> QED BY <1>1, <1>2, <1>3

\* Each store call of a handler keeps the invariant, and so does the end of a
\* retention window.
LEMMA HandlersKeep ==
    ASSUME ErasureInv, NEW h \in Handlers, Handle(h) \/ Elapse(h)
    PROVE  ErasureInv'
<1>t. /\ ErasureTypes /\ FiledInv /\ ListInv /\ DueInv /\ GoneInv
      /\ handler \in [Handlers -> HandlerState] /\ dueNow \subseteq Handlers
      /\ erasure \in [Handlers -> {None, "pending", "cancelled", "purged"}]
      /\ subject \in {"active", "locked", "deleted", "absent"} /\ deferred \in BOOLEAN
      /\ None \notin {"pending", "cancelled", "purged"}
  BY DEF ErasureInv, ErasureTypes, None
<1>j. UNCHANGED Janitors
  BY DEF Handle, ChangeStatus, FindSubject, Create, SoftDelete, FindErasure, Cancel, Restore,
         Audit, Elapse
<1>k. UNCHANGED <<lockKind, sweepLock, sweeper>>
  BY <1>j DEF Janitors
<1> USE DEF HandlerStage
<1>1. ASSUME ChangeStatus(h) PROVE ErasureInv'
  <2>1. /\ handler[h].stage = "idle" /\ UNCHANGED <<erasure, dueNow, deferred, trail>>
        /\ \/ /\ subject \in {"active", "locked"} /\ subject' \in {"active", "locked"}
              /\ Move(h, "audit")
           \/ Move(h, "done") /\ UNCHANGED subject
    BY <1>1 DEF ChangeStatus
  <2>2. PICK to \in {"audit", "done"} :
          Move(h, to) /\ (to = "audit" => {subject, subject'} \subseteq {"active", "locked"})
                         /\ (to = "done" => subject' = subject)
    BY <2>1
  <2>3. /\ handler' \in [Handlers -> HandlerState] /\ handler'[h].stage = to
        /\ \A g \in Handlers \ {h} : handler'[g] = handler[g]
    BY <1>t, <2>2, MoveEffect
  <2>4. subject' = subject \/ {subject, subject'} \subseteq {"active", "locked"}
    BY <2>2
  <2>5. ErasureTypes' /\ FiledInv'
    BY <1>t, <1>k, <2>1, <2>2, <2>3 DEF ErasureTypes, FiledInv
  <2>6. DueInv'
    BY <1>t, <2>1, <2>2, <2>3, <2>4 DEF DueInv
  <2>7. GoneInv'
    BY <1>t, <1>k, <2>1, <2>2, <2>3, <2>4 DEF GoneInv
  <2> QED BY <1>j, <2>1, <2>5, <2>6, <2>7, JanitorsStand DEF ErasureInv
<1>2. ASSUME FindSubject(h) PROVE ErasureInv'
  <2>1. /\ handler[h].stage = "idle" /\ UNCHANGED <<subject, erasure, dueNow, deferred, trail>>
        /\ \E to \in {"create", "done"} : Move(h, to)
    BY <1>2 DEF FindSubject
  <2>2. /\ handler' \in [Handlers -> HandlerState] /\ handler'[h].stage \in {"create", "done"}
        /\ \A g \in Handlers \ {h} : handler'[g] = handler[g]
    BY <1>t, <2>1, MoveEffect
  <2>3. ErasureTypes' /\ FiledInv' /\ DueInv' /\ GoneInv'
    BY <1>t, <1>k, <2>1, <2>2 DEF ErasureTypes, FiledInv, DueInv, GoneInv
  <2> QED BY <1>j, <2>1, <2>3, JanitorsStand DEF ErasureInv
<1>3. ASSUME Create(h) PROVE ErasureInv'
  <2>1. handler[h].stage = "create" /\ UNCHANGED <<subject, deferred, trail>>
    BY <1>3 DEF Create
  <2>2. CASE ~Creatable
    <3>1. Move(h, "done") /\ UNCHANGED <<erasure, dueNow>>
      BY <1>3, <2>2 DEF Create
    <3>2. /\ handler' \in [Handlers -> HandlerState] /\ handler'[h].stage = "done"
          /\ \A g \in Handlers \ {h} : handler'[g] = handler[g]
      BY <1>t, <3>1, MoveEffect
    <3>3. ErasureTypes' /\ FiledInv' /\ DueInv' /\ GoneInv'
      BY <1>t, <1>k, <2>1, <3>1, <3>2 DEF ErasureTypes, FiledInv, DueInv, GoneInv
    <3> QED BY <1>j, <3>1, <3>3, JanitorsStand DEF ErasureInv
  <2>3. CASE Creatable
    <3>1. /\ erasure' = [erasure EXCEPT ![h] = "pending"] /\ Move(h, "soft delete")
          /\ dueNow' = IF deferred THEN dueNow ELSE dueNow \cup {h}
          /\ \A e \in Handlers : erasure[e] # "pending"
      BY <1>3, <2>3 DEF Create, Creatable, Pending
    <3>2. /\ handler' \in [Handlers -> HandlerState] /\ handler'[h].stage = "soft delete"
          /\ \A g \in Handlers \ {h} : handler'[g] = handler[g]
      BY <1>t, <3>1, MoveEffect
    <3>3. erasure[h] = None /\ h \notin dueNow
      BY <1>t, <2>1 DEF FiledInv
    <3>4. /\ erasure'[h] = "pending" /\ \A e \in Handlers \ {h} : erasure'[e] = erasure[e]
          /\ dueNow \subseteq dueNow' /\ dueNow' \subseteq dueNow \cup {h}
          /\ deferred => dueNow' = dueNow
      BY <1>t, <3>1
    <3>5. ErasureTypes'
      BY <1>t, <1>k, <2>1, <3>1, <3>2, <3>4 DEF ErasureTypes
    <3>6. FiledInv'
      BY <1>t, <3>1, <3>2, <3>4 DEF FiledInv
    <3>7. DueInv'
      BY <1>t, <2>1, <3>1, <3>3, <3>4 DEF DueInv
    <3>8. GoneInv'
      <4>1. \A p \in Replicas : sweeper[p].stage \in {"purge", "mark"} => erasure'[sweeper[p].at] # "pending"
        BY <1>t, <3>1, <3>3, <3>4 DEF ListInv
      <4>2. \A p \in Replicas : sweeper[p].stage = "mark" => subject' = "absent"
        BY <1>t, <2>1 DEF GoneInv
      <4>3. \A e \in Handlers : erasure'[e] = "purged" => erasure[e] = "purged"
        BY <3>4
      <4>4. \A e \in Handlers : erasure'[e] = "purged" =>
              /\ subject' = "absent"
              /\ deferred' => trail' = {} /\ \A g \in Handlers : handler'[g].stage # "audit"
        BY <1>t, <2>1, <3>2, <4>3 DEF GoneInv
      <4> QED BY <1>k, <4>1, <4>2, <4>4 DEF GoneInv
    <3> QED BY <1>t, <1>j, <3>3, <3>4, <3>5, <3>6, <3>7, <3>8, JanitorsStand DEF ErasureInv
  <2> QED BY <2>2, <2>3
<1>4. ASSUME SoftDelete(h) PROVE ErasureInv'
  <2>1. /\ handler[h].stage = "soft delete" /\ UNCHANGED <<erasure, dueNow, deferred, trail>>
        /\ \E to \in {"audit", "done"} :
             Move(h, to) /\ (subject = "absent" => to = "done")
        /\ subject' \in {"deleted", "absent", subject}
        /\ subject = "absent" <=> subject' = "absent"
    BY <1>4, <1>t DEF SoftDelete
  <2>2. /\ handler' \in [Handlers -> HandlerState] /\ handler'[h].stage \in {"audit", "done"}
        /\ subject = "absent" => handler'[h].stage = "done"
        /\ \A g \in Handlers \ {h} : handler'[g] = handler[g]
    BY <1>t, <2>1, MoveEffect
  <2>3. deferred => \A e \in dueNow : erasure[e] # "pending"
    BY <1>t, <2>1 DEF DueInv
  <2>4. ErasureTypes' /\ FiledInv' /\ DueInv'
    BY <1>t, <1>k, <2>1, <2>2, <2>3 DEF ErasureTypes, FiledInv, DueInv
  <2>5. GoneInv'
    BY <1>t, <1>k, <2>1, <2>2, <2>3 DEF GoneInv, ListInv
  <2> QED BY <1>j, <2>1, <2>4, <2>5, JanitorsStand DEF ErasureInv
<1>5. ASSUME FindErasure(h) PROVE ErasureInv'
  <2>1. /\ handler[h].stage = "idle" /\ UNCHANGED <<subject, erasure, dueNow, deferred, trail>>
        /\ handler' = [handler EXCEPT
             ![h] = IF Pending = {} THEN [handler[h] EXCEPT !.stage = "done"]
                    ELSE [handler[h] EXCEPT !.stage = "cancel",
                                            !.found = CHOOSE e \in Pending : TRUE]]
    BY <1>5, <1>t DEF FindErasure
  <2>2. Pending # {} => (CHOOSE e \in Pending : TRUE) \in Handlers
    BY DEF Pending
  <2>3. /\ handler' \in [Handlers -> HandlerState] /\ handler'[h].stage \in {"cancel", "done"}
        /\ handler'[h].stage = "cancel" => handler'[h].found \in Handlers
        /\ \A g \in Handlers \ {h} : handler'[g] = handler[g]
    <3>1. CASE Pending = {}
      BY <1>t, <2>1, <3>1 DEF HandlerState
    <3>2. CASE Pending # {}
      <4> DEFINE picked == CHOOSE e \in Pending : TRUE
                 next == [handler[h] EXCEPT !.stage = "cancel", !.found = picked]
      <4>1. handler' = [handler EXCEPT ![h] = next]
        BY <2>1, <3>2
      <4>2. picked \in Handlers
        BY <2>2, <3>2
      <4> HIDE DEF picked
      <4>3. next \in HandlerState /\ next.stage = "cancel" /\ next.found = picked
        BY <1>t, <4>2 DEF HandlerState
      <4> HIDE DEF next
      <4> QED BY <1>t, <4>1, <4>2, <4>3
    <3> QED BY <3>1, <3>2
  <2>4. UNCHANGED <<subject, erasure, dueNow, deferred, trail, lockKind, sweepLock, sweeper>>
    BY <1>k, <2>1
  <2>5. ErasureTypes' /\ FiledInv'
    <3>1. ErasureTypes'
      BY <1>t, <2>3, <2>4 DEF ErasureTypes
    <3>2. \A g \in Handlers : handler'[g].stage \in {"idle", "create"} => handler[g] = handler'[g]
      BY <2>3
    <3>3. \A g \in Handlers : handler'[g].stage = "cancel" => handler'[g].found \in Handlers
      BY <1>t, <2>3 DEF FiledInv
    <3>4. FiledInv'
      BY <1>t, <2>4, <3>2, <3>3 DEF FiledInv
    <3> QED BY <3>1, <3>4
  <2>6. DueInv' /\ GoneInv'
    BY <1>t, <2>3, <2>4 DEF DueInv, GoneInv
  <2> QED BY <1>j, <2>4, <2>5, <2>6, JanitorsStand DEF ErasureInv
<1>6. ASSUME Cancel(h) PROVE ErasureInv'
  <2> DEFINE e == handler[h].found
  <2>1. /\ handler[h].stage = "cancel" /\ UNCHANGED <<subject, dueNow, deferred, trail>>
        /\ e \in Handlers
    BY <1>6, <1>t DEF Cancel, FiledInv
  <2> HIDE DEF e
  <2>2. CASE erasure[e] # "pending"
    <3>1. Move(h, "done") /\ UNCHANGED erasure
      BY <1>6, <2>2 DEF Cancel, e
    <3>2. /\ handler' \in [Handlers -> HandlerState] /\ handler'[h].stage = "done"
          /\ \A g \in Handlers \ {h} : handler'[g] = handler[g]
      BY <1>t, <3>1, MoveEffect
    <3>3. ErasureTypes' /\ FiledInv' /\ DueInv' /\ GoneInv'
      BY <1>t, <1>k, <2>1, <3>1, <3>2 DEF ErasureTypes, FiledInv, DueInv, GoneInv
    <3> QED BY <1>j, <2>1, <3>1, <3>3, JanitorsStand DEF ErasureInv
  <2>3. CASE erasure[e] = "pending"
    <3>1. erasure' = [erasure EXCEPT ![e] = "cancelled"] /\ Move(h, "restore")
      BY <1>6, <2>3 DEF Cancel, e
    <3>2. /\ handler' \in [Handlers -> HandlerState] /\ handler'[h].stage = "restore"
          /\ \A g \in Handlers \ {h} : handler'[g] = handler[g]
      BY <1>t, <3>1, MoveEffect
    <3>3. /\ erasure'[e] = "cancelled" /\ \A d \in Handlers \ {e} : erasure'[d] = erasure[d]
          /\ \A d \in Handlers : erasure'[d] # "pending"
      <4>1. /\ erasure'[e] = "cancelled" /\ \A d \in Handlers \ {e} : erasure'[d] = erasure[d]
        BY <1>t, <2>1, <3>1
      <4>2. \A d \in Handlers \ {e} : erasure[d] # "pending"
        BY <1>t, <2>1, <2>3 DEF FiledInv
      <4> QED BY <4>1, <4>2
    <3>4. ErasureTypes'
      BY <1>t, <1>k, <2>1, <3>1, <3>2 DEF ErasureTypes
    <3>5. FiledInv'
      BY <1>t, <2>1, <2>3, <3>2, <3>3 DEF FiledInv
    <3>6. DueInv'
      BY <1>t, <2>1, <3>3 DEF DueInv
    <3>7. GoneInv'
      BY <1>t, <1>k, <2>1, <3>2, <3>3 DEF GoneInv, ListInv
    <3> QED BY <1>j, <2>1, <2>3, <3>3, <3>4, <3>5, <3>6, <3>7, JanitorsStand DEF ErasureInv
  <2> QED BY <2>2, <2>3
<1>7. ASSUME Restore(h) PROVE ErasureInv'
  <2>1. /\ handler[h].stage = "restore" /\ UNCHANGED <<erasure, dueNow, deferred, trail>>
        /\ \/ subject = "deleted" /\ subject' = "active" /\ Move(h, "audit")
           \/ subject' = subject /\ Move(h, "done")
    BY <1>7 DEF Restore
  <2>2. /\ handler' \in [Handlers -> HandlerState] /\ handler'[h].stage \in {"audit", "done"}
        /\ subject = "absent" => handler'[h].stage = "done"
        /\ \A g \in Handlers \ {h} : handler'[g] = handler[g]
    BY <1>t, <2>1, MoveEffect
  <2>3. deferred => \A e \in dueNow : erasure[e] # "pending"
    BY <1>t, <2>1 DEF DueInv
  <2>4. subject' \in {"active", subject} /\ (subject = "absent" <=> subject' = "absent")
    BY <2>1
  <2>5. ErasureTypes' /\ FiledInv' /\ DueInv'
    BY <1>t, <1>k, <2>1, <2>2, <2>3, <2>4 DEF ErasureTypes, FiledInv, DueInv
  <2>6. GoneInv'
    BY <1>t, <1>k, <2>1, <2>2, <2>3, <2>4 DEF GoneInv, ListInv
  <2> QED BY <1>j, <2>1, <2>5, <2>6, JanitorsStand DEF ErasureInv
<1>8. ASSUME Audit(h) PROVE ErasureInv'
  <2>1. /\ handler[h].stage = "audit" /\ Move(h, "done")
        /\ UNCHANGED <<subject, erasure, dueNow, deferred>>
    BY <1>8 DEF Audit
  <2>2. /\ handler' \in [Handlers -> HandlerState] /\ handler'[h].stage = "done"
        /\ \A g \in Handlers \ {h} : handler'[g] = handler[g]
    BY <1>t, <2>1, MoveEffect
  <2>3. deferred => /\ \A e \in Handlers : erasure[e] # "purged"
                    /\ \A e \in dueNow : erasure[e] = "pending" => subject \in {"active", "locked"}
    BY <1>t, <2>1 DEF DueInv, GoneInv
  <2>4. ErasureTypes' /\ FiledInv' /\ DueInv'
    BY <1>t, <1>k, <2>1, <2>2 DEF ErasureTypes, FiledInv, DueInv
  <2>5. GoneInv'
    BY <1>t, <1>k, <2>1, <2>2, <2>3 DEF GoneInv, ListInv
  <2> QED BY <1>j, <2>1, <2>4, <2>5, JanitorsStand DEF ErasureInv
<1>9. ASSUME Elapse(h) PROVE ErasureInv'
  <2>1. /\ h \in Pending /\ \A g \in Handlers : handler[g].stage \in {"idle", "done"}
        /\ dueNow' = dueNow \cup {h}
        /\ UNCHANGED <<subject, erasure, deferred, handler, trail>>
    BY <1>9 DEF Elapse
  <2>2. h \in Handlers /\ erasure[h] = "pending"
    BY <2>1 DEF Pending
  <2>3. ErasureTypes' /\ FiledInv'
    BY <1>t, <1>k, <2>1, <2>2 DEF ErasureTypes, FiledInv
  <2>4. DueInv'
    BY <1>t, <2>1 DEF DueInv
  <2>5. GoneInv'
    BY <1>t, <1>k, <2>1 DEF GoneInv
  <2> QED BY <1>j, <2>1, <2>3, <2>4, <2>5, JanitorsStand DEF ErasureInv
<1> QED
  BY <1>1, <1>2, <1>3, <1>4, <1>5, <1>6, <1>7, <1>8, <1>9 DEF Handle

-----------------------------------------------------------------------------
(* The steps of the janitors.                                              *)

\* A sweep that moves on changes only its own replica's state.
LEMMA SweeperEffect ==
    ASSUME sweeper \in [Replicas -> SweeperState], NEW p \in Replicas,
           NEW next \in SweeperState, sweeper' = [sweeper EXCEPT ![p] = next]
    PROVE  /\ sweeper' \in [Replicas -> SweeperState] /\ sweeper'[p] = next
           /\ \A q \in Replicas \ {p} : sweeper'[q] = sweeper[q]
OBVIOUS

\* What the janitors never touch is the handlers' own.
LEMMA HandlersStand ==
    ASSUME ErasureInv, UNCHANGED Handling, UNCHANGED erasure,
           subject' = subject \/ (subject = "deleted" /\ subject' = "absent")
    PROVE  FiledInv' /\ DueInv'
<1>1. UNCHANGED <<deferred, handler, dueNow>>
  BY DEF Handling
<1> QED BY <1>1 DEF ErasureInv, FiledInv, DueInv

\* Steps of a sweep that move only the sweep keep the invariant: the purge and its
\* report aside, where a sweep is asks nothing of subject and trail.
LEMMA SweepGoesOn ==
    ASSUME ErasureInv, NEW p \in Replicas, NEW next \in SweeperState,
           sweeper' = [sweeper EXCEPT ![p] = next],
           UNCHANGED <<subject, erasure, deferred, handler, dueNow, trail, lockKind, purges,
                       recorded>>,
           next.list \subseteq dueNow, next.stage \in {"idle", "list", "next", "erase", "release"},
           next.stage = "erase" => next.at \in dueNow,
           sweepLock' \in Replicas \cup {None}, OwnerInv'
    PROVE  ErasureInv'
<1>1. /\ sweeper' \in [Replicas -> SweeperState] /\ sweeper'[p] = next
      /\ \A q \in Replicas \ {p} : sweeper'[q] = sweeper[q]
  BY SweeperEffect DEF ErasureInv, ErasureTypes
<1>2. ErasureTypes' /\ FiledInv' /\ DueInv'
  BY <1>1 DEF ErasureInv, ErasureTypes, FiledInv, DueInv
<1>3. ListInv' /\ GoneInv'
  BY <1>1 DEF ErasureInv, ListInv, GoneInv
<1>4. ReportInv' /\ OnlyDeletedIsPurged' /\ RecordedOnce'
  BY <1>1 DEF ErasureInv, ReportInv, OnlyDeletedIsPurged, RecordedOnce
<1> QED BY <1>2, <1>3, <1>4 DEF ErasureInv

\* A sweep that goes on sweeping leaves the lock where it is.
LEMMA OwnerStands ==
    ASSUME ErasureInv, NEW p \in Replicas, NEW next \in SweeperState,
           sweeper' = [sweeper EXCEPT ![p] = next], UNCHANGED <<lockKind, sweepLock>>,
           Sweeping(p) \/ next.stage \in {"idle", "release"}
    PROVE  OwnerInv'
<1>1. /\ sweeper'[p] = next /\ \A q \in Replicas \ {p} : sweeper'[q] = sweeper[q]
  BY SweeperEffect DEF ErasureInv, ErasureTypes
<1> QED BY <1>1 DEF ErasureInv, OwnerInv, Sweeping

\* Each step of a janitor, and the end of its lease, keeps the invariant.
LEMMA JanitorsKeep ==
    ASSUME ErasureInv, NEW p \in Replicas, Acquire(p) \/ Pass(p) \/ TimeOut(p) \/ CrashReplica(p)
    PROVE  ErasureInv'
<1>t. /\ ErasureTypes /\ FiledInv /\ ListInv /\ DueInv /\ GoneInv /\ OwnerInv /\ ReportInv
      /\ sweeper \in [Replicas -> SweeperState] /\ dueNow \subseteq Handlers
      /\ erasure \in [Handlers -> {None, "pending", "cancelled", "purged"}]
      /\ subject \in {"active", "locked", "deleted", "absent"} /\ deferred \in BOOLEAN
      /\ sweepLock \in Replicas \cup {None} /\ None \notin Replicas
      /\ None \notin {"pending", "cancelled", "purged"}
      /\ IdleSweeper \in SweeperState
  BY ErasureAssumption DEF ErasureInv, ErasureTypes, None, IdleSweeper, SweeperState, SweepStage
<1>h. UNCHANGED <<deferred, handler, dueNow, lockKind>> /\ UNCHANGED Handling
  BY DEF Pass, Acquire, ListDue, NextDue, EraseTrail, Purge, Mark, RecordPurge, Release,
         TimeOut, CrashReplica, Handling
<1> USE DEF SweepStage
<1>1. ASSUME Acquire(p) PROVE ErasureInv'
  <2> DEFINE next == [sweeper[p] EXCEPT !.stage = "list"]
  <2>1. /\ sweeper[p].stage = "idle" /\ (lockKind = "unpinned" \/ sweepLock = None)
        /\ sweepLock' = IF lockKind = "unpinned" THEN None ELSE p
        /\ UNCHANGED <<subject, erasure, trail, purges, recorded>>
        /\ sweeper' = [sweeper EXCEPT ![p] = next]
    BY <1>1, <1>t DEF Acquire, Granted
  <2>2. next \in SweeperState /\ next.list = sweeper[p].list /\ next.stage = "list"
    BY <1>t DEF SweeperState
  <2> HIDE DEF next
  <2>3. /\ sweeper'[p] = next /\ \A q \in Replicas \ {p} : sweeper'[q] = sweeper[q]
    BY <1>t, <2>1, <2>2, SweeperEffect
  <2>4. OwnerInv'
    BY <1>t, <1>h, <2>1, <2>3 DEF OwnerInv, Sweeping
  <2>5. next.list \subseteq dueNow
    BY <1>t, <2>2 DEF ListInv
  <2>6. sweepLock' \in Replicas \cup {None}
    BY <2>1
  <2> QED BY <1>h, <2>1, <2>2, <2>4, <2>5, <2>6, SweepGoesOn
<1>2. ASSUME ListDue(p) PROVE ErasureInv'
  <2> DEFINE next == [IdleSweeper EXCEPT !.stage = "next", !.list = Pending \cap dueNow]
  <2>1. /\ sweeper[p].stage = "list" /\ sweeper' = [sweeper EXCEPT ![p] = next]
        /\ UNCHANGED <<subject, erasure, trail, sweepLock, purges, recorded>>
    BY <1>2 DEF ListDue
  <2>2. next \in SweeperState /\ next.list \subseteq dueNow /\ next.stage = "next"
    <3>1. Pending \cap dueNow \in SUBSET Handlers
      BY <1>t
    <3> QED BY <1>t, <3>1 DEF SweeperState, IdleSweeper
  <2> HIDE DEF next
  <2>3. OwnerInv'
    BY <1>h, <2>1, <2>2, OwnerStands DEF Sweeping
  <2> QED BY <1>t, <1>h, <2>1, <2>2, <2>3, SweepGoesOn
<1>3. ASSUME NextDue(p) PROVE ErasureInv'
  <2>1. /\ sweeper[p].stage = "next"
        /\ UNCHANGED <<subject, erasure, trail, sweepLock, purges, recorded>>
    BY <1>3 DEF NextDue
  <2>2. CASE sweeper' = [sweeper EXCEPT ![p].stage = "release"]
    <3> DEFINE next == [sweeper[p] EXCEPT !.stage = "release"]
    <3>1. sweeper' = [sweeper EXCEPT ![p] = next]
      BY <1>t, <2>2
    <3>2. next \in SweeperState /\ next.list = sweeper[p].list /\ next.stage = "release"
      BY <1>t DEF SweeperState
    <3> HIDE DEF next
    <3>3. OwnerInv' /\ next.list \subseteq dueNow
      BY <1>t, <1>h, <2>1, <3>1, <3>2, OwnerStands DEF Sweeping, ListInv
    <3> QED BY <1>t, <1>h, <2>1, <3>1, <3>2, <3>3, SweepGoesOn
  <2>3. ASSUME NEW e \in sweeper[p].list,
               sweeper' = [sweeper EXCEPT ![p] = [stage |-> "erase", at |-> e,
                                                  list |-> sweeper[p].list \ {e}]]
        PROVE  ErasureInv'
    <3> DEFINE next == [stage |-> "erase", at |-> e, list |-> sweeper[p].list \ {e}]
    <3>1. sweeper[p].list \subseteq dueNow
      BY <1>t DEF ListInv
    <3>2. /\ next \in SweeperState /\ next.list \subseteq dueNow /\ next.stage = "erase"
          /\ next.at \in dueNow
      BY <1>t, <2>3, <3>1 DEF SweeperState
    <3> HIDE DEF next
    <3>3. sweeper' = [sweeper EXCEPT ![p] = next]
      BY <2>3 DEF next
    <3>4. OwnerInv'
      BY <1>h, <2>1, <3>2, <3>3, OwnerStands DEF Sweeping
    <3> QED BY <1>t, <1>h, <2>1, <3>2, <3>3, <3>4, SweepGoesOn
  <2> QED BY <1>3, <2>2, <2>3 DEF NextDue
<1>4. ASSUME Release(p) \/ TimeOut(p) \/ CrashReplica(p) PROVE ErasureInv'
  <2>1. /\ UNCHANGED <<subject, erasure, trail, purges, recorded>>
        /\ \/ sweeper' = [sweeper EXCEPT ![p] = IdleSweeper]
           \/ sweeper' = [sweeper EXCEPT ![p] = [IdleSweeper EXCEPT !.stage = "release"]]
        /\ sweepLock' = sweepLock \/ (sweepLock = p /\ sweepLock' = None)
    BY <1>4 DEF Release, TimeOut, CrashReplica
  <2>2. PICK next \in {IdleSweeper, [IdleSweeper EXCEPT !.stage = "release"]} :
          sweeper' = [sweeper EXCEPT ![p] = next]
    BY <2>1
  <2>3. next \in SweeperState /\ next.list = {} /\ next.stage \in {"idle", "release"}
    BY DEF IdleSweeper, SweeperState
  <2>4. /\ sweeper'[p] = next /\ \A q \in Replicas \ {p} : sweeper'[q] = sweeper[q]
    BY <1>t, <2>2, <2>3, SweeperEffect
  <2>5. OwnerInv'
    BY <1>t, <1>h, <2>1, <2>3, <2>4 DEF OwnerInv, Sweeping
  <2> QED BY <1>t, <1>h, <2>1, <2>2, <2>3, <2>5, SweepGoesOn
<1>5. ASSUME EraseTrail(p) PROVE ErasureInv'
  <2> DEFINE next == [sweeper[p] EXCEPT !.stage = "purge"]
  <2>1. /\ sweeper[p].stage = "erase" /\ trail' = {} /\ sweeper' = [sweeper EXCEPT ![p] = next]
        /\ UNCHANGED <<subject, erasure, sweepLock, purges, recorded>>
    BY <1>5, <1>t DEF EraseTrail
  <2>2. /\ next \in SweeperState /\ next.list = sweeper[p].list /\ next.stage = "purge"
        /\ next.at = sweeper[p].at
    BY <1>t DEF SweeperState
  <2> HIDE DEF next
  <2>3. /\ sweeper' \in [Replicas -> SweeperState] /\ sweeper'[p] = next
        /\ \A q \in Replicas \ {p} : sweeper'[q] = sweeper[q]
    BY <1>t, <2>1, <2>2, SweeperEffect
  <2>4. OwnerInv'
    BY <1>h, <2>1, <2>2, OwnerStands DEF Sweeping
  <2>5. ErasureTypes' /\ ListInv'
    BY <1>t, <1>h, <2>1, <2>2, <2>3 DEF ErasureTypes, ListInv
  <2>6. GoneInv'
    BY <1>t, <1>h, <2>1, <2>2, <2>3 DEF GoneInv
  <2>7. ReportInv' /\ OnlyDeletedIsPurged' /\ RecordedOnce'
    BY <1>t, <2>1, <2>2, <2>3 DEF ErasureInv, ReportInv, OnlyDeletedIsPurged, RecordedOnce
  <2> QED BY <1>h, <2>1, <2>4, <2>5, <2>6, <2>7, HandlersStand DEF ErasureInv
<1>6. ASSUME Purge(p) PROVE ErasureInv'
  <2>1. /\ sweeper[p].stage = "purge" /\ UNCHANGED <<erasure, trail, sweepLock, recorded>>
        /\ subject' = IF subject = "deleted" THEN "absent" ELSE subject
        /\ \A x \in purges' : x \in purges \/ x.row = "deleted"
        /\ sweeper' = [sweeper EXCEPT ![p] = [sweeper[p] EXCEPT
             !.stage = IF subject \in {"deleted", "absent"} THEN "mark" ELSE "next"]]
    BY <1>6, <1>t DEF Purge
  <2>2. PICK to \in {"mark", "next"} :
          /\ sweeper' = [sweeper EXCEPT ![p] = [sweeper[p] EXCEPT !.stage = to]]
          /\ to = "mark" <=> subject \in {"deleted", "absent"}
    BY <2>1
  <2> DEFINE next == [sweeper[p] EXCEPT !.stage = to]
  <2>3. /\ next \in SweeperState /\ next.list = sweeper[p].list /\ next.stage = to
        /\ next.at = sweeper[p].at
    BY <1>t DEF SweeperState
  <2> HIDE DEF next
  <2>4. /\ sweeper' \in [Replicas -> SweeperState] /\ sweeper'[p] = next
        /\ \A q \in Replicas \ {p} : sweeper'[q] = sweeper[q]
    BY <1>t, <2>2, <2>3, SweeperEffect DEF next
  <2>5. /\ subject' \in {"active", "locked", "deleted", "absent"}
        /\ subject' = subject \/ (subject = "deleted" /\ subject' = "absent")
        /\ to = "mark" => subject' = "absent"
    BY <1>t, <2>1, <2>2
  <2>6. OwnerInv'
    BY <1>t, <1>h, <2>1, <2>4 DEF OwnerInv, Sweeping
  <2>7. ErasureTypes' /\ ListInv'
    BY <1>t, <1>h, <2>1, <2>3, <2>4, <2>5 DEF ErasureTypes, ListInv
  <2>8. GoneInv'
    <3>1. ASSUME NEW q \in Replicas PROVE sweeper'[q].stage = "mark" => subject' = "absent"
      BY <1>t, <2>3, <2>4, <2>5 DEF GoneInv
    <3>2. ASSUME NEW q \in Replicas, deferred', sweeper'[q].stage \in {"purge", "mark"},
                 erasure'[sweeper'[q].at] = "pending"
          PROVE  trail' = {} \/ subject' \in {"active", "locked"}
      BY <1>t, <1>h, <2>1, <2>2, <2>3, <2>4, <2>5, <3>2 DEF GoneInv
    <3>3. \A e \in Handlers : erasure'[e] = "purged" =>
            /\ subject' = "absent"
            /\ deferred' => trail' = {} /\ \A h \in Handlers : handler'[h].stage # "audit"
      BY <1>t, <1>h, <2>1, <2>5 DEF GoneInv
    <3> QED BY <3>1, <3>2, <3>3 DEF GoneInv
  <2>9. ReportInv' /\ OnlyDeletedIsPurged' /\ RecordedOnce'
    BY <1>t, <2>1, <2>2, <2>3, <2>4 DEF ErasureInv, ReportInv, OnlyDeletedIsPurged, RecordedOnce
  <2> QED BY <1>h, <2>1, <2>5, <2>6, <2>7, <2>8, <2>9, HandlersStand DEF ErasureInv
<1>7. ASSUME Mark(p) PROVE ErasureInv'
  <2> DEFINE e == sweeper[p].at
  <2>1. /\ sweeper[p].stage = "mark" /\ UNCHANGED <<subject, trail, sweepLock, purges, recorded>>
        /\ e \in dueNow /\ e \in Handlers /\ subject = "absent"
    BY <1>7, <1>t DEF Mark, ListInv, GoneInv
  <2>2. CASE erasure[e] # "pending"
    <3> DEFINE next == [sweeper[p] EXCEPT !.stage = "next"]
    <3>1. UNCHANGED erasure /\ sweeper' = [sweeper EXCEPT ![p] = next]
      BY <1>7, <1>t, <2>2 DEF Mark
    <3>2. next \in SweeperState /\ next.list = sweeper[p].list /\ next.stage = "next"
      BY <1>t DEF SweeperState
    <3> HIDE DEF next
    <3>3. OwnerInv' /\ next.list \subseteq dueNow
      BY <1>t, <1>h, <2>1, <3>1, <3>2, OwnerStands DEF Sweeping, ListInv
    <3> QED BY <1>t, <1>h, <2>1, <3>1, <3>2, <3>3, SweepGoesOn
  <2>3. CASE erasure[e] = "pending"
    <3> DEFINE next == [sweeper[p] EXCEPT !.stage = "record"]
    <3>1. /\ erasure' = [erasure EXCEPT ![e] = "purged"] /\ sweeper' = [sweeper EXCEPT ![p] = next]
      BY <1>7, <1>t, <2>3 DEF Mark
    <3>2. /\ next \in SweeperState /\ next.list = sweeper[p].list /\ next.stage = "record"
          /\ next.at = e
      BY <1>t DEF SweeperState
    <3> HIDE DEF next, e
    <3>3. /\ sweeper' \in [Replicas -> SweeperState] /\ sweeper'[p] = next
          /\ \A q \in Replicas \ {p} : sweeper'[q] = sweeper[q]
      BY <1>t, <3>1, <3>2, SweeperEffect
    <3>4. erasure'[e] = "purged" /\ \A d \in Handlers \ {e} : erasure'[d] = erasure[d]
      BY <1>t, <2>1, <3>1
    <3>5. OwnerInv'
      BY <1>h, <2>1, <3>1, <3>2, OwnerStands DEF Sweeping
    <3>6. ErasureTypes' /\ ListInv'
      BY <1>t, <1>h, <2>1, <3>1, <3>2, <3>3 DEF ErasureTypes, ListInv
    <3>7. FiledInv' /\ DueInv'
      BY <1>t, <1>h, <2>1, <2>3, <3>4 DEF FiledInv, DueInv
    <3>8. deferred => trail = {} /\ \A h \in Handlers : handler[h].stage # "audit"
      BY <1>t, <2>1, <2>3 DEF DueInv, GoneInv, e
    <3>9. GoneInv'
      BY <1>t, <1>h, <2>1, <3>2, <3>3, <3>4, <3>8 DEF GoneInv, ListInv
    <3>10. ReportInv'
      <4>1. \A x \in recorded : x.request \in Handlers /\ erasure'[x.request] = "purged" /\ x.request # e
        BY <1>t, <2>1, <2>3, <3>4 DEF ReportInv
      <4>2. \A q \in Replicas \ {p} : sweeper'[q].stage = "record" =>
              sweeper'[q].at # e /\ erasure'[sweeper'[q].at] = "purged"
        BY <1>t, <2>1, <2>3, <3>3, <3>4 DEF ReportInv, ListInv
      <4> QED BY <1>t, <2>1, <3>2, <3>3, <3>4, <4>1, <4>2 DEF ReportInv
    <3>11. OnlyDeletedIsPurged' /\ RecordedOnce'
      BY <2>1 DEF ErasureInv, OnlyDeletedIsPurged, RecordedOnce
    <3> QED BY <3>5, <3>6, <3>7, <3>9, <3>10, <3>11 DEF ErasureInv
  <2> QED BY <2>2, <2>3
<1>8. ASSUME RecordPurge(p) PROVE ErasureInv'
  <2> DEFINE next == [sweeper[p] EXCEPT !.stage = "next"]
             entry == [request |-> sweeper[p].at, by |-> p]
  <2>1. /\ sweeper[p].stage = "record" /\ recorded' = recorded \cup {entry}
        /\ sweeper' = [sweeper EXCEPT ![p] = next]
        /\ UNCHANGED <<subject, erasure, trail, sweepLock, purges>>
    BY <1>8, <1>t DEF RecordPurge
  <2>2. next \in SweeperState /\ next.list = sweeper[p].list /\ next.stage = "next"
    BY <1>t DEF SweeperState
  <2> HIDE DEF next
  <2>3. /\ sweeper' \in [Replicas -> SweeperState] /\ sweeper'[p] = next
        /\ \A q \in Replicas \ {p} : sweeper'[q] = sweeper[q]
    BY <1>t, <2>1, <2>2, SweeperEffect
  <2>4. OwnerInv'
    BY <1>h, <2>1, <2>2, OwnerStands DEF Sweeping
  <2>5. ErasureTypes' /\ ListInv' /\ GoneInv'
    BY <1>t, <1>h, <2>1, <2>2, <2>3 DEF ErasureTypes, ListInv, GoneInv
  <2>6. entry.request \in Handlers /\ erasure[entry.request] = "purged"
        /\ \A x \in recorded : x.request # entry.request
    BY <1>t, <2>1 DEF ReportInv, ListInv
  <2>7. ReportInv'
    BY <1>t, <2>1, <2>2, <2>3, <2>6 DEF ReportInv
  <2>8. OnlyDeletedIsPurged' /\ RecordedOnce'
    BY <2>1, <2>6 DEF ErasureInv, OnlyDeletedIsPurged, RecordedOnce
  <2> QED BY <1>h, <2>1, <2>4, <2>5, <2>7, <2>8, HandlersStand DEF ErasureInv
<1> QED
  BY <1>1, <1>2, <1>3, <1>4, <1>5, <1>6, <1>7, <1>8 DEF Pass

-----------------------------------------------------------------------------
(* The theorems.                                                           *)

\* Every step keeps the invariant.
LEMMA ErasureStep == ErasureInv /\ [ErasureNext]_erasureVars => ErasureInv'
<1> SUFFICES ASSUME ErasureInv, [ErasureNext]_erasureVars PROVE ErasureInv'
  OBVIOUS
<1>1. CASE Expire
  <2>1. /\ UNCHANGED <<subject, erasure, trail, lockKind, sweeper, purges, recorded, deferred,
                       handler, dueNow>>
        /\ sweepLock # None /\ ~Sweeping(sweepLock) /\ sweepLock' = None
    BY <1>1 DEF Expire, Handling
  <2>2. OwnerInv'
    BY <2>1 DEF ErasureInv, OwnerInv, Sweeping
  <2> QED BY <2>1, <2>2 DEF ErasureInv, ErasureTypes, FiledInv, ListInv, DueInv, GoneInv,
                            ReportInv, OnlyDeletedIsPurged, RecordedOnce
<1>2. CASE UNCHANGED erasureVars
  BY <1>2 DEF erasureVars, ErasureInv, ErasureTypes, FiledInv, ListInv, DueInv, GoneInv,
              OwnerInv, Sweeping, ReportInv, OnlyDeletedIsPurged, RecordedOnce
<1> QED BY <1>1, <1>2, HandlersKeep, JanitorsKeep DEF ErasureNext

\* The invariant holds of every behaviour.
LEMMA ErasureInvHolds == ErasureSpec => []ErasureInv
<1>1. ErasureInv /\ [ErasureNext]_erasureVars => ErasureInv'
  BY ErasureStep
<1> QED BY ErasureInitInv, <1>1, PTL DEF ErasureSpec

\* Nothing but a subject pending deletion is purged, and a request marked purged is
\* true: the subject is gone, and where there is a retention window no audit entry of a
\* handler names it (PurgeSubject, purgeDueErasures).
THEOREM PurgesStaySound == ErasureSpec => []PurgesAreSound
<1>1. ErasureInv => PurgesAreSound
  BY DEF ErasureInv, GoneInv, PurgesAreSound, PurgedIsGone
<1> QED BY <1>1, ErasureInvHolds, PTL

\* One replica sweeps at a time where the lock can be held, and each purge is reported
\* once, lock or no lock (TryAcquireJanitorLock, MarkErasurePurged).
THEOREM SweepsStaySingle == ErasureSpec => []SweepsOnce
<1>1. ErasureInv => SweepsOnce
  BY DEF ErasureInv, OwnerInv, SweepsOnce, OneSweeper
<1> QED BY <1>1, ErasureInvHolds, PTL

-----------------------------------------------------------------------------
(* The start of replicas: the inductive invariant.                         *)

\* A binary's migrations, and a table's: the versions have no gap.
Contiguous(f) == \E n \in Nat : DOMAIN f = 1..n

Starting == {"launched", "keyring", "opened"}

Later == {"provisioning", "provisioned", "serving", "draining", "unwinding", "unkeyed", "closed"}

\* The table holds this version as it is here.
Applied(f, v) == v \in DOMAIN schema /\ schema[v] = f[v]

LifeTypes ==
    /\ stage \in [Servers -> {"off", "migrating"} \cup Starting \cup Later]
    /\ at \in [Servers -> Nat]
    /\ open \in [Servers -> BOOLEAN]
    /\ DOMAIN known = Servers
    /\ \A r \in Servers : Contiguous(build[r])

\* What a start has read of the table is still in it, and every version the loop has
\* passed is applied as the binary has it.
ReplicaInv(r) ==
    /\ open[r] => stage[r] = "migrating" /\ at[r] \in DOMAIN build[r]
    /\ stage[r] \in {"migrating"} \cup Later =>
         /\ at[r] >= 1
         /\ \A v \in DOMAIN known[r] : Applied(known[r], v)
         /\ \A v \in 1..(at[r] - 1) : v \in DOMAIN build[r] /\ Applied(build[r], v)
    /\ stage[r] \in Later => at[r] \notin DOMAIN build[r]

SchemaInv ==
    /\ LifeTypes
    /\ Contiguous(schema)
    /\ \A r \in Servers : ReplicaInv(r)

-----------------------------------------------------------------------------
(* The steps.                                                              *)

\* A step of one replica that writes no migration.
LEMMA ReplicaStep ==
    ASSUME SchemaInv, NEW r \in Servers, UNCHANGED <<build, schema>>, LifeTypes',
           \A q \in Servers \ {r} : /\ stage'[q] = stage[q] /\ known'[q] = known[q]
                                    /\ at'[q] = at[q] /\ open'[q] = open[q],
           ReplicaInv(r)'
    PROVE  SchemaInv'
<1>1. \A q \in Servers \ {r} : ReplicaInv(q)'
  BY DEF SchemaInv, ReplicaInv, Applied
<1> QED BY <1>1 DEF SchemaInv, Contiguous

\* The process ends, before or after anything.
LEMMA ExitStep ==
    ASSUME SchemaInv, NEW r \in Servers, Exited(r), UNCHANGED <<build, schema, known, at>>
    PROVE  SchemaInv'
<1>1. LifeTypes'
  BY DEF SchemaInv, LifeTypes, Exited, Contiguous
<1>2. /\ stage'[r] = "off" /\ open'[r] = FALSE
      /\ \A q \in Servers \ {r} : stage'[q] = stage[q] /\ open'[q] = open[q]
  BY DEF SchemaInv, LifeTypes, Exited
<1>3. ReplicaInv(r)'
  BY <1>2 DEF ReplicaInv, Later
<1> QED BY <1>1, <1>2, <1>3, ReplicaStep

\* A replica goes on to a stage that says no more than the one it leaves.
LEMMA StageStep ==
    ASSUME SchemaInv, NEW r \in Servers, NEW new \in {"off", "migrating"} \cup Starting \cup Later,
           stage' = [stage EXCEPT ![r] = new], new # "migrating", open[r] => new = "migrating",
           new \in Later => \/ stage[r] \in Later
                            \/ stage[r] = "migrating" /\ at[r] \notin DOMAIN build[r],
           UNCHANGED <<build, schema, known, at, open>>
    PROVE  SchemaInv'
<1>1. LifeTypes'
  BY DEF SchemaInv, LifeTypes, Contiguous
<1>2. stage'[r] = new /\ \A q \in Servers \ {r} : stage'[q] = stage[q]
  BY DEF SchemaInv, LifeTypes
<1>3. ReplicaInv(r)'
  BY <1>2 DEF SchemaInv, ReplicaInv, Applied
<1> QED BY <1>1, <1>2, <1>3, ReplicaStep

\* Migrate reads the table: all it has read is there, and it has passed nothing yet.
LEMMA ReadStep ==
    ASSUME SchemaInv, NEW r \in Servers, ReadSchema(r)
    PROVE  SchemaInv'
<1>1. /\ stage[r] = "opened"
      /\ stage' = [stage EXCEPT ![r] = "migrating"]
      /\ known' = [known EXCEPT ![r] = schema] /\ at' = [at EXCEPT ![r] = 1]
      /\ UNCHANGED <<build, schema, open>>
  BY DEF ReadSchema
<1>2. LifeTypes'
  BY <1>1 DEF SchemaInv, LifeTypes, Contiguous
<1>3. /\ stage'[r] = "migrating" /\ known'[r] = schema /\ at'[r] = 1
      /\ \A q \in Servers \ {r} : stage'[q] = stage[q] /\ known'[q] = known[q] /\ at'[q] = at[q]
  BY <1>1 DEF SchemaInv, LifeTypes
<1>4. ~open[r]
  BY <1>1 DEF SchemaInv, ReplicaInv
<1>5. ReplicaInv(r)'
  BY <1>1, <1>3, <1>4 DEF ReplicaInv, Applied, Later
<1> QED BY <1>1, <1>2, <1>3, <1>5, ReplicaStep

\* A migration found applied is passed over only as the binary has it.
LEMMA SkipStep ==
    ASSUME SchemaInv, NEW r \in Servers, SkipApplied(r)
    PROVE  SchemaInv'
<1>1. CASE Exited(r) /\ UNCHANGED <<build, schema, known, at>>
  BY <1>1, ExitStep
<1>2. CASE ~Mismatch(r) /\ at' = [at EXCEPT ![r] = @ + 1] /\ UNCHANGED <<stage, open>>
  <2>1. /\ stage[r] = "migrating" /\ ~open[r] /\ at[r] \in DOMAIN build[r] \cap DOMAIN known[r]
        /\ UNCHANGED <<build, schema, known>>
    BY DEF SkipApplied
  <2>2. at[r] \in Nat /\ at'[r] = at[r] + 1 /\ \A q \in Servers \ {r} : at'[q] = at[q]
    BY <1>2 DEF SchemaInv, LifeTypes
  <2>3. LifeTypes'
    BY <1>2, <2>1, <2>2 DEF SchemaInv, LifeTypes, Contiguous
  <2>4. Applied(build[r], at[r])
    BY <1>2, <2>1 DEF SchemaInv, ReplicaInv, Applied, Mismatch
  <2>5. \A v \in 1..at[r] : v \in DOMAIN build[r] /\ Applied(build[r], v)
    <3> TAKE v \in 1..at[r]
    <3>1. v = at[r] \/ v \in 1..(at[r] - 1)
      BY <2>2
    <3> QED BY <2>1, <2>4, <3>1 DEF SchemaInv, ReplicaInv
  <2>6. at'[r] - 1 = at[r] /\ at'[r] >= 1
    BY <2>2
  <2>7. ReplicaInv(r)'
    BY <1>2, <2>1, <2>5, <2>6 DEF SchemaInv, ReplicaInv, Applied, Later
  <2> QED BY <1>2, <2>1, <2>2, <2>3, <2>7, ReplicaStep
<1> QED BY <1>1, <1>2 DEF SkipApplied

\* A transaction is opened for a version of the binary.
LEMMA BeginStep ==
    ASSUME SchemaInv, NEW r \in Servers, BeginMigration(r)
    PROVE  SchemaInv'
<1>1. /\ stage[r] = "migrating" /\ at[r] \in DOMAIN build[r]
      /\ open' = [open EXCEPT ![r] = TRUE]
      /\ UNCHANGED <<build, schema, stage, known, at>>
  BY DEF BeginMigration
<1>2. LifeTypes'
  BY <1>1 DEF SchemaInv, LifeTypes, Contiguous
<1>3. \A q \in Servers \ {r} : open'[q] = open[q]
  BY <1>1 DEF SchemaInv, LifeTypes
<1>4. ReplicaInv(r)'
  BY <1>1 DEF SchemaInv, ReplicaInv, Applied, Later
<1> QED BY <1>1, <1>2, <1>3, <1>4, ReplicaStep

\* Its commit adds the next version, or nothing and the process ends.
LEMMA EndStep ==
    ASSUME SchemaInv, NEW r \in Servers, EndMigration(r)
    PROVE  SchemaInv'
<1>1. CASE Exited(r) /\ UNCHANGED <<build, schema, known, at>>
  BY <1>1, ExitStep
<1>2. CASE /\ at[r] \notin DOMAIN schema
           /\ schema' = [v \in DOMAIN schema \cup {at[r]} |->
                            IF v = at[r] THEN build[r][v] ELSE schema[v]]
           /\ open' = [open EXCEPT ![r] = FALSE]
           /\ at' = [at EXCEPT ![r] = @ + 1]
           /\ UNCHANGED <<stage, build, known>>
  <2>1. open[r] /\ stage[r] = "migrating" /\ at[r] \in DOMAIN build[r]
        /\ at[r] \in Nat /\ at[r] >= 1
    BY DEF EndMigration, SchemaInv, ReplicaInv, LifeTypes
  <2>2. PICK n \in Nat : DOMAIN schema = 1..n
    BY DEF SchemaInv, Contiguous
  <2>3. at[r] = n + 1
    <3>1. \A v \in 1..(at[r] - 1) : v \in 1..n
      BY <2>1, <2>2 DEF SchemaInv, ReplicaInv, Applied
    <3>2. at[r] \notin 1..n
      BY <1>2, <2>2
    <3>3. ~(at[r] > n + 1)
      <4> SUFFICES ASSUME at[r] > n + 1 PROVE FALSE
        OBVIOUS
      <4>1. n + 1 \in 1..(at[r] - 1)
        BY <2>1
      <4> QED BY <3>1, <4>1
    <3> QED BY <2>1, <3>2, <3>3
  <2>4. DOMAIN schema' = 1..(n + 1)
    <3>1. DOMAIN schema' = 1..n \cup {n + 1}
      BY <1>2, <2>2, <2>3
    <3> QED BY <3>1
  <2>5. \A v \in DOMAIN schema : v \in DOMAIN schema' /\ schema'[v] = schema[v]
    BY <1>2
  <2>6. at[r] \in DOMAIN schema' /\ schema'[at[r]] = build[r][at[r]]
    BY <1>2
  <2>7. /\ open'[r] = FALSE /\ at'[r] = at[r] + 1
        /\ \A q \in Servers \ {r} : open'[q] = open[q] /\ at'[q] = at[q]
    BY <1>2 DEF SchemaInv, LifeTypes
  <2>8. LifeTypes'
    BY <1>2, <2>7 DEF SchemaInv, LifeTypes, Contiguous
  <2>9. \A q \in Servers \ {r} : ReplicaInv(q)'
    BY <1>2, <2>5, <2>7 DEF SchemaInv, ReplicaInv, Applied
  <2>10. \A v \in 1..at[r] : v \in DOMAIN build[r] /\ Applied(build[r], v)'
    <3> TAKE v \in 1..at[r]
    <3>1. v = at[r] \/ v \in 1..(at[r] - 1)
      BY <2>1
    <3> QED BY <1>2, <2>1, <2>5, <2>6, <3>1 DEF SchemaInv, ReplicaInv, Applied
  <2>11. at'[r] - 1 = at[r] /\ at'[r] >= 1
    BY <2>1, <2>7
  <2>12. ReplicaInv(r)'
    BY <1>2, <2>1, <2>5, <2>7, <2>10, <2>11 DEF SchemaInv, ReplicaInv, Applied, Later
  <2>13. Contiguous(schema)'
    BY <2>4 DEF Contiguous
  <2> QED BY <2>8, <2>9, <2>12, <2>13 DEF SchemaInv
<1> QED BY <1>1, <1>2 DEF EndMigration

LEMMA LifeStarts ==
    ASSUME LifeInit
    PROVE  SchemaInv
<1>1. DOMAIN schema = 1..0
  BY DEF LifeInit, Nothing
<1>2. Contiguous(schema)
  BY <1>1 DEF Contiguous
<1>3. \A r \in Servers : Contiguous(build[r])
  <2> TAKE r \in Servers
  <2>1. PICK n \in 0..LastVersion : build[r] \in [1..n -> Checksums]
    BY LifecycleAssumption DEF LifeInit
  <2>2. n \in Nat /\ DOMAIN build[r] = 1..n
    BY <2>1, LifecycleAssumption
  <2> QED BY <2>2 DEF Contiguous
<1>4. LifeTypes
  BY <1>3 DEF LifeInit, LifeTypes
<1>5. \A r \in Servers : ReplicaInv(r)
  BY DEF LifeInit, ReplicaInv, Later
<1> QED BY <1>2, <1>4, <1>5 DEF SchemaInv

LEMMA LifeSteps ==
    ASSUME SchemaInv, [LifeNext]_lifeVars
    PROVE  SchemaInv'
<1>1. CASE UNCHANGED <<build, schema, stage, known, at, open>>
  BY <1>1 DEF SchemaInv, LifeTypes, Contiguous, ReplicaInv, Applied
<1>2. ASSUME NEW r \in Servers,
             \/ Launch(r) \/ OpenKeyring(r) \/ OpenStore(r) \/ ReadSchema(r) \/ SkipApplied(r)
             \/ BeginMigration(r) \/ EndMigration(r) \/ LookUpTenant(r) \/ CreateTenant(r)
             \/ Serve(r) \/ Signal(r) \/ DrainEnds(r) \/ CloseSubjects(r) \/ CloseStore(r)
             \/ Exit(r) \/ KillReplica(r)
      PROVE  SchemaInv'
  <2>1. open[r] => stage[r] = "migrating" /\ at[r] \in DOMAIN build[r]
    BY DEF SchemaInv, ReplicaInv
  <2>2. CASE Launch(r) \/ OpenKeyring(r) \/ OpenStore(r)
    BY <2>1, <2>2, StageStep DEF Launch, OpenKeyring, OpenStore, Starting, Later
  <2>3. CASE LookUpTenant(r)
    <3> DEFINE new == IF provisioned THEN "provisioned" ELSE "provisioning"
    <3>1. stage' = [stage EXCEPT ![r] = new] /\ stage[r] = "migrating"
          /\ at[r] \notin DOMAIN build[r]
      BY <2>3 DEF LookUpTenant, Migrated
    <3> QED BY <2>1, <2>3, <3>1, StageStep DEF LookUpTenant, Later
  <2>4. CASE Serve(r) \/ Signal(r) \/ DrainEnds(r) \/ CloseSubjects(r) \/ CloseStore(r)
    BY <2>1, <2>4, StageStep DEF Serve, Signal, DrainEnds, CloseSubjects, CloseStore, Later
  <2>5. CASE CreateTenant(r)
    <3>1. CASE provisioned
      BY <2>5, <3>1, ExitStep DEF CreateTenant
    <3>2. CASE ~provisioned
      BY <2>1, <2>5, <3>2, StageStep DEF CreateTenant, Later
    <3> QED BY <3>1, <3>2
  <2>6. CASE Exit(r) \/ KillReplica(r)
    BY <2>6, ExitStep DEF Exit, KillReplica
  <2> QED BY <1>2, <2>2, <2>3, <2>4, <2>5, <2>6, ReadStep, SkipStep, BeginStep, EndStep
<1>3. ASSUME NEW c \in LifeCalls,
             (\E r \in Servers : Arrive(c, r)) \/ DeriveKey(c) \/ ResolveSubject(c)
      PROVE  SchemaInv'
  <2>1. UNCHANGED <<build, schema, stage, known, at, open>>
    BY <1>3 DEF Arrive, DeriveKey, ResolveSubject
  <2> QED BY <1>1, <2>1
<1>4. CASE UNCHANGED lifeVars
  BY <1>1, <1>4 DEF lifeVars
<1>5. CASE LifeNext
  BY <1>2, <1>3, <1>5 DEF LifeNext
<1> QED BY <1>4, <1>5

\* However many replicas start at once, on whatever binaries, and wherever one of them
\* fails: none serves on a schema it does not expect, and the versions have no gap.
THEOREM ReplicasServeTheirSchema == LifeSpec => []ServesOnItsSchema
<1>1. SchemaInv => ServesOnItsSchema
  <2> SUFFICES ASSUME SchemaInv PROVE ServesOnItsSchema
    OBVIOUS
  <2>1. PICK n \in Nat : DOMAIN schema = 1..n
    BY DEF SchemaInv, Contiguous
  <2>2. Cardinality(1..n) = n
    <3>1. 0 \in Int /\ 1 \in Int /\ n \in Int
      BY <2>1
    <3>2. Cardinality(1..n) = IF 1 > n THEN 0 ELSE n - 1 + 1
      BY <3>1, FS_Interval
    <3> QED BY <2>1, <3>2
  <2>3. ASSUME NEW r \in Servers, stage[r] = "serving", NEW v \in DOMAIN build[r]
        PROVE  v \in DOMAIN schema /\ schema[v] = build[r][v]
    <3>1. PICK m \in Nat : DOMAIN build[r] = 1..m
      BY DEF SchemaInv, LifeTypes, Contiguous
    <3>2. /\ at[r] \in Nat /\ at[r] >= 1 /\ at[r] \notin 1..m
          /\ \A u \in 1..(at[r] - 1) : Applied(build[r], u)
      BY <2>3, <3>1 DEF SchemaInv, LifeTypes, ReplicaInv, Later
    <3>3. v \in 1..(at[r] - 1)
      BY <2>3, <3>1, <3>2
    <3> QED BY <3>2, <3>3 DEF Applied
  <2> QED BY <2>1, <2>2, <2>3 DEF ServesOnItsSchema
<1> QED BY <1>1, LifeStarts, LifeSteps, PTL DEF LifeSpec

-----------------------------------------------------------------------------
(***************************************************************************)
(* Administrative tokens.  A deployment stays administrable because a      *)
(* guard's findings last: between its counts and its write nobody else     *)
(* revokes, and a rotation that cuts the life of the administrator it      *)
(* counted puts in its place a successor with the life it had.  The count  *)
(* at the horizon speaks of good, not of the horizon only: nobody the      *)
(* guard finds there has a life that was cut before the guard read the     *)
(* clock.                                                                  *)
(***************************************************************************)

\* The life of the row b, a later version of a or its copy, is no longer than a's.
NoLonger(b, a) == a.expires = 0 \/ (b.expires # 0 /\ b.expires <= a.expires)

\* A full administrator other than t is usable at an instant.
Another(t, moment) == \E x \in FullTokens(tokens, moment) : x # t

\* A full administrator who will never stop.
ForGood(t) == tokens[t].full /\ tokens[t].present /\ ~tokens[t].revoked /\ tokens[t].expires = 0

AnotherForGood(t) == \E x \in Token : x # t /\ ForGood(x)

\* A full administrator's life was cut, but to end past h; or a request has read it so.
CutPast(h) ==
    \/ \E t \in Token : tokens[t].full /\ tokens[t].expires > h
    \/ \E r \in Reqs : req[r].own.full /\ req[r].own.expires > h

Active(r) == req[r].stage \notin {"idle", "done"}

\* A request is young, and what it read of its caller's row the row has not outgrown.
Calling(r) ==
    Active(r) =>
      LET c == req[r].caller IN
      /\ c \in Token /\ tokens[c].present
      /\ 1 <= req[r].began /\ req[r].began <= clock /\ clock <= req[r].began + Latency
      /\ req[r].own.full = tokens[c].full /\ NoLonger(tokens[c], req[r].own)
      /\ born[c] # 0 => req[r].own.expires # 0 /\ req[r].own.expires <= born[c]
      /\ ~limited => req[r].own.expires <= clock + MaxRotationGrace

\* So is the reading of the clock it mints or rotates under.
Dating(r) ==
    /\ ~Active(r) => ~req[r].own.full
    /\ req[r].stage = "begin" => req[r].kind \in {"mint", "rotate"}
    /\ req[r].stage \in {"mint", "rotate"} => req[r].began <= req[r].now /\ req[r].now <= clock

\* Nor has the row of a revocation's target outgrown its copy.
Aiming(r) ==
    req[r].stage \in {"lock", "countNow", "countHorizon", "revoke"} =>
      LET t == req[r].target IN
      /\ t \in Token /\ tokens[t].present
      /\ req[r].copy.present /\ ~req[r].copy.revoked
      /\ req[r].copy.full = tokens[t].full /\ NoLonger(tokens[t], req[r].copy)

GuardStage == {"countNow", "countHorizon", "revoke"}

\* One request at a time is past the mutex.  What its counts have established stays so:
\* another administrator at its instant; and another for good once it has counted at the
\* horizon, because a life cut to end past the horizon was cut after the guard's reading
\* of the clock, by a rotation, whose successor has the life it had before.
Guarding(r) ==
    req[r].stage \in GuardStage =>
      LET t == req[r].target
          moment == req[r].now
          copy == req[r].copy
      IN  /\ mutex = r /\ moment <= clock
          /\ req[r].stage # "revoke" => copy.full
          /\ req[r].stage # "countNow" /\ copy.full /\ Usable(copy, moment) => Another(t, moment)
          /\ ~limited /\ CutPast(Horizon(moment)) => AnotherForGood(t)
          /\ ~limited /\ req[r].stage = "revoke" =>
                ~copy.full \/ copy.expires # 0 \/ AnotherForGood(t)

AdminInv ==
    /\ TypeOK /\ clock >= 1
    /\ RotationNeverExtends /\ NeverUnadministrable
    /\ ~limited => \A t \in Token : tokens[t].expires <= clock + MaxRotationGrace
    /\ \A r \in Reqs : req[r].stage # "done" => ~tokens[r].present
    /\ \A r \in Reqs : Calling(r) /\ Dating(r) /\ Aiming(r) /\ Guarding(r)

-----------------------------------------------------------------------------
(* Rows.                                                                   *)

LEMMA NoLongerIsTransitive ==
    ASSUME NEW a, NEW b, NEW c, a.expires \in Nat, b.expires \in Nat, c.expires \in Nat,
           NoLonger(b, a), NoLonger(c, b)
    PROVE  NoLonger(c, a)
BY DEF NoLonger

\* Where two are counted, one is another.
LEMMA TwoAreOneMore ==
    ASSUME NEW moment, NEW t, ~Refuses(moment)
    PROVE  \E x \in FullTokens(tokens, moment) : x # t
<1> SUFFICES ASSUME FullTokens(tokens, moment) \subseteq {t}
             PROVE  FALSE
  OBVIOUS
<1>1. IsFiniteSet({t}) /\ Cardinality({t}) = 1
  BY FS_Singleton
<1>2. Cardinality(FullTokens(tokens, moment)) <= 1
  BY <1>1, FS_Subset
<1> QED BY <1>2 DEF Refuses

\* A step keeps the rows that are there, but may cut or end their lives.
RowsStay ==
    \A t \in Token : tokens[t].present =>
        /\ tokens'[t].present /\ tokens'[t].full = tokens[t].full
        /\ NoLonger(tokens'[t], tokens[t]) /\ born'[t] = born[t]

LEMMA RequestFields ==
    ASSUME TypeOK, NEW r \in Reqs
    PROVE  /\ req[r] \in Request /\ r \in Token
           /\ req[r].stage \in Stage /\ req[r].began \in Nat /\ req[r].now \in Nat
           /\ req[r].own \in Row /\ req[r].copy \in Row
           /\ req[r].own.expires \in Nat /\ req[r].copy.expires \in Nat
<1>1. req[r] \in Request
  BY DEF TypeOK
<1>2. req[r].own \in Row /\ req[r].copy \in Row
  BY <1>1 DEF Request
<1> QED BY <1>1, <1>2, TokenAssumption DEF Request, Row

LEMMA RowFields ==
    ASSUME TypeOK, NEW t \in Token
    PROVE  tokens[t] \in Row /\ tokens[t].expires \in Nat
BY DEF TypeOK, Row

\* A request that takes no step is still right about its caller and its target.
LEMMA OthersStay ==
    ASSUME TypeOK, TypeOK', NEW w \in Reqs, req'[w] = req[w], clock' = clock,
           limited => limited', RowsStay, Calling(w), Dating(w), Aiming(w)
    PROVE  Calling(w)' /\ Dating(w)' /\ Aiming(w)'
<1>1. Calling(w)'
  <2>1. SUFFICES ASSUME Active(w)
                 PROVE  Calling(w)'
    BY DEF Calling, Active
  <2> DEFINE c == req[w].caller
  <2>2. /\ c \in Token /\ tokens[c].present /\ req[w].own.full = tokens[c].full
        /\ NoLonger(tokens[c], req[w].own)
    BY <2>1 DEF Calling
  <2>3. /\ tokens'[c].present /\ tokens'[c].full = tokens[c].full
        /\ NoLonger(tokens'[c], tokens[c]) /\ born'[c] = born[c]
    BY <2>2 DEF RowsStay
  <2>4. tokens'[c].expires \in Nat /\ tokens[c].expires \in Nat /\ req[w].own.expires \in Nat
    <3>1. tokens'[c] \in Row
      BY <2>2 DEF TypeOK
    <3> QED BY <2>2, <3>1, RowFields, RequestFields DEF Row
  <2>5. NoLonger(tokens'[c], req[w].own)
    BY <2>2, <2>3, <2>4, NoLongerIsTransitive
  <2> QED BY <2>1, <2>2, <2>3, <2>5 DEF Calling, Active
<1>2. Dating(w)'
  BY DEF Dating, Active
<1>3. Aiming(w)'
  <2>1. SUFFICES ASSUME req[w].stage \in {"lock", "countNow", "countHorizon", "revoke"}
                 PROVE  Aiming(w)'
    BY DEF Aiming
  <2> DEFINE t == req[w].target
  <2>2. /\ t \in Token /\ tokens[t].present /\ req[w].copy.full = tokens[t].full
        /\ NoLonger(tokens[t], req[w].copy) /\ req[w].copy.present /\ ~req[w].copy.revoked
    BY <2>1 DEF Aiming
  <2>3. tokens'[t].present /\ tokens'[t].full = tokens[t].full /\ NoLonger(tokens'[t], tokens[t])
    BY <2>2 DEF RowsStay
  <2>4. tokens'[t].expires \in Nat /\ tokens[t].expires \in Nat /\ req[w].copy.expires \in Nat
    <3>1. tokens'[t] \in Row
      BY <2>2 DEF TypeOK
    <3> QED BY <2>2, <3>1, RowFields, RequestFields DEF Row
  <2>5. NoLonger(tokens'[t], req[w].copy)
    BY <2>2, <2>3, <2>4, NoLongerIsTransitive
  <2> QED BY <2>1, <2>2, <2>3, <2>5 DEF Aiming
<1> QED BY <1>1, <1>2, <1>3

\* What a guard has established stays so through a step that is no revocation.
GuardsKept ==
    \A t \in Token : tokens[t].present =>
        /\ \A moment \in Nat : moment <= clock /\ Another(t, moment) => Another(t, moment)'
        /\ ~limited' =>
             /\ AnotherForGood(t) => AnotherForGood(t)'
             /\ \A h \in Nat : CutPast(h)' => CutPast(h) \/ AnotherForGood(t)'

LEMMA GuardStays ==
    ASSUME TypeOK, NEW w \in Reqs, req'[w] = req[w], clock' >= clock, clock \in Nat,
           clock' \in Nat, limited => limited', mutex' = mutex, GuardsKept, Aiming(w), Guarding(w)
    PROVE  Guarding(w)'
<1>1. SUFFICES ASSUME req[w].stage \in GuardStage
               PROVE  Guarding(w)'
  BY DEF Guarding
<1> DEFINE t == req[w].target
           moment == req[w].now
           copy == req[w].copy
<1>2. t \in Token /\ tokens[t].present
  BY <1>1 DEF Aiming, GuardStage
<1>3. moment \in Nat /\ Horizon(moment) \in Nat
  BY RequestFields, TokenAssumption DEF Horizon
<1>4. /\ mutex = w /\ moment <= clock
      /\ req[w].stage # "revoke" => copy.full
      /\ req[w].stage # "countNow" /\ copy.full /\ Usable(copy, moment) => Another(t, moment)
      /\ ~limited /\ CutPast(Horizon(moment)) => AnotherForGood(t)
      /\ ~limited /\ req[w].stage = "revoke" =>
            ~copy.full \/ copy.expires # 0 \/ AnotherForGood(t)
  BY <1>1 DEF Guarding
<1>5. mutex' = w /\ moment <= clock'
  BY <1>3, <1>4
<1>6. Another(t, moment) => Another(t, moment)'
  BY <1>2, <1>3, <1>4 DEF GuardsKept
<1>7. ~limited' /\ AnotherForGood(t) => AnotherForGood(t)'
  BY <1>2 DEF GuardsKept
<1>8. ~limited' /\ CutPast(Horizon(moment))' => AnotherForGood(t)'
  <2>1. ASSUME ~limited', CutPast(Horizon(moment))' PROVE AnotherForGood(t)'
    <3>1. CutPast(Horizon(moment)) \/ AnotherForGood(t)'
      BY <1>2, <1>3, <2>1 DEF GuardsKept, Horizon
    <3>2. CASE CutPast(Horizon(moment))
      <4>1. AnotherForGood(t)
        BY <1>4, <2>1, <3>2
      <4> QED BY <1>7, <2>1, <4>1
    <3> QED BY <3>1, <3>2
  <2> QED BY <2>1
<1> QED BY <1>1, <1>4, <1>5, <1>6, <1>7, <1>8 DEF Guarding, Usable

-----------------------------------------------------------------------------
(* The steps that leave the tokens alone.                                  *)

LEMMA RequestStep ==
    ASSUME AdminInv, TypeOK', clock' = clock, NEW r \in Reqs,
           \A w \in Reqs \ {r} : req'[w] = req[w],
           limited => limited', RowsStay, RotationNeverExtends', NeverUnadministrable',
           ~limited' => \A t \in Token : tokens'[t].expires <= clock + MaxRotationGrace,
           \A w \in Reqs : req'[w].stage # "done" => ~tokens'[w].present,
           Calling(r)', Dating(r)', Aiming(r)', Guarding(r)',
           \A w \in Reqs \ {r} : Guarding(w)'
    PROVE  AdminInv'
<1>1. ASSUME NEW w \in Reqs, w # r
      PROVE  Calling(w)' /\ Dating(w)' /\ Aiming(w)'
  BY <1>1, OthersStay DEF AdminInv
<1>2. clock' >= 1
  BY DEF AdminInv
<1> QED BY <1>1, <1>2 DEF AdminInv

\* Nobody else is past the mutex.
Alone(r) == \A w \in Reqs \ {r} : req[w].stage \notin GuardStage

LEMMA QuietStep ==
    ASSUME AdminInv, UNCHANGED <<clock, tokens, born>>, limited' \in {limited, TRUE},
           NEW r \in Reqs, NEW next \in Request, req' = [req EXCEPT ![r] = next],
           mutex' \in Reqs \cup {NoReq},
           req[r].stage # "done",
           \/ ~next.own.full \/ next.own = req[r].own
           \/ \E t \in Token : next.own = tokens[t],
           mutex' = mutex \/ Alone(r),
           Calling(r)', Dating(r)', Aiming(r)', Guarding(r)'
    PROVE  AdminInv'
<1>t. TypeOK /\ clock \in Nat /\ limited \in BOOLEAN
  BY DEF AdminInv, TypeOK
<1>1. req' \in [Reqs -> Request] /\ req'[r] = next /\ \A w \in Reqs \ {r} : req'[w] = req[w]
  BY <1>t DEF TypeOK
<1>2. TypeOK'
  BY <1>t, <1>1 DEF TypeOK
<1>3. RowsStay
  <2>1. \A t \in Token : tokens[t].expires \in Nat
    BY <1>t, RowFields
  <2> QED BY <2>1 DEF RowsStay, NoLonger
<1>4. RotationNeverExtends' /\ NeverUnadministrable'
  BY DEF AdminInv, RotationNeverExtends, NeverUnadministrable
<1>5. \A w \in Reqs : req'[w].stage # "done" => ~tokens'[w].present
  BY <1>1 DEF AdminInv
<1>6. GuardsKept
  <2>1. \A t, moment : Another(t, moment) => Another(t, moment)'
    BY DEF Another, FullTokens
  <2>2. \A t : AnotherForGood(t) => AnotherForGood(t)'
    BY DEF AnotherForGood, ForGood
  <2>3. \A h : CutPast(h)' => CutPast(h)
    BY <1>1 DEF CutPast
  <2> QED BY <2>1, <2>2, <2>3 DEF GuardsKept
<1>7. ASSUME NEW w \in Reqs \ {r}
      PROVE  Guarding(w)'
  <2>1. CASE mutex' = mutex
    <3>1. clock' >= clock /\ clock' \in Nat /\ Aiming(w) /\ Guarding(w) /\ req'[w] = req[w]
      BY <1>t, <1>1, <1>7 DEF AdminInv
    <3> QED BY <1>t, <1>6, <2>1, <3>1, GuardStays
  <2>2. CASE Alone(r)
    BY <1>1, <1>7, <2>2 DEF Alone, Guarding
  <2> QED BY <2>1, <2>2
<1>8. ~limited' => \A t \in Token : tokens'[t].expires <= clock + MaxRotationGrace
  BY DEF AdminInv
<1>9. clock' = clock
  OBVIOUS
<1>10. limited => limited'
  <2>1. limited' = limited \/ limited' = TRUE
    OBVIOUS
  <2> QED BY <2>1
<1> QED BY <1>1, <1>2, <1>3, <1>4, <1>5, <1>7, <1>8, <1>9, <1>10, RequestStep

LEMMA EmptyRequests ==
    /\ NoRow \in Row /\ ~NoRow.full
    /\ Fresh \in Request /\ Done \in Request
    /\ Fresh.stage = "idle" /\ ~Fresh.own.full
    /\ Done.stage = "done" /\ ~Done.own.full
<1>1. NoRow \in Row /\ ~NoRow.full
  BY DEF NoRow, Issued, Row, NoPrincipal
<1> QED BY <1>1 DEF Fresh, Done, Request, Stage, Kind

\* A request that is over owes nothing.
LEMMA OverAndDone ==
    ASSUME NEW r \in Reqs, req'[r] = Done
    PROVE  Calling(r)' /\ Dating(r)' /\ Aiming(r)' /\ Guarding(r)'
BY EmptyRequests DEF Calling, Dating, Aiming, Guarding, GuardStage, Active

\* A request that goes on under the same caller.
LEMMA CallStays ==
    ASSUME NEW r \in Reqs, Calling(r), Active(r), UNCHANGED <<clock, tokens, born, limited>>,
           req'[r].caller = req[r].caller, req'[r].own = req[r].own, req'[r].began = req[r].began
    PROVE  Calling(r)'
BY DEF Calling, Active

LEMMA AuthenticateStep ==
    ASSUME AdminInv, NEW r \in Reqs, NEW t \in Token, NEW kind \in Kind, Authenticate(r, t, kind)
    PROVE  AdminInv'
<1>t. TypeOK /\ clock \in Nat /\ clock >= 1
  BY DEF AdminInv, TypeOK
<1> DEFINE to == IF kind = "revoke" THEN "list" ELSE "begin"
           next == [Fresh EXCEPT !.stage = to, !.kind = kind, !.began = clock, !.caller = t,
                                 !.own = tokens[t]]
<1>1. /\ req[r].stage = "idle" /\ req' = [req EXCEPT ![r] = next]
      /\ UNCHANGED <<clock, tokens, mutex, born, limited>>
      /\ tokens[t].present
  BY DEF Authenticate, Usable
<1>2. to \in {"list", "begin"} /\ (to = "begin" => kind \in {"mint", "rotate"})
  BY DEF Kind
<1>3. tokens[t] \in Row /\ tokens[t].expires \in Nat
  BY <1>t, RowFields
<1> HIDE DEF to
<1>4. /\ next \in Request /\ next.stage = to /\ next.kind = kind /\ next.began = clock
      /\ next.caller = t /\ next.own = tokens[t]
  BY <1>t, <1>2, <1>3, EmptyRequests DEF Fresh, Request, Stage
<1> HIDE DEF next
<1>5. req'[r] = next
  BY <1>t, <1>1 DEF TypeOK
<1>6. Calling(r)'
  <2>1. born[t] # 0 => tokens[t].expires # 0 /\ tokens[t].expires <= born[t]
    BY <1>1 DEF AdminInv, RotationNeverExtends
  <2>2. ~limited => tokens[t].expires <= clock + MaxRotationGrace
    BY DEF AdminInv
  <2>3. Latency \in Nat /\ clock <= clock + Latency
    BY <1>t, TokenAssumption
  <2>4. NoLonger(tokens[t], tokens[t])
    BY <1>3 DEF NoLonger
  <2> QED BY <1>t, <1>1, <1>4, <1>5, <2>1, <2>2, <2>3, <2>4 DEF Calling
<1>7. Dating(r)' /\ Aiming(r)' /\ Guarding(r)'
  BY <1>2, <1>4, <1>5 DEF Dating, Aiming, Guarding, GuardStage, Active
<1>8. mutex' \in Reqs \cup {NoReq}
  BY <1>t, <1>1 DEF TypeOK
<1> QED BY <1>1, <1>4, <1>6, <1>7, <1>8, QuietStep

LEMMA ReadClockStep ==
    ASSUME AdminInv, NEW r \in Reqs, Begin(r)
    PROVE  AdminInv'
<1>t. TypeOK /\ clock \in Nat /\ Calling(r) /\ Dating(r)
  BY DEF AdminInv, TypeOK
<1> DEFINE next == [req[r] EXCEPT !.now = clock, !.stage = req[r].kind]
<1>1. /\ req[r].stage = "begin" /\ req' = [req EXCEPT ![r] = next]
      /\ UNCHANGED <<clock, tokens, mutex, born, limited>>
  BY <1>t DEF Begin, TypeOK
<1>2. req[r].kind \in {"mint", "rotate"} /\ req[r] \in Request
  BY <1>t, <1>1, RequestFields DEF Dating
<1>3. /\ next \in Request /\ next.stage = req[r].kind /\ next.now = clock
      /\ next.caller = req[r].caller /\ next.own = req[r].own /\ next.began = req[r].began
  BY <1>t, <1>2 DEF Request, Stage
<1> HIDE DEF next
<1>4. req'[r] = next /\ Active(r)
  BY <1>t, <1>1 DEF TypeOK, Active
<1>5. Calling(r)'
  BY <1>t, <1>1, <1>3, <1>4, CallStays
<1>6. req[r].began <= clock
  BY <1>t, <1>4 DEF Calling
<1>7. Dating(r)' /\ Aiming(r)' /\ Guarding(r)'
  BY <1>t, <1>1, <1>2, <1>3, <1>4, <1>6 DEF Dating, Aiming, Guarding, GuardStage, Active
<1>8. mutex' \in Reqs \cup {NoReq}
  BY <1>t, <1>1 DEF TypeOK
<1> QED BY <1>1, <1>3, <1>5, <1>7, <1>8, QuietStep

LEMMA ListStep ==
    ASSUME AdminInv, NEW r \in Reqs, NEW t \in Token, List(r, t)
    PROVE  AdminInv'
<1>t. TypeOK /\ clock \in Nat /\ Calling(r)
  BY DEF AdminInv, TypeOK
<1> DEFINE next == [req[r] EXCEPT !.target = t, !.copy = tokens[t], !.stage = "lock"]
<1>1. req[r].stage = "list" /\ UNCHANGED <<clock, tokens, mutex, born, limited>>
  BY DEF List
<1>2. mutex' \in Reqs \cup {NoReq}
  BY <1>t, <1>1 DEF TypeOK
<1>3. CASE req' = [req EXCEPT ![r] = Done]
  <2>1. req'[r] = Done
    BY <1>t, <1>3 DEF TypeOK
  <2> QED BY <1>1, <1>2, <1>3, <2>1, EmptyRequests, OverAndDone, QuietStep
<1>4. CASE req' = [req EXCEPT ![r] = next] /\ tokens[t].present /\ ~tokens[t].revoked
  <2>1. req[r] \in Request /\ tokens[t] \in Row /\ tokens[t].expires \in Nat
    BY <1>t, RequestFields, RowFields
  <2>2. /\ next \in Request /\ next.stage = "lock" /\ next.target = t /\ next.copy = tokens[t]
        /\ next.caller = req[r].caller /\ next.own = req[r].own /\ next.began = req[r].began
    BY <2>1 DEF Request, Stage
  <2> HIDE DEF next
  <2>3. req'[r] = next /\ Active(r)
    BY <1>t, <1>1, <1>4 DEF TypeOK, Active
  <2>4. Calling(r)'
    BY <1>t, <1>1, <2>2, <2>3, CallStays
  <2>5. NoLonger(tokens[t], tokens[t])
    BY <2>1 DEF NoLonger
  <2>6. Dating(r)' /\ Aiming(r)' /\ Guarding(r)'
    BY <1>1, <1>4, <2>2, <2>3, <2>5 DEF Dating, Aiming, Guarding, GuardStage, Active
  <2> QED BY <1>1, <1>2, <1>4, <2>2, <2>4, <2>6, QuietStep
<1> QED
  <2>1. \/ req' = [req EXCEPT ![r] = Done]
        \/ req' = [req EXCEPT ![r] = next] /\ tokens[t].present /\ ~tokens[t].revoked
    BY <1>t DEF List, TypeOK
  <2> QED BY <1>3, <1>4, <2>1

\* The guard reads the clock: no life was cut to end past its horizon yet.
LEMMA LockStep ==
    ASSUME AdminInv, NEW r \in Reqs, Lock(r)
    PROVE  AdminInv'
<1>t. TypeOK /\ clock \in Nat /\ Calling(r) /\ Dating(r) /\ Aiming(r)
  BY DEF AdminInv, TypeOK
<1> DEFINE copy == req[r].copy
           to == IF copy.full THEN After("lock", copy, clock) ELSE "revoke"
           next == [req[r] EXCEPT !.now = clock, !.stage = to]
<1>1. /\ req[r].stage = "lock" /\ mutex = NoReq /\ mutex' = r
      /\ req' = [req EXCEPT ![r] = next]
      /\ UNCHANGED <<clock, tokens, born, limited>>
  BY <1>t DEF Lock, TypeOK
<1>2. /\ to \in GuardStage
      /\ to # "revoke" => copy.full
      /\ to # "countNow" => ~(copy.full /\ Usable(copy, clock))
      /\ to = "revoke" => ~copy.full \/ copy.expires # 0
  BY DEF After, GuardStage
<1> HIDE DEF to
<1>3. req[r] \in Request
  BY <1>t, RequestFields
<1>4. /\ next \in Request /\ next.stage = to /\ next.now = clock /\ next.copy = copy
      /\ next.target = req[r].target
      /\ next.caller = req[r].caller /\ next.own = req[r].own /\ next.began = req[r].began
  <2>1. to \in Stage
    BY <1>2 DEF GuardStage, Stage
  <2> QED BY <1>t, <1>3, <2>1 DEF Request
<1> HIDE DEF next
<1>5. /\ req'[r] = next /\ Active(r)
      /\ \A w \in Reqs \ {r} : req'[w] = req[w]
  BY <1>t, <1>1 DEF TypeOK, Active
<1>6. Calling(r)'
  BY <1>t, <1>1, <1>4, <1>5, CallStays
<1>7. Alone(r)
  BY <1>1, TokenAssumption DEF AdminInv, Guarding, Alone
<1>8. Dating(r)' /\ Aiming(r)'
  BY <1>t, <1>1, <1>2, <1>4, <1>5 DEF Dating, Aiming, GuardStage, Active
<1>9. ~limited => ~CutPast(Horizon(clock))'
  <2>1. SUFFICES ASSUME ~limited PROVE ~CutPast(Horizon(clock))'
    OBVIOUS
  <2>2. ASSUME NEW t \in Token PROVE ~(tokens'[t].expires > Horizon(clock))
    <3>1. tokens[t].expires <= clock + MaxRotationGrace
      BY <2>1 DEF AdminInv
    <3>2. tokens[t].expires \in Nat /\ MaxRotationGrace \in Nat
      BY <1>t, RowFields, TokenAssumption
    <3> QED BY <1>t, <1>1, <3>1, <3>2 DEF Horizon
  <2>3. ASSUME NEW w \in Reqs, req[w].own.full PROVE ~(req[w].own.expires > Horizon(clock))
    <3>1. Calling(w) /\ Dating(w)
      BY DEF AdminInv
    <3>2. req[w].own.expires <= clock + MaxRotationGrace
      BY <2>1, <2>3, <3>1 DEF Calling, Dating
    <3>3. req[w].own.expires \in Nat /\ MaxRotationGrace \in Nat
      BY <1>t, RequestFields, TokenAssumption
    <3> QED BY <1>t, <3>2, <3>3 DEF Horizon
  <2>4. \A w \in Reqs : req'[w].own = req[w].own
    BY <1>4, <1>5
  <2>5. clock' = clock
    BY <1>1
  <2> QED BY <2>2, <2>3, <2>4, <2>5 DEF CutPast, Horizon
<1>10. Guarding(r)'
  <2>1. clock <= clock /\ req'[r].now = clock /\ req'[r].copy = copy /\ req'[r].stage = to
    BY <1>t, <1>4, <1>5
  <2>2. CutPast(Horizon(req[r].now))' = CutPast(Horizon(clock))'
    BY <1>1, <2>1
  <2> QED BY <1>1, <1>2, <1>9, <2>1, <2>2 DEF Guarding
<1>11. mutex' \in Reqs \cup {NoReq} /\ req[r].stage # "done"
  BY <1>1
<1> QED BY <1>1, <1>4, <1>6, <1>7, <1>8, <1>10, <1>11, QuietStep

\* A guard gives up: it refuses the revocation.
LEMMA RefuseStep ==
    ASSUME AdminInv, NEW r \in Reqs, req[r].stage \in GuardStage, Return(r),
           UNCHANGED <<clock, tokens, born, limited>>
    PROVE  AdminInv'
<1>1. req' = [req EXCEPT ![r] = Done] /\ mutex' = NoReq
  BY DEF Return
<1>2. req'[r] = Done
  BY <1>1 DEF AdminInv, TypeOK
<1>3. Alone(r)
  BY DEF AdminInv, Guarding, Alone
<1>4. req[r].stage # "done"
  BY DEF GuardStage
<1> QED BY <1>1, <1>2, <1>3, <1>4, EmptyRequests, OverAndDone, QuietStep

LEMMA CountNowStep ==
    ASSUME AdminInv, NEW r \in Reqs, CountNow(r)
    PROVE  AdminInv'
<1>t. TypeOK /\ clock \in Nat /\ Calling(r) /\ Dating(r) /\ Aiming(r) /\ Guarding(r)
  BY DEF AdminInv, TypeOK
<1> DEFINE copy == req[r].copy
           moment == req[r].now
           t == req[r].target
           to == After("countNow", copy, moment)
           next == [req[r] EXCEPT !.stage = to]
<1>1. req[r].stage = "countNow" /\ UNCHANGED <<clock, tokens, born, limited>>
  BY DEF CountNow
<1>2. CASE Refuses(moment) /\ Return(r)
  BY <1>1, <1>2, RefuseStep DEF GuardStage
<1>3. CASE ~Refuses(moment) /\ mutex' = mutex /\ req' = [req EXCEPT ![r] = next]
  <2>1. to \in {"revoke", "countHorizon"} /\ (to = "revoke" => copy.expires # 0)
    BY DEF After
  <2> HIDE DEF to
  <2>2. req[r] \in Request
    BY <1>t, RequestFields
  <2>3. /\ next \in Request /\ next.stage = to /\ next.now = moment /\ next.copy = copy
        /\ next.target = t
        /\ next.caller = req[r].caller /\ next.own = req[r].own /\ next.began = req[r].began
    BY <2>1, <2>2 DEF Request, Stage
  <2> HIDE DEF next
  <2>4. req'[r] = next /\ Active(r) /\ \A w \in Reqs \ {r} : req'[w] = req[w]
    BY <1>t, <1>1, <1>3 DEF TypeOK, Active
  <2>5. Calling(r)'
    BY <1>t, <1>1, <2>3, <2>4, CallStays
  <2>6. Dating(r)' /\ Aiming(r)'
    BY <1>t, <1>1, <2>1, <2>3, <2>4 DEF Dating, Aiming, Active
  <2>7. \E x \in FullTokens(tokens, moment) : x # t
    <3>1. ~Refuses(moment)
      BY <1>3
    <3> HIDE DEF moment, t
    <3> QED BY ONLY <3>1, TwoAreOneMore
  <2>8. Guarding(r)'
    <3>1. /\ mutex = r /\ moment <= clock /\ copy.full
          /\ ~limited /\ CutPast(Horizon(moment)) => AnotherForGood(t)
      BY <1>t, <1>1 DEF Guarding, GuardStage
    <3>2. /\ req'[r].stage = to /\ req'[r].now = moment /\ req'[r].copy = copy /\ req'[r].target = t
          /\ \A w \in Reqs : req'[w].own = req[w].own
      BY <2>3, <2>4
    <3>3. Another(req[r].target, req[r].now)'
      BY <1>1, <2>7, <3>2 DEF Another, FullTokens
    <3>4. CutPast(Horizon(req[r].now))' => CutPast(Horizon(moment))
      BY <1>1, <3>2 DEF CutPast, Horizon
    <3>5. AnotherForGood(t) => AnotherForGood(req[r].target)'
      BY <1>1, <3>2 DEF AnotherForGood, ForGood
    <3> QED BY <1>1, <1>3, <2>1, <3>1, <3>2, <3>3, <3>4, <3>5 DEF Guarding, GuardStage
  <2>9. mutex' \in Reqs \cup {NoReq} /\ req[r].stage # "done"
    BY <1>t, <1>1, <1>3 DEF TypeOK
  <2> QED BY <1>1, <1>3, <2>3, <2>5, <2>6, <2>8, <2>9, QuietStep
<1> QED
  <2>1. \/ Refuses(moment) /\ Return(r)
        \/ ~Refuses(moment) /\ mutex' = mutex /\ req' = [req EXCEPT ![r] = next]
    BY <1>t DEF CountNow, TypeOK
  <2> QED BY <1>2, <1>3, <2>1

\* Who is counted at the horizon will never stop, or was cut after the guard's reading.
LEMMA CountHorizonStep ==
    ASSUME AdminInv, NEW r \in Reqs, CountHorizon(r)
    PROVE  AdminInv'
<1>t. TypeOK /\ clock \in Nat /\ Calling(r) /\ Dating(r) /\ Aiming(r) /\ Guarding(r)
  BY DEF AdminInv, TypeOK
<1> DEFINE copy == req[r].copy
           moment == req[r].now
           t == req[r].target
           next == [req[r] EXCEPT !.stage = "revoke"]
<1>1. req[r].stage = "countHorizon" /\ UNCHANGED <<clock, tokens, born, limited>>
  BY DEF CountHorizon
<1>2. CASE Refuses(Horizon(moment)) /\ Return(r)
  BY <1>1, <1>2, RefuseStep DEF GuardStage
<1>3. CASE ~Refuses(Horizon(moment)) /\ mutex' = mutex /\ req' = [req EXCEPT ![r] = next]
  <2>2. req[r] \in Request
    BY <1>t, RequestFields
  <2>3. /\ next \in Request /\ next.stage = "revoke" /\ next.now = moment /\ next.copy = copy
        /\ next.target = t
        /\ next.caller = req[r].caller /\ next.own = req[r].own /\ next.began = req[r].began
    BY <2>2 DEF Request, Stage
  <2> HIDE DEF next
  <2>4. req'[r] = next /\ Active(r) /\ \A w \in Reqs \ {r} : req'[w] = req[w]
    BY <1>t, <1>1, <1>3 DEF TypeOK, Active
  <2>5. Calling(r)'
    BY <1>t, <1>1, <2>3, <2>4, CallStays
  <2>6. Dating(r)' /\ Aiming(r)'
    BY <1>t, <1>1, <2>3, <2>4 DEF Dating, Aiming, Active
  <2>7. PICK x \in FullTokens(tokens, Horizon(moment)) : x # t
    <3>1. ~Refuses(Horizon(moment))
      BY <1>3
    <3> HIDE DEF moment, t
    <3> QED BY ONLY <3>1, TwoAreOneMore
  <2>8. ForGood(x) \/ CutPast(Horizon(moment))
    <3>1. /\ x \in Token /\ tokens[x].full /\ tokens[x].present /\ ~tokens[x].revoked
          /\ tokens[x].expires = 0 \/ Horizon(moment) < tokens[x].expires
      BY DEF FullTokens, Usable
    <3>2. tokens[x].expires \in Nat /\ Horizon(moment) \in Nat
      BY <1>t, <3>1, RowFields, RequestFields, TokenAssumption DEF Horizon
    <3>3. CASE tokens[x].expires = 0
      BY <3>1, <3>3 DEF ForGood
    <3>4. CASE tokens[x].expires > Horizon(moment)
      BY <3>1, <3>4 DEF CutPast
    <3> QED BY <3>1, <3>2, <3>3, <3>4
  <2>9. Guarding(r)'
    <3>1. /\ mutex = r /\ moment <= clock
          /\ copy.full /\ Usable(copy, moment) => Another(t, moment)
          /\ ~limited /\ CutPast(Horizon(moment)) => AnotherForGood(t)
      BY <1>t, <1>1 DEF Guarding, GuardStage
    <3>2. ~limited => AnotherForGood(t)
      <4>1. x \in Token
        BY DEF FullTokens
      <4> QED BY <2>7, <2>8, <3>1, <4>1 DEF AnotherForGood
    <3>3. /\ req'[r].stage = "revoke" /\ req'[r].now = moment /\ req'[r].copy = copy
          /\ req'[r].target = t
      BY <2>3, <2>4
    <3>4. Another(t, moment) => Another(req[r].target, req[r].now)'
      BY <1>1, <3>3 DEF Another, FullTokens
    <3>5. AnotherForGood(t) => AnotherForGood(req[r].target)'
      BY <1>1, <3>3 DEF AnotherForGood, ForGood
    <3> QED BY <1>1, <1>3, <3>1, <3>2, <3>3, <3>4, <3>5 DEF Guarding, GuardStage
  <2>10. mutex' \in Reqs \cup {NoReq} /\ req[r].stage # "done"
    BY <1>t, <1>1, <1>3 DEF TypeOK
  <2> QED BY <1>1, <1>3, <2>3, <2>5, <2>6, <2>9, <2>10, QuietStep
<1> QED
  <2>1. \/ Refuses(Horizon(moment)) /\ Return(r)
        \/ ~Refuses(Horizon(moment)) /\ mutex' = mutex /\ req' = [req EXCEPT ![r] = next]
    BY <1>t DEF CountHorizon, TypeOK
  <2> QED BY <1>2, <1>3, <2>1

-----------------------------------------------------------------------------
(* Minting, rotation and revocation, and the clock.                        *)

LEMMA MintStep ==
    ASSUME AdminInv, NEW r \in Reqs, NEW full \in BOOLEAN, NEW life \in Lifetimes,
           Mint(r, full, life)
    PROVE  AdminInv'
<1>t. TypeOK /\ clock \in Nat /\ clock >= 1
  BY DEF AdminInv, TypeOK
<1> DEFINE e == Expiry(req[r].now, life)
           new == Issued(r, full, e)
<1>1. /\ req[r].stage = "mint" /\ tokens' = [tokens EXCEPT ![r] = new]
      /\ born' = [born EXCEPT ![r] = e] /\ limited' = (limited \/ life # 0)
      /\ req' = [req EXCEPT ![r] = Done] /\ clock' = clock /\ mutex' = mutex
  BY DEF Mint
<1>2. e \in Nat /\ (life = 0 => e = 0) /\ r \in Token /\ life \in Nat
  BY <1>t, RequestFields, TokenAssumption DEF Expiry
<1> HIDE DEF e
<1>3. /\ new \in Row /\ new.present /\ new.full = full /\ new.expires = e /\ ~new.revoked
  BY <1>2 DEF Issued, Row
<1> HIDE DEF new
<1>4. /\ tokens' \in [Token -> Row] /\ tokens'[r] = new
      /\ \A x \in Token \ {r} : tokens'[x] = tokens[x]
  BY <1>t, <1>1, <1>2, <1>3 DEF TypeOK
<1>5. /\ born' \in [Token -> Nat] /\ born'[r] = e /\ \A x \in Token \ {r} : born'[x] = born[x]
  BY <1>t, <1>1, <1>2 DEF TypeOK
<1>6. /\ req' \in [Reqs -> Request] /\ req'[r] = Done /\ \A w \in Reqs \ {r} : req'[w] = req[w]
  BY <1>t, <1>1, EmptyRequests DEF TypeOK
<1>7. TypeOK'
  BY <1>t, <1>1, <1>4, <1>5, <1>6 DEF TypeOK
<1>8. ~tokens[r].present
  BY <1>1 DEF AdminInv
<1>9. \A x \in Token : tokens[x].present => x # r /\ tokens'[x] = tokens[x]
  BY <1>4, <1>8
<1>10. RowsStay
  <2>1. \A x \in Token : tokens[x].expires \in Nat
    BY <1>t, RowFields
  <2> QED BY <1>5, <1>9, <2>1 DEF RowsStay, NoLonger
<1>11. RotationNeverExtends'
  BY <1>2, <1>3, <1>4, <1>5 DEF AdminInv, RotationNeverExtends
<1>12. NeverUnadministrable'
  BY <1>1, <1>9 DEF AdminInv, NeverUnadministrable
<1>13. ~limited' => \A x \in Token : tokens'[x].expires <= clock + MaxRotationGrace
  <2>1. ~limited' => ~limited /\ e = 0
    BY <1>1, <1>2
  <2>2. 0 <= clock + MaxRotationGrace
    BY <1>t, TokenAssumption
  <2> QED BY <1>3, <1>4, <2>1, <2>2 DEF AdminInv
<1>14. \A w \in Reqs : req'[w].stage # "done" => ~tokens'[w].present
  BY <1>4, <1>6, EmptyRequests, TokenAssumption DEF AdminInv
<1>15. GuardsKept
  <2>1. \A t, moment : Another(t, moment) => Another(t, moment)'
    <3>1. \A moment : \A x \in Token : x \in FullTokens(tokens, moment) => x \in FullTokens(tokens, moment)'
      BY <1>9 DEF FullTokens, Usable
    <3>2. \A moment : FullTokens(tokens, moment) \subseteq Token
      BY DEF FullTokens
    <3> QED BY <3>1, <3>2 DEF Another
  <2>2. \A t : AnotherForGood(t) => AnotherForGood(t)'
    BY <1>9 DEF AnotherForGood, ForGood
  <2>3. ASSUME ~limited', NEW h \in Nat, CutPast(h)' PROVE CutPast(h)
    <3>0. life = 0
      BY <1>1, <2>3
    <3>1. ~(tokens'[r].expires > h)
      BY <1>2, <1>3, <1>4, <2>3, <3>0
    <3>2. CASE \E t \in Token : tokens'[t].full /\ tokens'[t].expires > h
      <4>1. PICK t \in Token : tokens'[t].full /\ tokens'[t].expires > h
        BY <3>2
      <4> QED BY <1>4, <3>1, <4>1 DEF CutPast
    <3>3. CASE \E w \in Reqs : req'[w].own.full /\ req'[w].own.expires > h
      <4>1. PICK w \in Reqs : req'[w].own.full /\ req'[w].own.expires > h
        BY <3>3
      <4>2. req'[w] = req[w]
        BY <1>6, <4>1, EmptyRequests
      <4> QED BY <4>1, <4>2 DEF CutPast
    <3> QED BY <2>3, <3>2, <3>3 DEF CutPast
  <2> QED BY <2>1, <2>2, <2>3 DEF GuardsKept
<1>16. ASSUME NEW w \in Reqs, w # r PROVE Guarding(w)'
  <2>1. clock' >= clock /\ clock' \in Nat /\ Aiming(w) /\ Guarding(w) /\ req'[w] = req[w]
    BY <1>t, <1>1, <1>6, <1>16 DEF AdminInv
  <2> QED BY <1>t, <1>1, <1>15, <2>1, GuardStays
<1>17. (limited => limited') /\ clock' = clock
  BY <1>1
<1> QED BY <1>6, <1>7, <1>10, <1>11, <1>12, <1>13, <1>14, <1>16, <1>17, OverAndDone, RequestStep

\* The two rows of a rotation.
LEMMA RotatedRows ==
    ASSUME TypeOK, NEW old \in Token, NEW new \in Token, old # new, NEW cutoff \in Nat,
           NEW e \in Nat, tokens' = RotateTable(tokens, old, new, cutoff, e)
    PROVE  /\ tokens' \in [Token -> Row]
           /\ tokens'[new].present /\ ~tokens'[new].revoked
           /\ tokens'[new].full = tokens[old].full /\ tokens'[new].expires = e
           /\ tokens'[old].present = tokens[old].present
           /\ tokens'[old].full = tokens[old].full /\ tokens'[old].revoked = tokens[old].revoked
           /\ tokens'[old].expires = IF tokens[old].expires = 0 \/ tokens[old].expires > cutoff
                                     THEN cutoff ELSE tokens[old].expires
           /\ \A x \in Token \ {old, new} : tokens'[x] = tokens[x]
<1> DEFINE until == IF tokens[old].expires = 0 \/ tokens[old].expires > cutoff
                    THEN cutoff ELSE tokens[old].expires
           first == [tokens[old] EXCEPT !.expires = until]
           second == [Issued(new, tokens[old].full, e) EXCEPT !.principal = tokens[old].principal]
<1>1. tokens \in [Token -> Row] /\ tokens[old] \in Row /\ tokens[old].expires \in Nat
  BY RowFields DEF TypeOK
<1>2. until \in Nat
  BY <1>1
<1>3. tokens' = [tokens EXCEPT ![old] = first, ![new] = second]
  BY <1>1 DEF RotateTable
<1> HIDE DEF until
<1>4. /\ first \in Row /\ first.present = tokens[old].present /\ first.full = tokens[old].full
      /\ first.revoked = tokens[old].revoked /\ first.expires = until
  BY <1>1, <1>2 DEF Row
<1>5. /\ second \in Row /\ second.present /\ second.full = tokens[old].full
      /\ second.expires = e /\ ~second.revoked
  BY <1>1 DEF Row, Issued
<1> HIDE DEF first, second
<1>6. /\ tokens' \in [Token -> Row] /\ tokens'[old] = first /\ tokens'[new] = second
      /\ \A x \in Token \ {old, new} : tokens'[x] = tokens[x]
  BY <1>1, <1>3, <1>4, <1>5
<1> QED BY <1>4, <1>5, <1>6 DEF until

\* The expiry a rotation gives the successor: the predecessor's as its request read it,
\* or a shorter one that is still to come.
LEMMA Successor ==
    ASSUME AdminInv, NEW r \in Reqs, NEW life \in Lifetimes, req[r].stage = "rotate",
           NEW e \in SuccessorExpiry(req[r].own, req[r].now, life)
    PROVE  LET own == req[r].own
               old == req[r].caller
           IN  /\ e \in Nat
               /\ own.expires # 0 => e # 0 /\ e <= own.expires
               /\ born[old] # 0 => e # 0 /\ e <= born[old]
               /\ e = own.expires \/ e > clock
               /\ life = 0 => e = own.expires
<1> DEFINE own == req[r].own
           old == req[r].caller
<1>t. TypeOK /\ clock \in Nat /\ Calling(r) /\ Dating(r)
  BY DEF AdminInv, TypeOK
<1>1. /\ old \in Token /\ clock <= req[r].began + Latency /\ req[r].began <= req[r].now
      /\ born[old] # 0 => own.expires # 0 /\ own.expires <= born[old]
      /\ req[r].now <= clock
  BY <1>t DEF Calling, Dating, Active
<1>2. /\ own.expires \in Nat /\ req[r].now \in Nat /\ req[r].began \in Nat /\ born[old] \in Nat
      /\ Latency \in Nat /\ life \in Nat
  BY <1>t, <1>1, RequestFields, TokenAssumption DEF TypeOK
<1>3. CASE life = 0
  <2>1. e = own.expires
    BY <1>3 DEF SuccessorExpiry
  <2> QED BY <1>1, <1>2, <2>1
<1>4. CASE life # 0
  <2>1. e = req[r].now + life /\ (own.expires = 0 \/ e <= own.expires)
    BY <1>4 DEF SuccessorExpiry, Expiry
  <2>2. life > Latency
    BY <1>4, TokenAssumption
  <2>3. e \in Nat /\ e > clock
    BY <1>t, <1>1, <1>2, <2>1, <2>2
  <2>4. e # 0
    BY <1>t, <2>3
  <2> HIDE DEF own, old
  <2>5. born[old] # 0 => e <= born[old]
    BY <1>1, <1>2, <2>1, <2>3
  <2> QED BY <1>4, <2>1, <2>3, <2>4, <2>5 DEF own, old
<1> QED BY <1>3, <1>4

LEMMA RotateStep ==
    ASSUME AdminInv, NEW r \in Reqs, NEW life \in Lifetimes, NEW grace \in 0..MaxRotationGrace,
           Rotate(r, life, grace)
    PROVE  AdminInv'
<1>t. TypeOK /\ clock \in Nat /\ clock >= 1 /\ Calling(r) /\ Dating(r)
  BY DEF AdminInv, TypeOK
<1> DEFINE own == req[r].own
           old == req[r].caller
           cutoff == req[r].now + grace
<1>1. /\ req[r].stage = "rotate" /\ limited' = (limited \/ life # 0)
      /\ req' = [req EXCEPT ![r] = Done] /\ clock' = clock /\ mutex' = mutex
  BY DEF Rotate
<1>2. CASE UNCHANGED <<tokens, born>>
  <2>1. limited' \in {limited, TRUE}
    <3>1. limited \in BOOLEAN
      BY <1>t DEF TypeOK
    <3> QED BY <1>1, <3>1
  <2>2. req'[r] = Done /\ mutex' \in Reqs \cup {NoReq}
    BY <1>t, <1>1 DEF TypeOK
  <2> QED BY <1>1, <1>2, <2>1, <2>2, EmptyRequests, OverAndDone, QuietStep
<1>3. ASSUME Rotatable(tokens, old), born' = [born EXCEPT ![r] = born[old]],
             NEW e \in SuccessorExpiry(own, req[r].now, life),
             tokens' = RotateTable(tokens, old, r, cutoff, e)
      PROVE  AdminInv'
  <2>1. /\ old \in Token /\ tokens[old].present /\ ~tokens[old].revoked /\ r \in Token
        /\ ~tokens[r].present /\ old # r
    BY <1>t, <1>1, <1>3, RequestFields DEF Calling, Active, Rotatable, AdminInv
  <2>2. /\ 1 <= req[r].began /\ req[r].began <= req[r].now /\ req[r].now <= clock
        /\ own.full = tokens[old].full /\ NoLonger(tokens[old], own)
        /\ ~limited => own.expires <= clock + MaxRotationGrace
    BY <1>t, <1>1 DEF Calling, Dating, Active
  <2>3. /\ own.expires \in Nat /\ req[r].now \in Nat /\ req[r].began \in Nat /\ grace \in Nat
        /\ grace <= MaxRotationGrace /\ MaxRotationGrace \in Nat /\ tokens[old].expires \in Nat
        /\ born[old] \in Nat
    BY <1>t, <2>1, RequestFields, RowFields, TokenAssumption DEF TypeOK
  <2>4. cutoff \in Nat /\ cutoff >= 1 /\ cutoff <= clock + MaxRotationGrace
    BY <1>t, <2>2, <2>3
  <2>5. /\ e \in Nat
        /\ own.expires # 0 => e # 0 /\ e <= own.expires
        /\ born[old] # 0 => e # 0 /\ e <= born[old]
        /\ e = own.expires \/ e > clock
        /\ life = 0 => e = own.expires
    BY <1>1, <1>3, Successor
  <2>6. /\ tokens' \in [Token -> Row]
        /\ tokens'[r].present /\ ~tokens'[r].revoked
        /\ tokens'[r].full = tokens[old].full /\ tokens'[r].expires = e
        /\ tokens'[old].present = tokens[old].present
        /\ tokens'[old].full = tokens[old].full /\ tokens'[old].revoked = tokens[old].revoked
        /\ tokens'[old].expires = IF tokens[old].expires = 0 \/ tokens[old].expires > cutoff
                                  THEN cutoff ELSE tokens[old].expires
        /\ \A x \in Token \ {old, r} : tokens'[x] = tokens[x]
    <3> HIDE DEF cutoff, old
    <3> QED BY <1>t, <1>3, <2>1, <2>4, <2>5, RotatedRows
  <2> HIDE DEF cutoff, old, own
  <2>7. /\ born' \in [Token -> Nat] /\ born'[r] = born[old]
        /\ \A x \in Token \ {r} : born'[x] = born[x]
    BY <1>t, <1>3, <2>1, <2>3 DEF TypeOK
  <2>8. /\ req' \in [Reqs -> Request] /\ req'[r] = Done
        /\ \A w \in Reqs \ {r} : req'[w] = req[w]
    BY <1>t, <1>1, EmptyRequests DEF TypeOK
  <2>9. limited' \in BOOLEAN /\ (limited => limited') /\ (~limited' => life = 0)
    BY <1>1
  <2>10. TypeOK'
    BY <1>t, <1>1, <2>6, <2>7, <2>8, <2>9 DEF TypeOK
  <2>11. /\ tokens'[old].expires \in Nat
         /\ tokens'[old].expires <= cutoff \/ tokens'[old].expires <= tokens[old].expires
         /\ tokens[old].expires # 0 =>
               tokens'[old].expires # 0 /\ tokens'[old].expires <= tokens[old].expires
    BY <2>3, <2>4, <2>6
  <2>12. RowsStay
    <3>1. SUFFICES ASSUME NEW x \in Token, tokens[x].present
                   PROVE  /\ tokens'[x].present /\ tokens'[x].full = tokens[x].full
                          /\ NoLonger(tokens'[x], tokens[x]) /\ born'[x] = born[x]
      BY DEF RowsStay
    <3>2. tokens[x].expires \in Nat /\ x # r
      BY <1>t, <2>1, <3>1, RowFields
    <3>3. CASE x = old
      BY <2>1, <2>6, <2>7, <2>11, <3>3 DEF NoLonger
    <3>4. CASE x # old
      BY <2>6, <2>7, <3>1, <3>2, <3>4 DEF NoLonger
    <3> QED BY <3>3, <3>4
  \* The successor will never stop if the predecessor would not have.
  <2>13. ForGood(old) => ForGood(r)' \/ limited'
    <3>1. ASSUME tokens[old].expires = 0, ~limited' PROVE e = 0
      BY <2>2, <2>5, <2>9, <3>1 DEF NoLonger
    <3> QED BY <2>1, <2>6, <3>1 DEF ForGood
  <2>14. \A x \in Token : ForGood(x) => x # r /\ (x # old => ForGood(x)')
    BY <2>1, <2>6 DEF ForGood
  <2>15. RotationNeverExtends'
    <3>1. SUFFICES ASSUME NEW x \in Token, tokens'[x].present, born'[x] # 0
                   PROVE  tokens'[x].expires # 0 /\ tokens'[x].expires <= born'[x]
      BY DEF RotationNeverExtends
    <3>2. CASE x = r
      BY <2>5, <2>6, <2>7, <3>1, <3>2
    <3>3. CASE x = old
      <4>1. tokens[old].expires # 0 /\ tokens[old].expires <= born[old] /\ born'[old] = born[old]
        BY <2>1, <2>7, <3>1, <3>3 DEF AdminInv, RotationNeverExtends
      <4> QED BY <2>3, <2>11, <3>3, <4>1
    <3>4. CASE x \notin {old, r}
      BY <2>6, <2>7, <3>1, <3>4 DEF AdminInv, RotationNeverExtends
    <3> QED BY <3>2, <3>3, <3>4
  <2>16. NeverUnadministrable'
    <3>1. SUFFICES ASSUME ~limited' PROVE \E x \in Token : ForGood(x)'
      BY DEF NeverUnadministrable, ForGood
    <3>2. PICK x \in Token : ForGood(x)
      BY <2>9, <3>1 DEF AdminInv, NeverUnadministrable, ForGood
    <3> QED BY <2>1, <2>13, <2>14, <3>1, <3>2
  <2>17. ~limited' => \A x \in Token : tokens'[x].expires <= clock + MaxRotationGrace
    <3>1. SUFFICES ASSUME ~limited', NEW x \in Token
                   PROVE  tokens'[x].expires <= clock + MaxRotationGrace
      OBVIOUS
    <3>2. ~limited /\ life = 0 /\ tokens[x].expires <= clock + MaxRotationGrace
      BY <2>9, <3>1 DEF AdminInv
    <3>3. CASE x = r
      BY <2>2, <2>5, <2>6, <3>2, <3>3
    <3>4. CASE x = old
      BY <1>t, <2>3, <2>4, <2>11, <3>2, <3>4
    <3>5. CASE x \notin {old, r}
      BY <2>6, <3>2, <3>5
    <3> QED BY <3>3, <3>4, <3>5
  <2>18. \A w \in Reqs : req'[w].stage # "done" => ~tokens'[w].present
    <3>1. SUFFICES ASSUME NEW w \in Reqs, req'[w].stage # "done"
                   PROVE  ~tokens'[w].present
      OBVIOUS
    <3>2. w # r /\ req'[w] = req[w] /\ w \in Token
      BY <2>8, <3>1, EmptyRequests, TokenAssumption
    <3>3. ~tokens[w].present
      BY <3>1, <3>2 DEF AdminInv
    <3> QED BY <2>1, <2>6, <3>2, <3>3
  <2>19. GuardsKept
    <3>1. SUFFICES ASSUME NEW t \in Token, tokens[t].present
                   PROVE  /\ \A moment \in Nat : moment <= clock /\ Another(t, moment) => Another(t, moment)'
                          /\ ~limited' =>
                               /\ AnotherForGood(t) => AnotherForGood(t)'
                               /\ \A h \in Nat : CutPast(h)' => CutPast(h) \/ AnotherForGood(t)'
      BY DEF GuardsKept
    <3>2. t # r
      BY <2>1, <3>1
    <3>3. ASSUME NEW moment \in Nat, moment <= clock, Another(t, moment) PROVE Another(t, moment)'
      <4>1. PICK x \in FullTokens(tokens, moment) : x # t
        BY <3>3 DEF Another
      <4>2. /\ x \in Token /\ tokens[x].full /\ tokens[x].present /\ ~tokens[x].revoked
            /\ tokens[x].expires = 0 \/ moment < tokens[x].expires
        BY DEF FullTokens, Usable
      <4>3. CASE x # old
        <5>1. tokens'[x] = tokens[x]
          BY <2>1, <2>6, <4>2, <4>3
        <5> QED BY <4>1, <4>2, <5>1 DEF Another, FullTokens, Usable
      <4>4. CASE x = old
        <5>1. e = 0 \/ moment < e
          <6>1. CASE e > clock
            BY <1>t, <2>5, <3>3, <6>1
          <6>2. CASE e = own.expires
            <7>1. own.expires = 0 \/ (tokens[old].expires # 0 /\ tokens[old].expires <= own.expires)
              BY <2>2 DEF NoLonger
            <7>2. tokens[old].expires = 0 \/ moment < tokens[old].expires
              BY <4>2, <4>4
            <7>3. own.expires = 0 \/ moment < own.expires
              BY <2>3, <7>1, <7>2
            <7> QED BY <6>2, <7>3
          <6> QED BY <2>5, <6>1, <6>2
        <5>2. r \in FullTokens(tokens, moment)'
          BY <2>1, <2>6, <4>2, <4>4, <5>1 DEF FullTokens, Usable
        <5> QED BY <3>2, <5>2 DEF Another
      <4> QED BY <4>3, <4>4
    <3>4. ASSUME ~limited', AnotherForGood(t) PROVE AnotherForGood(t)'
      <4>1. PICK x \in Token : x # t /\ ForGood(x)
        BY <3>4 DEF AnotherForGood
      <4>2. CASE x = old
        BY <2>1, <2>13, <3>2, <3>4, <4>1, <4>2 DEF AnotherForGood
      <4>3. CASE x # old
        BY <2>14, <4>1, <4>3 DEF AnotherForGood
      <4> QED BY <4>2, <4>3
    <3>5. ASSUME ~limited', NEW h \in Nat, CutPast(h)' PROVE CutPast(h) \/ AnotherForGood(t)'
      <4>1. CASE \E x \in Token : tokens'[x].full /\ tokens'[x].expires > h
        <5>1. PICK x \in Token : tokens'[x].full /\ tokens'[x].expires > h
          BY <4>1
        <5>2. CASE x = r
          <6>1. own.full /\ own.expires > h
            BY <2>2, <2>5, <2>6, <2>9, <3>5, <5>1, <5>2
          <6> QED BY <6>1 DEF CutPast, own
        <5>3. CASE x = old /\ tokens[old].expires # 0
          <6>1. tokens[old].full /\ tokens[old].expires > h
            BY <2>3, <2>6, <2>11, <3>5, <5>1, <5>3
          <6> QED BY <2>1, <6>1 DEF CutPast
        <5>4. CASE x = old /\ tokens[old].expires = 0
          <6>1. ForGood(old)
            BY <2>1, <2>6, <5>1, <5>4 DEF ForGood
          <6> QED BY <2>1, <2>13, <3>2, <3>5, <6>1 DEF AnotherForGood
        <5>5. CASE x \notin {old, r}
          BY <2>6, <5>1, <5>5 DEF CutPast
        <5> QED BY <5>2, <5>3, <5>4, <5>5
      <4>2. CASE \E w \in Reqs : req'[w].own.full /\ req'[w].own.expires > h
        <5>1. PICK w \in Reqs : req'[w].own.full /\ req'[w].own.expires > h
          BY <4>2
        <5>2. req'[w] = req[w]
          BY <2>8, <5>1, EmptyRequests
        <5> QED BY <5>1, <5>2 DEF CutPast
      <4> QED BY <3>5, <4>1, <4>2 DEF CutPast
    <3> QED BY <3>3, <3>4, <3>5
  <2>20. ASSUME NEW w \in Reqs \ {r} PROVE Guarding(w)'
    <3>1. clock' >= clock /\ clock' \in Nat /\ Aiming(w) /\ Guarding(w) /\ req'[w] = req[w]
      BY <1>t, <1>1, <2>8 DEF AdminInv
    <3> QED BY <1>t, <1>1, <2>9, <2>19, <3>1, GuardStays
  <2> QED BY <1>1, <2>8, <2>9, <2>10, <2>12, <2>15, <2>16, <2>17, <2>18, <2>20, OverAndDone,
             RequestStep
<1> QED
  <2>1. \/ UNCHANGED <<tokens, born>>
        \/ /\ Rotatable(tokens, old) /\ born' = [born EXCEPT ![r] = born[old]]
           /\ \E e \in SuccessorExpiry(own, req[r].now, life) :
                 tokens' = RotateTable(tokens, old, r, cutoff, e)
    BY DEF Rotate
  <2> HIDE DEF old, own, cutoff
  <2> QED BY <1>2, <1>3, <2>1

\* Who revokes is alone past the mutex, and has counted another who is there for good.
LEMMA RevokeStep ==
    ASSUME AdminInv, NEW r \in Reqs, Revoke(r)
    PROVE  AdminInv'
<1>t. TypeOK /\ clock \in Nat /\ clock >= 1 /\ Aiming(r) /\ Guarding(r)
  BY DEF AdminInv, TypeOK
<1> DEFINE t == req[r].target
           copy == req[r].copy
<1>1. /\ req[r].stage = "revoke" /\ tokens' = [tokens EXCEPT ![t].revoked = TRUE]
      /\ req' = [req EXCEPT ![r] = Done] /\ mutex' = NoReq
      /\ UNCHANGED <<clock, born, limited>>
  BY DEF Revoke, Return
<1>2. /\ t \in Token /\ tokens[t].present /\ copy.full = tokens[t].full
      /\ NoLonger(tokens[t], copy)
  BY <1>t, <1>1 DEF Aiming
<1>3. /\ mutex = r
      /\ ~limited => ~copy.full \/ copy.expires # 0 \/ AnotherForGood(t)
  BY <1>t, <1>1 DEF Guarding, GuardStage
<1> HIDE DEF t, copy
<1>4. /\ tokens' \in [Token -> Row]
      /\ \A x \in Token \ {t} : tokens'[x] = tokens[x]
      /\ \A x \in Token : /\ tokens'[x].present = tokens[x].present
                          /\ tokens'[x].full = tokens[x].full
                          /\ tokens'[x].expires = tokens[x].expires
  <2>1. tokens[t] \in Row
    BY <1>t, <1>2, RowFields
  <2>2. [tokens[t] EXCEPT !.revoked = TRUE] \in Row
    BY <2>1 DEF Row
  <2> QED BY <1>t, <1>1, <1>2, <2>1, <2>2 DEF TypeOK, Row
<1>5. /\ req' \in [Reqs -> Request] /\ req'[r] = Done
      /\ \A w \in Reqs \ {r} : req'[w] = req[w]
  BY <1>t, <1>1, EmptyRequests DEF TypeOK
<1>6. TypeOK'
  BY <1>t, <1>1, <1>4, <1>5 DEF TypeOK
<1>7. RowsStay
  <2>1. \A x \in Token : tokens[x].expires \in Nat
    BY <1>t, RowFields
  <2> QED BY <1>1, <1>4, <2>1 DEF RowsStay, NoLonger
<1>8. RotationNeverExtends'
  BY <1>1, <1>4 DEF AdminInv, RotationNeverExtends
<1>9. NeverUnadministrable'
  <2>1. SUFFICES ASSUME ~limited PROVE \E x \in Token : ForGood(x)'
    BY <1>1 DEF NeverUnadministrable, ForGood
  <2>2. PICK x \in Token : ForGood(x)
    BY <2>1 DEF AdminInv, NeverUnadministrable, ForGood
  <2>3. CASE x # t
    BY <1>4, <2>2, <2>3 DEF ForGood
  <2>4. CASE x = t
    <3>1. AnotherForGood(t)
      BY <1>2, <1>3, <2>1, <2>2, <2>4 DEF ForGood, NoLonger
    <3>2. PICK y \in Token : y # t /\ ForGood(y)
      BY <3>1 DEF AnotherForGood
    <3> QED BY <1>4, <3>2 DEF ForGood
  <2> QED BY <2>3, <2>4
<1>10. ~limited' => \A x \in Token : tokens'[x].expires <= clock + MaxRotationGrace
  BY <1>1, <1>4 DEF AdminInv
<1>11. \A w \in Reqs : req'[w].stage # "done" => ~tokens'[w].present
  <2>1. SUFFICES ASSUME NEW w \in Reqs, req'[w].stage # "done" PROVE ~tokens'[w].present
    OBVIOUS
  <2>2. req'[w] = req[w] /\ w \in Token
    BY <1>5, <2>1, EmptyRequests, TokenAssumption
  <2> QED BY <1>4, <2>1, <2>2 DEF AdminInv
<1>12. \A w \in Reqs \ {r} : Guarding(w)'
  <2>1. \A w \in Reqs \ {r} : req[w].stage \notin GuardStage
    BY <1>3 DEF AdminInv, Guarding
  <2> QED BY <1>5, <2>1 DEF Guarding
<1>13. clock' = clock /\ (limited => limited')
  BY <1>1
<1> QED BY <1>5, <1>6, <1>7, <1>8, <1>9, <1>10, <1>11, <1>12, <1>13, OverAndDone, RequestStep

\* No request outlives its time.
LEMMA TickTokensStep ==
    ASSUME AdminInv, TickTokens
    PROVE  AdminInv'
<1>t. TypeOK /\ clock \in Nat /\ clock >= 1
  BY DEF AdminInv, TypeOK
<1>1. /\ clock' = clock + 1 /\ UNCHANGED <<tokens, req, mutex, born, limited>>
      /\ \A w \in Reqs : Active(w) => clock - req[w].began < Latency
  BY DEF TickTokens, Active
<1>2. TypeOK' /\ clock' \in Nat /\ clock' >= clock /\ clock' >= 1
  BY <1>t, <1>1 DEF TypeOK
<1>3. RotationNeverExtends' /\ NeverUnadministrable'
  BY <1>1 DEF AdminInv, RotationNeverExtends, NeverUnadministrable
<1>4. ~limited' => \A x \in Token : tokens'[x].expires <= clock' + MaxRotationGrace
  <2>1. SUFFICES ASSUME ~limited, NEW x \in Token
                 PROVE  tokens[x].expires <= clock' + MaxRotationGrace
    BY <1>1
  <2>2. tokens[x].expires <= clock + MaxRotationGrace
    BY <2>1 DEF AdminInv
  <2> QED BY <1>t, <1>1, <2>2, RowFields, TokenAssumption
<1>5. \A w \in Reqs : req'[w].stage # "done" => ~tokens'[w].present
  BY <1>1 DEF AdminInv
<1>6. GuardsKept
  <2>1. \A t, moment : Another(t, moment) => Another(t, moment)'
    BY <1>1 DEF Another, FullTokens
  <2>2. \A t : AnotherForGood(t) => AnotherForGood(t)'
    BY <1>1 DEF AnotherForGood, ForGood
  <2>3. \A h : CutPast(h)' => CutPast(h)
    BY <1>1 DEF CutPast
  <2> QED BY <2>1, <2>2, <2>3 DEF GuardsKept
<1>7. ASSUME NEW w \in Reqs
      PROVE  Calling(w)' /\ Dating(w)' /\ Aiming(w)' /\ Guarding(w)'
  <2>1. /\ Calling(w) /\ Dating(w) /\ Aiming(w) /\ Guarding(w) /\ req'[w] = req[w]
        /\ req[w].began \in Nat /\ req[w].now \in Nat /\ req[w].own.expires \in Nat
    BY <1>t, <1>1, RequestFields DEF AdminInv
  <2>2. Calling(w)'
    <3>1. SUFFICES ASSUME Active(w) PROVE Calling(w)'
      BY <2>1 DEF Calling, Active
    <3> DEFINE c == req[w].caller
               own == req[w].own
    <3>2. /\ c \in Token /\ tokens[c].present
          /\ 1 <= req[w].began /\ req[w].began <= clock
          /\ own.full = tokens[c].full /\ NoLonger(tokens[c], own)
          /\ born[c] # 0 => own.expires # 0 /\ own.expires <= born[c]
          /\ ~limited => own.expires <= clock + MaxRotationGrace
      BY <2>1, <3>1 DEF Calling
    <3>3. clock - req[w].began < Latency /\ Latency \in Nat /\ MaxRotationGrace \in Nat
      BY <1>1, <3>1, TokenAssumption
    <3>4. req[w].began <= clock' /\ clock' <= req[w].began + Latency
      BY <1>t, <1>1, <2>1, <3>2, <3>3
    <3>5. ~limited' => own.expires <= clock' + MaxRotationGrace
      BY <1>t, <1>1, <2>1, <3>2, <3>3
    <3> QED BY <1>1, <2>1, <3>2, <3>4, <3>5 DEF Calling
  <2>3. Dating(w)'
    BY <1>t, <1>1, <2>1 DEF Dating, Active
  <2>4. Aiming(w)'
    BY <1>1, <2>1 DEF Aiming
  <2>5. Guarding(w)'
    BY <1>t, <1>1, <1>2, <1>6, <2>1, GuardStays
  <2> QED BY <2>2, <2>3, <2>4, <2>5
<1> QED BY <1>2, <1>3, <1>4, <1>5, <1>7 DEF AdminInv

LEMMA TokensStart ==
    ASSUME Init
    PROVE  AdminInv
<1>1. /\ clock = 1 /\ req = [r \in Reqs |-> Fresh] /\ mutex = NoReq
      /\ born = [t \in Token |-> 0] /\ limited = FALSE
      /\ tokens = [t \in Token |-> IF t \in FirstAdmins THEN Issued(t, TRUE, 0) ELSE NoRow]
  BY DEF Init
<1>2. ASSUME NEW t \in Token
      PROVE  /\ tokens[t] \in Row /\ tokens[t].expires = 0
             /\ t \in FirstAdmins => ForGood(t)
             /\ t \notin FirstAdmins => ~tokens[t].present
  <2>1. Issued(t, TRUE, 0) \in Row
    BY DEF Issued, Row
  <2> QED BY <1>1, <2>1, EmptyRequests DEF Issued, NoRow, ForGood
<1>3. \A r \in Reqs : req[r] = Fresh /\ r \in Token /\ r \notin FirstAdmins
  BY <1>1, TokenAssumption
<1>4. TypeOK
  BY <1>1, <1>2, EmptyRequests DEF TypeOK
<1>5. NeverUnadministrable
  <2>1. PICK t \in FirstAdmins : t \in Token
    BY TokenAssumption
  <2> QED BY <1>2, <2>1 DEF NeverUnadministrable, ForGood
<1>6. RotationNeverExtends
  BY <1>1 DEF RotationNeverExtends
<1>7. \A t \in Token : tokens[t].expires <= clock + MaxRotationGrace
  <2>1. 0 <= clock + MaxRotationGrace
    BY <1>1, TokenAssumption
  <2> QED BY <1>2, <2>1
<1>8. ASSUME NEW r \in Reqs
      PROVE  Calling(r) /\ Dating(r) /\ Aiming(r) /\ Guarding(r)
  <2>1. req[r].stage = "idle" /\ ~req[r].own.full
    BY <1>3, EmptyRequests
  <2> QED BY <2>1 DEF Calling, Dating, Aiming, Guarding, GuardStage, Active
<1>9. \A r \in Reqs : ~tokens[r].present
  BY <1>2, <1>3
<1>10. clock >= 1
  BY <1>1
<1> QED BY <1>4, <1>5, <1>6, <1>7, <1>8, <1>9, <1>10 DEF AdminInv

LEMMA TokensStep ==
    ASSUME AdminInv, [Next]_vars
    PROVE  AdminInv'
<1>1. CASE UNCHANGED vars
  BY <1>1 DEF vars, AdminInv, TypeOK, RotationNeverExtends, NeverUnadministrable, Calling, Dating,
              Aiming, Guarding, Active, CutPast, AnotherForGood, ForGood, Another, FullTokens
<1>2. CASE TickTokens
  BY <1>2, TickTokensStep
<1>3. ASSUME NEW r \in Reqs,
             \/ \E t \in Token, kind \in Kind : Authenticate(r, t, kind)
             \/ Begin(r)
             \/ \E full \in BOOLEAN, life \in Lifetimes : Mint(r, full, life)
             \/ \E life \in Lifetimes, grace \in 0..MaxRotationGrace : Rotate(r, life, grace)
             \/ \E t \in Token : List(r, t)
             \/ Lock(r) \/ CountNow(r) \/ CountHorizon(r) \/ Revoke(r)
      PROVE  AdminInv'
  BY <1>3, AuthenticateStep, ReadClockStep, MintStep, RotateStep, ListStep, LockStep, CountNowStep,
     CountHorizonStep, RevokeStep
<1> QED BY <1>1, <1>2, <1>3 DEF Next

LEMMA AdminInvariant == Spec => []AdminInv
<1>1. Init => AdminInv
  BY TokensStart
<1>2. AdminInv /\ [Next]_vars => AdminInv'
  BY TokensStep
<1> QED BY <1>1, <1>2, PTL DEF Spec

\* A request goes to its end by its own step.
LEMMA WhoRevokes ==
    ASSUME TypeOK, [Next]_vars, NEW r \in Reqs, req[r].stage = "revoke", req'[r].stage # "revoke"
    PROVE  Revoke(r)
<1>1. PICK w \in Reqs :
        \/ \E t \in Token, kind \in Kind : Authenticate(w, t, kind)
        \/ Begin(w)
        \/ \E full \in BOOLEAN, life \in Lifetimes : Mint(w, full, life)
        \/ \E life \in Lifetimes, grace \in 0..MaxRotationGrace : Rotate(w, life, grace)
        \/ \E t \in Token : List(w, t)
        \/ Lock(w) \/ CountNow(w) \/ CountHorizon(w) \/ Revoke(w)
  BY DEF Next, vars, TickTokens
<1>2. w = r \/ req'[r] = req[r]
  <2>1. SUFFICES ASSUME w # r PROVE req'[r] = req[r]
    OBVIOUS
  <2>2. \/ \E new : req' = [req EXCEPT ![w] = new]
        \/ req' = [req EXCEPT ![w].now = clock, ![w].stage = req[w].kind]
        \/ \E t \in Token : req' = [req EXCEPT ![w].target = t, ![w].copy = tokens[t],
                                               ![w].stage = "lock"]
        \/ \E to : req' = [req EXCEPT ![w].now = clock, ![w].stage = to]
        \/ \E to : req' = [req EXCEPT ![w].stage = to]
    BY <1>1 DEF Authenticate, Begin, Mint, Rotate, List, Lock, CountNow, CountHorizon, Revoke, Return
  <2> QED BY <2>1, <2>2 DEF TypeOK
<1>3. w = r
  BY <1>2
<1> QED
  BY <1>1, <1>3 DEF Authenticate, Begin, Mint, Rotate, List, Lock, CountNow, CountHorizon

\* A rotation that goes through had a predecessor nobody has revoked.
LEMMA RotationIs ==
    ASSUME AdminInv, NEW r \in Reqs, NEW life \in Lifetimes, NEW grace \in 0..MaxRotationGrace,
           Rotate(r, life, grace), tokens' # tokens
    PROVE  LET old == req[r].caller
           IN  /\ tokens[old].present /\ ~tokens[old].revoked /\ ~tokens'[old].revoked
               /\ \A x \in Token \ {old, r} : tokens'[x] = tokens[x]
<1> DEFINE old == req[r].caller
           cutoff == req[r].now + grace
<1>t. TypeOK /\ Calling(r)
  BY DEF AdminInv
<1>1. PICK e \in SuccessorExpiry(req[r].own, req[r].now, life) :
        tokens' = RotateTable(tokens, old, r, cutoff, e)
  BY DEF Rotate
<1>2. req[r].stage = "rotate" /\ tokens[old].present /\ ~tokens[old].revoked
  BY DEF Rotate, Rotatable
<1>3. old \in Token /\ r \in Token /\ old # r
  BY <1>t, <1>2, RequestFields DEF Calling, Active, AdminInv
<1>4. e \in Nat
  BY <1>2, Successor
<1>5. cutoff \in Nat
  <2>1. req[r].now \in Nat /\ grace \in Nat
    BY <1>t, RequestFields, TokenAssumption
  <2> QED BY <2>1
<1> HIDE DEF cutoff, old
<1>6. /\ tokens'[old].revoked = tokens[old].revoked
      /\ \A x \in Token \ {old, r} : tokens'[x] = tokens[x]
  BY <1>t, <1>1, <1>3, <1>4, <1>5, RotatedRows
<1> QED BY <1>2, <1>6 DEF old

\* A token that was not there came by minting or, from its own request, by rotation.
LEMMA WhoRotates ==
    ASSUME AdminInv, [Next]_vars, NEW r \in Reqs, req[r].stage = "rotate",
           tokens'[r].present, ~tokens[r].present
    PROVE  \E life \in Lifetimes, grace \in 0..MaxRotationGrace : Rotate(r, life, grace)
<1>t. TypeOK /\ r \in Token
  BY RequestFields DEF AdminInv
<1>1. ASSUME NEW w \in Reqs, NEW full \in BOOLEAN, NEW life \in Lifetimes, Mint(w, full, life)
      PROVE  FALSE
  <2>1. w # r /\ tokens'[r] = tokens[r]
    BY <1>t, <1>1 DEF Mint, TypeOK
  <2> QED BY <2>1
<1>2. ASSUME NEW w \in Reqs, NEW life \in Lifetimes, NEW grace \in 0..MaxRotationGrace,
             Rotate(w, life, grace), w # r
      PROVE  FALSE
  <2>1. CASE tokens' = tokens
    BY <2>1
  <2>2. CASE tokens' # tokens
    <3>1. /\ tokens[req[w].caller].present
          /\ \A x \in Token \ {req[w].caller, w} : tokens'[x] = tokens[x]
      BY <1>2, <2>2, RotationIs
    <3>2. r \in Token \ {req[w].caller, w}
      BY <1>t, <1>2, <3>1
    <3> QED BY <3>1, <3>2
  <2> QED BY <2>1, <2>2
<1>3. ASSUME NEW w \in Reqs, Revoke(w)
      PROVE  FALSE
  <2>1. tokens' = [tokens EXCEPT ![req[w].target].revoked = TRUE]
    BY <1>3 DEF Revoke
  <2> QED BY <1>t, <2>1 DEF TypeOK, Row
<1> QED
  BY <1>1, <1>2, <1>3 DEF Next, vars, TickTokens, Authenticate, Begin, List, Lock, CountNow,
     CountHorizon

\* A deployment that gives its tokens no lifetimes has at all times a full administrator
\* that will never stop, and a revocation of a usable one leaves another usable: whatever
\* the administrators, the requests and how they interleave (guardLastFullAdministrator).
THEOREM AdministratorsRemain == Spec => StaysAdministrable
<1>1. AdminInv => TypeOK /\ NeverUnadministrable
  BY DEF AdminInv
<1>2. ASSUME AdminInv, [Next]_vars
      PROVE  \A r \in Reqs, t \in Token :
               (Revokes(r, t) /\ tokens[t].full /\ Usable(tokens[t], req[r].now))
                 => FullTokens(tokens', req[r].now) # {}
  <2>1. SUFFICES ASSUME NEW r \in Reqs, NEW t \in Token, Revokes(r, t), tokens[t].full,
                        Usable(tokens[t], req[r].now)
                 PROVE  FullTokens(tokens', req[r].now) # {}
    OBVIOUS
  <2>2. TypeOK /\ Aiming(r) /\ Guarding(r)
    BY <1>2 DEF AdminInv
  <2>3. req[r].stage = "revoke" /\ req'[r].stage = "done" /\ t = req[r].target
    BY <2>1 DEF Revokes
  <2>4. tokens' = [tokens EXCEPT ![t].revoked = TRUE]
    BY <1>2, <2>2, <2>3, WhoRevokes DEF Revoke
  <2>5. req[r].copy.full /\ Usable(req[r].copy, req[r].now)
    <3>1. /\ req[r].copy.present /\ ~req[r].copy.revoked /\ req[r].copy.full
          /\ NoLonger(tokens[t], req[r].copy)
      BY <2>1, <2>2, <2>3 DEF Aiming
    <3>2. /\ req[r].now \in Nat /\ tokens[t].expires \in Nat /\ req[r].copy.expires \in Nat
          /\ tokens[t].expires = 0 \/ req[r].now < tokens[t].expires
      BY <2>1, <2>2, RequestFields, RowFields DEF Usable
    <3> QED BY <3>1, <3>2 DEF NoLonger, Usable
  <2>6. PICK x \in FullTokens(tokens, req[r].now) : x # t
    BY <2>2, <2>3, <2>5 DEF Guarding, GuardStage, Another
  <2>7. x \in Token /\ tokens'[x] = tokens[x]
    BY <2>2, <2>4, <2>6 DEF FullTokens, TypeOK
  <2>8. x \in FullTokens(tokens', req[r].now)
    BY <2>6, <2>7 DEF FullTokens
  <2> QED BY <2>8
<1> QED BY <1>1, <1>2, AdminInvariant, PTL DEF Spec, StaysAdministrable, RevocationLeavesOne

\* However often and however concurrently a token is rotated, its line ends when it was
\* issued to end, and a revoked token has no successor after its revocation, not even from
\* a rotation that authenticated before it (RotateAdminToken, handleAdminRotateOwnToken).
THEOREM RotationEscapesNothing == Spec => RotationIsNoEscape
<1>1. AdminInv => RotationNeverExtends
  BY DEF AdminInv
<1>2. ASSUME AdminInv, [Next]_vars
      PROVE  \A r \in Reqs :
               (tokens'[r].present /\ ~tokens[r].present /\ req[r].stage = "rotate")
                 => ~tokens[req[r].caller].revoked /\ ~tokens'[req[r].caller].revoked
  <2>1. SUFFICES ASSUME NEW r \in Reqs, tokens'[r].present, ~tokens[r].present,
                        req[r].stage = "rotate"
                 PROVE  ~tokens[req[r].caller].revoked /\ ~tokens'[req[r].caller].revoked
    OBVIOUS
  <2>2. PICK life \in Lifetimes, grace \in 0..MaxRotationGrace : Rotate(r, life, grace)
    BY <1>2, <2>1, WhoRotates
  <2>3. tokens' # tokens
    BY <2>1
  <2> QED BY <1>2, <2>2, <2>3, RotationIs
<1> QED BY <1>1, <1>2, AdminInvariant, PTL DEF Spec, RotationIsNoEscape, RevokedHasNoSuccessor
=============================================================================
