-------------------------- MODULE AuditChain_proofs -------------------------
(***************************************************************************)
(* For every number of writers, entries and pages, on both engines: the    *)
(* audit log verifies at every instant, a trim takes only entries older    *)
(* than its cut or committed after it first read the log, a verification   *)
(* never reports an untouched log as broken, and a reader that pages along *)
(* loses no entry.                                                         *)
(*                                                                         *)
(* The argument is in two halves.  The first is about rows, and says what  *)
(* an append, an erasure and a trim do to a set of rows that chains from   *)
(* some hash.  The second is about writers: whoever has drawn a number and *)
(* read the head of the chain holds the append lock, so its number is      *)
(* above every row and the head is still the one it read.                  *)
(***************************************************************************)
EXTENDS AuditChain, FiniteSetTheorems, WellFoundedInduction, TLAPS

-----------------------------------------------------------------------------
(* The invariant.                                                          *)

\* An entry is a record of its fields; what its detail and hashes are does not matter.
\* A marker names nobody, so no erasure touches one.
IsEntry(e) ==
    /\ e = [seq |-> e.seq, at |-> e.at, kind |-> e.kind, subject |-> e.subject,
            detail |-> e.detail, salt |-> e.salt, prev |-> e.prev, digest |-> e.digest,
            hash |-> e.hash]
    /\ e.seq \in 1..MaxSeq /\ e.at \in Nat
    /\ e.kind = "marker" => e.subject = NoSubject

\* Rows as a table holds them: entries, numbered without repetition.
AreRows(rows) ==
    /\ \A e \in rows : IsEntry(e)
    /\ \A e, f \in rows : e.seq = f.seq => e = f

\* The hash an entry numbered seq must chain onto, among rows that chain from base.
Before(rows, seq, base) ==
    IF Below(rows, seq) = {} THEN base ELSE Top(Below(rows, seq)).hash

\* Every row verifies against the row before it, and the first against base.
ChainsFrom(rows, base) == \A e \in rows : VerifyEntry(e, Before(rows, e.seq, base))

Newest(k) == k \in checkpoints /\ \A d \in checkpoints : d.seq <= k.seq

\* The checkpoints lie below the log, and a marker in the log attests the newest.
CheckpointsInv ==
    /\ \A k \in checkpoints : k.seq \in Nat /\ \A e \in log : k.seq < e.seq
    /\ \A k, d \in checkpoints : k.seq = d.seq => k = d
    /\ checkpoints # {} =>
         \E k \in checkpoints : Newest(k)
            /\ \E e \in log : e.seq = k.marker /\ e.kind = "marker"
                              /\ MarkerAttestsCheckpoint(e.detail, k)

LogInv ==
    /\ AreRows(log)
    /\ CheckpointsInv
    /\ ChainsFrom(log, NewestCheckpoint.hash)
    /\ OnlyOldIsTrimmed

\* The record of a transaction.
TxOf(stage, job, at, subject, seq, prev, rows, bound, head) ==
    [stage |-> stage, job |-> job, at |-> at, subject |-> subject,
     seq |-> seq, prev |-> prev, rows |-> rows, bound |-> bound, head |-> head]

IsTx(r) ==
    /\ r = TxOf(r.stage, r.job, r.at, r.subject, r.seq, r.prev, r.rows, r.bound, r.head)
    /\ r.stage \in {"idle", "cut", "waiting", "locked", "prepared"}
    /\ r.job \in {"append", "erase", "prune"}
    /\ r.at \in Nat /\ r.seq \in Nat /\ r.bound \in Nat /\ r.rows \subseteq Nat
    /\ r.head \in Nat

\* What a transaction has read stays true of the log until it commits: the rows it
\* clears are no markers, and all it would trim of the log it first read is old enough.
Holds(rows, job) ==
    /\ job.job = "erase" => \A e \in rows : e.seq \in job.rows => e.kind # "marker"
    /\ job.job = "prune" =>
         \A e \in rows : e.seq <= job.bound /\ e.seq <= job.head => e.at < job.at

\* All the rows a transaction has come to know lie below a number.
Knows(tx, seq) ==
    /\ tx.stage # "cut" => tx.bound < seq
    /\ tx.head < seq
    /\ \A s \in tx.rows : s < seq

\* A number above everything a row, a checkpoint, a reader or a transaction names.
Above(seq) ==
    /\ \A e \in log : e.seq < seq
    /\ pager.cursor < seq
    /\ \A d \in Callers : Knows(caller[d], seq)

CallersInv ==
    /\ engine \in {"sqlite", "postgres"} /\ drawn \in 0..MaxSeq
    /\ caller = [c \in Callers |-> caller[c]]
    /\ \A c \in Callers :
         /\ IsTx(caller[c]) /\ Holds(log, caller[c])
         /\ caller[c].stage = "idle" => caller[c] = IdleCaller
         /\ engine = "sqlite" => caller[c].stage = "idle"
         /\ caller[c].stage \in {"locked", "prepared"} => appendLock = c
         /\ caller[c].stage = "prepared" =>
              /\ Above(caller[c].seq) /\ caller[c].seq \in 1..drawn
              /\ caller[c].prev = HeadHash
    /\ engine = "postgres" => Above(drawn + 1)

\* A reader's cursor is no further than the head.
PagerInv ==
    /\ pager = [cursor |-> pager.cursor, seen |-> pager.seen] /\ pager.cursor \in Nat
    /\ pager.cursor = 0 \/ \E e \in log : pager.cursor <= e.seq
    /\ NothingBehindCursor

\* The record of a verification.
WalkOf(stage, from, cp, prev, cursor, broken, overtaken, anchored) ==
    [stage |-> stage, from |-> from, cp |-> cp, prev |-> prev, cursor |-> cursor,
     broken |-> broken, trimmedMeanwhile |-> overtaken, anchored |-> anchored]

\* A verification that no trim has overtaken still stands where it believes it does.
WalkInv ==
    /\ walk = WalkOf(walk.stage, walk.from, walk.cp, walk.prev, walk.cursor, walk.broken,
                     walk.trimmedMeanwhile, walk.anchored)
    /\ walk.stage \in {"idle", "checkpoint", "marker", "before", "page", "done"}
    /\ walk.from \in Nat \ {0} /\ walk.cursor \in Nat
    /\ walk.trimmedMeanwhile \in BOOLEAN /\ walk.anchored \in BOOLEAN
    /\ walk.stage # "done" => walk.broken = 0
    /\ walk.stage \in {"checkpoint", "marker", "before"} => walk.cursor = walk.from - 1
    /\ ~walk.trimmedMeanwhile =>
         /\ walk.stage = "marker" => walk.cp = NewestCheckpoint /\ checkpoints # {}
         /\ walk.stage = "page" /\ walk.anchored =>
              /\ walk.prev = Before(log, walk.cursor + 1, NewestCheckpoint.hash)
              /\ walk.cursor = 0 \/ \E e \in log : walk.cursor <= e.seq
    /\ NoFalseBreak

ChainInv == LogInv /\ CallersInv /\ PagerInv /\ WalkInv

-----------------------------------------------------------------------------
(* Rows.                                                                   *)

\* A set of numbers has a least one.
LEMMA LeastNumber ==
    ASSUME NEW S \in SUBSET Nat, S # {}
    PROVE  \E m \in S : \A x \in S : m <= x
<1>1. PICK m \in S : \A x \in S : ~(<<x, m>> \in OpToRel(<, Nat))
  BY NatLessThanWellFounded, WFMin
<1>2. \A x \in S : ~(x < m)
  BY <1>1 DEF OpToRel
<1> QED BY <1>2

\* Part of a table's rows are rows.
LEMMA RowsSubset ==
    ASSUME NEW rows, AreRows(rows), NEW part \in SUBSET rows
    PROVE  AreRows(part)
BY DEF AreRows

\* Rows have a last one, and Top finds it.
LEMMA TopOfRows ==
    ASSUME NEW rows, AreRows(rows), rows # {}
    PROVE  Top(rows) \in rows /\ \A f \in rows : f.seq <= Top(rows).seq
<1> DEFINE S == {MaxSeq - e.seq : e \in rows}
<1>1. \A e \in rows : e.seq \in 1..MaxSeq
  BY DEF AreRows, IsEntry
<1>2. S \in SUBSET Nat /\ S # {}
  BY <1>1, ChainAssumption
<1>3. PICK m \in S : \A x \in S : m <= x
  <2> HIDE DEF S
  <2> QED BY <1>2, LeastNumber
<1>4. PICK e \in rows : m = MaxSeq - e.seq
  BY <1>3
<1>5. \A f \in rows : f.seq <= e.seq
  <2> TAKE f \in rows
  <2>1. MaxSeq - f.seq \in S
    OBVIOUS
  <2>2. MaxSeq - e.seq <= MaxSeq - f.seq
    BY <1>3, <1>4, <2>1
  <2> HIDE DEF S
  <2> QED BY <1>1, <2>2, ChainAssumption
<1> HIDE DEF S
<1> QED BY <1>5 DEF Top

\* The last row is the only one that is last.
LEMMA TopIs ==
    ASSUME NEW rows, AreRows(rows), NEW t \in rows, \A f \in rows : f.seq <= t.seq
    PROVE  Top(rows) = t
<1>1. Top(rows) \in rows /\ t.seq <= Top(rows).seq
  BY TopOfRows
<1>2. \A e \in rows : e.seq \in Nat
  BY ChainAssumption DEF AreRows, IsEntry
<1>3. Top(rows).seq = t.seq
  BY <1>1, <1>2
<1> QED BY <1>1, <1>3 DEF AreRows

\* What an append writes is an entry, and verifies where it was prepared to go.
LEMMA PreparedVerifies ==
    ASSUME NEW seq \in 1..MaxSeq, NEW prev, NEW at \in Nat, NEW kind, NEW who, NEW detail,
           kind = "marker" => who = NoSubject, NEW e, e = Prepare(seq, prev, at, kind, who, detail)
    PROVE  /\ IsEntry(e) /\ VerifyEntry(e, prev)
           /\ e.seq = seq /\ e.at = at /\ e.kind = kind /\ e.detail = detail
<1> DEFINE hash == <<prev, seq, at, kind, PIIDigest(seq, who, detail)>>
<1>1. e = [seq |-> seq, at |-> at, kind |-> kind, subject |-> who, detail |-> detail,
           salt |-> seq, prev |-> prev, digest |-> PIIDigest(seq, who, detail), hash |-> hash]
  BY DEF Prepare, ComputeHash
<1> HIDE DEF hash
<1>2. IsEntry(e)
  BY <1>1 DEF IsEntry
<1>3. seq # 0
  BY ChainAssumption
<1>4. VerifyEntry(e, prev)
  BY <1>1, <1>3 DEF VerifyEntry, PersonalFieldsVerify, ComputeHash, hash
<1> QED BY <1>1, <1>2, <1>4

\* An erasure spelled out.
LEMMA EraseRecord ==
    ASSUME NEW seq, NEW at, NEW kind, NEW who, NEW detail, NEW salt, NEW prev, NEW digest, NEW hash
    PROVE  Erase([seq |-> seq, at |-> at, kind |-> kind, subject |-> who, detail |-> detail,
                  salt |-> salt, prev |-> prev, digest |-> digest, hash |-> hash])
           = [seq |-> seq, at |-> at, kind |-> kind, subject |-> NoSubject, detail |-> NoDetail,
              salt |-> 0, prev |-> prev, digest |-> digest, hash |-> hash]
<1> DEFINE e == [seq |-> seq, at |-> at, kind |-> kind, subject |-> who, detail |-> detail,
                 salt |-> salt, prev |-> prev, digest |-> digest, hash |-> hash]
           e1 == [e EXCEPT !.subject = NoSubject]
           e2 == [e1 EXCEPT !.detail = NoDetail]
           e3 == [e2 EXCEPT !.salt = 0]
<1>1. e1 = [seq |-> seq, at |-> at, kind |-> kind, subject |-> NoSubject, detail |-> detail,
            salt |-> salt, prev |-> prev, digest |-> digest, hash |-> hash]
  OBVIOUS
<1>2. Erase(e) = e3
  <2> HIDE DEF e
  <2> QED BY Zenon DEF Erase
<1> HIDE DEF e1
<1>3. e2 = [seq |-> seq, at |-> at, kind |-> kind, subject |-> NoSubject, detail |-> NoDetail,
            salt |-> salt, prev |-> prev, digest |-> digest, hash |-> hash]
  BY <1>1
<1> HIDE DEF e2
<1>4. e3 = [seq |-> seq, at |-> at, kind |-> kind, subject |-> NoSubject, detail |-> NoDetail,
            salt |-> 0, prev |-> prev, digest |-> digest, hash |-> hash]
  BY <1>3
<1> QED BY <1>2, <1>4

\* An erasure leaves of an entry all that the chain is made of, and it still verifies.
LEMMA ErasedVerifies ==
    ASSUME NEW e, IsEntry(e)
    PROVE  /\ IsEntry(Erase(e))
           /\ Erase(e).seq = e.seq /\ Erase(e).at = e.at /\ Erase(e).kind = e.kind
           /\ Erase(e).hash = e.hash
           /\ \A prev : VerifyEntry(e, prev) => VerifyEntry(Erase(e), prev)
<1>1. Erase(e) = [seq |-> e.seq, at |-> e.at, kind |-> e.kind, subject |-> NoSubject,
                  detail |-> NoDetail, salt |-> 0, prev |-> e.prev, digest |-> e.digest,
                  hash |-> e.hash]
  <2> DEFINE r == [seq |-> e.seq, at |-> e.at, kind |-> e.kind, subject |-> e.subject,
                   detail |-> e.detail, salt |-> e.salt, prev |-> e.prev, digest |-> e.digest,
                   hash |-> e.hash]
  <2>1. e = r
    BY DEF IsEntry
  <2>2. Erase(r) = [seq |-> e.seq, at |-> e.at, kind |-> e.kind, subject |-> NoSubject,
                    detail |-> NoDetail, salt |-> 0, prev |-> e.prev, digest |-> e.digest,
                    hash |-> e.hash]
    BY EraseRecord
  <2> HIDE DEF r
  <2> QED BY <2>1, <2>2
<1>2. IsEntry(Erase(e))
  BY <1>1 DEF IsEntry
<1>3. \A prev : VerifyEntry(e, prev) => VerifyEntry(Erase(e), prev)
  BY <1>1 DEF VerifyEntry, PersonalFieldsVerify, ComputeHash
<1> QED BY <1>1, <1>2, <1>3

\* Rows that agree on numbers and hashes up to some number chain alike up to it.
LEMMA BeforeAgrees ==
    ASSUME NEW rows, AreRows(rows), NEW others, AreRows(others), NEW seq \in Int, NEW base,
           \A e \in Below(rows, seq) : \E f \in Below(others, seq) : f.seq = e.seq /\ f.hash = e.hash,
           \A f \in Below(others, seq) : \E e \in Below(rows, seq) : f.seq = e.seq
    PROVE  Before(others, seq, base) = Before(rows, seq, base)
<1>1. AreRows(Below(rows, seq)) /\ AreRows(Below(others, seq))
  <2>1. Below(rows, seq) \in SUBSET rows /\ Below(others, seq) \in SUBSET others
    BY DEF Below
  <2> QED BY <2>1, RowsSubset
<1>2. CASE Below(rows, seq) = {}
  <2>1. Below(others, seq) = {}
    BY <1>2
  <2> QED BY <1>2, <2>1 DEF Before
<1>3. CASE Below(rows, seq) # {}
  <2> DEFINE t == Top(Below(rows, seq))
  <2>1. t \in Below(rows, seq) /\ \A e \in Below(rows, seq) : e.seq <= t.seq
    BY <1>1, <1>3, TopOfRows
  <2> HIDE DEF t
  <2>2. PICK f \in Below(others, seq) : f.seq = t.seq /\ f.hash = t.hash
    BY <2>1
  <2>3. \A g \in Below(others, seq) : g.seq <= f.seq
    BY <2>1, <2>2
  <2>4. Top(Below(others, seq)) = f
    BY <1>1, <2>2, <2>3, TopIs
  <2> QED BY <1>3, <2>2, <2>4 DEF Before, t
<1> QED BY <1>2, <1>3

\* A row above a number changes nothing before that number.
LEMMA AppendMovesNothing ==
    ASSUME NEW rows, NEW base, NEW new, NEW seq, ~(new.seq < seq)
    PROVE  Before(rows \cup {new}, seq, base) = Before(rows, seq, base)
<1>1. Below(rows \cup {new}, seq) = Below(rows, seq)
  BY DEF Below
<1> QED BY <1>1 DEF Before

\* Appending keeps the chain, and moves nothing before the new row.
LEMMA AppendChains ==
    ASSUME NEW rows, AreRows(rows), NEW base, ChainsFrom(rows, base),
           NEW new, IsEntry(new), \A e \in rows : e.seq < new.seq,
           VerifyEntry(new, Before(rows, new.seq, base))
    PROVE  AreRows(rows \cup {new}) /\ ChainsFrom(rows \cup {new}, base)
<1>1. \A e \in rows : e.seq \in Int
  BY ChainAssumption DEF AreRows, IsEntry
<1>2. new.seq \in Int
  BY ChainAssumption DEF IsEntry
<1>3. AreRows(rows \cup {new})
  BY <1>1, <1>2 DEF AreRows
<1>4. ASSUME NEW e \in rows \cup {new}
      PROVE  Before(rows \cup {new}, e.seq, base) = Before(rows, e.seq, base)
  <2>1. ~(new.seq < e.seq)
    BY <1>1, <1>2
  <2> QED BY <2>1, AppendMovesNothing
<1>5. ChainsFrom(rows \cup {new}, base)
  BY <1>4 DEF ChainsFrom
<1> QED BY <1>3, <1>5

\* Rows of which some are cleared.
ClearedOf(rows, chosen) == {IF e.seq \in chosen THEN Erase(e) ELSE e : e \in rows}

\* Erasing keeps the chain and every number in it.
LEMMA EraseChains ==
    ASSUME NEW rows, AreRows(rows), NEW base, ChainsFrom(rows, base), NEW chosen,
           NEW cleared, cleared = ClearedOf(rows, chosen)
    PROVE  /\ AreRows(cleared) /\ ChainsFrom(cleared, base)
           /\ \A seq \in Int : Before(cleared, seq, base) = Before(rows, seq, base)
           /\ \A f \in cleared : \E e \in rows :
                f.seq = e.seq /\ f.at = e.at /\ f.kind = e.kind /\ f.hash = e.hash
           /\ \A e \in rows : \E f \in cleared : f.seq = e.seq
           /\ \A e \in rows : e.seq \notin chosen => e \in cleared
<1> DEFINE Cleared(e) == IF e.seq \in chosen THEN Erase(e) ELSE e
<1>1. \A e \in rows :
        /\ Cleared(e) \in cleared /\ IsEntry(Cleared(e))
        /\ Cleared(e).seq = e.seq /\ Cleared(e).at = e.at /\ Cleared(e).kind = e.kind
        /\ Cleared(e).hash = e.hash
        /\ \A prev : VerifyEntry(e, prev) => VerifyEntry(Cleared(e), prev)
  <2> TAKE e \in rows
  <2>1. IsEntry(e)
    BY DEF AreRows
  <2>2. CASE e.seq \in chosen
    BY <2>1, <2>2, ErasedVerifies DEF ClearedOf
  <2>3. CASE e.seq \notin chosen
    BY <2>1, <2>3 DEF ClearedOf
  <2> QED BY <2>2, <2>3
<1>2. \A f \in cleared : \E e \in rows : f = Cleared(e)
  BY DEF ClearedOf
<1>3. \A e \in rows : e.seq \notin chosen => e \in cleared
  BY DEF ClearedOf
<1> HIDE DEF Cleared
<1>4. AreRows(cleared)
  <2>1. \A f \in cleared : IsEntry(f)
    BY <1>1, <1>2
  <2>2. ASSUME NEW f \in cleared, NEW g \in cleared, f.seq = g.seq PROVE f = g
    <3>1. PICK d \in rows : f = Cleared(d)
      BY <1>2
    <3>2. PICK e \in rows : g = Cleared(e)
      BY <1>2
    <3>3. d = e
      BY <1>1, <2>2, <3>1, <3>2 DEF AreRows
    <3> QED BY <3>1, <3>2, <3>3
  <2> QED BY <2>1, <2>2 DEF AreRows
<1>5. ASSUME NEW seq \in Int PROVE Before(cleared, seq, base) = Before(rows, seq, base)
  <2>1. \A e \in Below(rows, seq) : \E f \in Below(cleared, seq) : f.seq = e.seq /\ f.hash = e.hash
    BY <1>1 DEF Below
  <2>2. \A f \in Below(cleared, seq) : \E e \in Below(rows, seq) : f.seq = e.seq
    BY <1>1, <1>2 DEF Below
  <2> QED BY <1>4, <2>1, <2>2, BeforeAgrees
<1>6. ChainsFrom(cleared, base)
  <2> SUFFICES ASSUME NEW f \in cleared PROVE VerifyEntry(f, Before(cleared, f.seq, base))
    BY DEF ChainsFrom
  <2>1. PICK e \in rows : f = Cleared(e)
    BY <1>2
  <2>2. f.seq = e.seq /\ e.seq \in Int
    BY <1>1, <2>1, ChainAssumption DEF AreRows, IsEntry
  <2>3. VerifyEntry(e, Before(rows, e.seq, base))
    BY DEF ChainsFrom
  <2> QED BY <1>1, <1>5, <2>1, <2>2, <2>3
<1> QED BY <1>1, <1>2, <1>3, <1>4, <1>5, <1>6

\* Trimming up to a row keeps the chain, which then starts from that row's hash.
LEMMA TrimChains ==
    ASSUME NEW rows, AreRows(rows), NEW base, ChainsFrom(rows, base),
           NEW last \in rows, NEW kept, kept = {e \in rows : e.seq > last.seq}
    PROVE  /\ AreRows(kept) /\ ChainsFrom(kept, last.hash)
           /\ \A seq \in Int : last.seq < seq =>
                Before(kept, seq, last.hash) = Before(rows, seq, base)
<1>1. AreRows(kept)
  BY RowsSubset
<1>2. \A e \in rows : e.seq \in Int
  BY ChainAssumption DEF AreRows, IsEntry
<1>3. ASSUME NEW seq \in Int, last.seq < seq
      PROVE  Before(kept, seq, last.hash) = Before(rows, seq, base)
  <2>1. last \in Below(rows, seq) /\ AreRows(Below(rows, seq))
    <3>1. Below(rows, seq) \in SUBSET rows
      BY DEF Below
    <3> QED BY <1>3, <3>1, RowsSubset DEF Below
  <2>2. CASE Below(kept, seq) = {}
    <3>1. \A e \in Below(rows, seq) : e.seq <= last.seq
      BY <1>2, <2>2 DEF Below
    <3>2. Top(Below(rows, seq)) = last
      BY <2>1, <3>1, TopIs
    <3> QED BY <2>1, <2>2, <3>2 DEF Before
  <2>3. CASE Below(kept, seq) # {}
    <3>1. AreRows(Below(kept, seq))
      <4>1. Below(kept, seq) \in SUBSET kept
        BY DEF Below
      <4> QED BY <1>1, <4>1, RowsSubset
    <3> DEFINE t == Top(Below(kept, seq))
    <3>2. t \in Below(kept, seq) /\ \A f \in Below(kept, seq) : f.seq <= t.seq
      BY <2>3, <3>1, TopOfRows
    <3> HIDE DEF t
    <3>3. t \in Below(rows, seq) /\ \A f \in Below(rows, seq) : f.seq <= t.seq
      BY <1>2, <3>2 DEF Below
    <3>4. Top(Below(rows, seq)) = t
      BY <2>1, <3>3, TopIs
    <3> QED BY <2>1, <2>3, <3>4 DEF Before, t
  <2> QED BY <2>2, <2>3
<1>4. ChainsFrom(kept, last.hash)
  BY <1>2, <1>3 DEF ChainsFrom
<1> QED BY <1>1, <1>3, <1>4

\* A table is finite.
LEMMA RowsFinite ==
    ASSUME NEW rows, AreRows(rows)
    PROVE  IsFiniteSet(rows)
<1> DEFINE number == [e \in rows |-> e.seq]
<1>1. number \in Injection(rows, 1..MaxSeq)
  BY DEF AreRows, IsEntry, Injection, IsInjective
<1>2. IsFiniteSet(1..MaxSeq)
  BY ChainAssumption, FS_Interval
<1> HIDE DEF number
<1> QED BY <1>1, <1>2, FS_Injection

\* A page leaves out no row before one that is on it.
LEMMA PageBelow ==
    ASSUME AreRows(log), NEW after \in Nat, NEW f \in Page(after), NEW e \in log,
           after < e.seq, e.seq <= f.seq
    PROVE  e \in Page(after)
<1> DEFINE Between(g) == {h \in log : h.seq > after /\ h.seq < g.seq}
<1>1. \A g \in log : g.seq \in Int
  BY ChainAssumption DEF AreRows, IsEntry
<1>2. f \in log /\ Cardinality(Between(f)) < PageSize
  BY DEF Page
<1>3. Between(e) \in SUBSET Between(f)
  BY <1>1, <1>2
<1>4. IsFiniteSet(Between(f))
  <2>1. Between(f) \in SUBSET log
    OBVIOUS
  <2> QED BY <2>1, RowsFinite, FS_Subset
<1>5. Cardinality(Between(e)) <= Cardinality(Between(f)) /\ IsFiniteSet(Between(e))
  BY <1>3, <1>4, FS_Subset
<1>6. Cardinality(Between(e)) \in Nat /\ Cardinality(Between(f)) \in Nat
  BY <1>4, <1>5, FS_CardinalityType
<1>7. Cardinality(Between(e)) < PageSize
  <2> HIDE DEF Between
  <2> QED BY <1>2, <1>5, <1>6, ChainAssumption
<1> QED BY <1>7 DEF Page

\* A page is the rows from one number to another.
LEMMA PageIsStretch ==
    ASSUME AreRows(log), NEW after \in Nat, Page(after) # {}
    PROVE  /\ AreRows(Page(after)) /\ Top(Page(after)) \in log
           /\ Top(Page(after)).seq \in Nat /\ after < Top(Page(after)).seq
           /\ \A e \in log : e \in Page(after) <=> after < e.seq /\ e.seq <= Top(Page(after)).seq
<1> DEFINE t == Top(Page(after))
<1>1. Page(after) \in SUBSET log
  BY DEF Page
<1>2. AreRows(Page(after))
  BY <1>1, RowsSubset
<1>3. t \in Page(after) /\ \A e \in Page(after) : e.seq <= t.seq
  BY <1>2, TopOfRows
<1> HIDE DEF t
<1>4. \A e \in log : e.seq \in Nat
  BY ChainAssumption DEF AreRows, IsEntry
<1>5. \A e \in Page(after) : after < e.seq
  BY <1>1, <1>4 DEF Page
<1>6. \A e \in log : after < e.seq /\ e.seq <= t.seq => e \in Page(after)
  BY <1>3, PageBelow
<1> QED BY <1>1, <1>2, <1>3, <1>4, <1>5, <1>6 DEF t

\* Rows that chain from a hash verify from it.
LEMMA ChainsVerify ==
    ASSUME NEW rows, NEW base, ChainsFrom(rows, base)
    PROVE  VerifySequence(rows, base) = 0
BY DEF ChainsFrom, VerifySequence, Before

\* The rows of a page chain from the hash before it, and the last of them is what the
\* next page chains from.
LEMMA PageChains ==
    ASSUME AreRows(log), NEW base, ChainsFrom(log, base), NEW after \in Nat, Page(after) # {}
    PROVE  /\ ChainsFrom(Page(after), Before(log, after + 1, base))
           /\ Before(log, Top(Page(after)).seq + 1, base) = Top(Page(after)).hash
<1> DEFINE page == Page(after)
           t == Top(page)
           start == Before(log, after + 1, base)
<1>1. /\ AreRows(page) /\ t \in log /\ t.seq \in Nat /\ after < t.seq
      /\ \A e \in log : e \in page <=> after < e.seq /\ e.seq <= t.seq
  BY PageIsStretch
<1> HIDE DEF page, t
<1>2. page \subseteq log
  BY DEF page, Page
<1>3. \A e \in log : e.seq \in Nat
  BY ChainAssumption DEF AreRows, IsEntry
<1>4. ASSUME NEW seq \in Int PROVE AreRows(Below(log, seq)) /\ AreRows(Below(page, seq))
  <2>1. Below(log, seq) \in SUBSET log /\ Below(page, seq) \in SUBSET page
    BY DEF Below
  <2> QED BY <1>1, <2>1, RowsSubset
<1>5. ASSUME NEW e \in page PROVE Before(page, e.seq, start) = Before(log, e.seq, base)
  <2>1. e \in log /\ e.seq \in Int /\ after < e.seq /\ e.seq <= t.seq
    BY <1>1, <1>2, <1>3
  <2>2. CASE Below(page, e.seq) = {}
    <3>1. Below(log, e.seq) = Below(log, after + 1)
      BY <1>1, <1>3, <2>1, <2>2 DEF Below
    <3> QED BY <2>2, <3>1 DEF Before
  <2>3. CASE Below(page, e.seq) # {}
    <3> DEFINE u == Top(Below(page, e.seq))
    <3>1. u \in Below(page, e.seq) /\ \A f \in Below(page, e.seq) : f.seq <= u.seq
      BY <1>4, <2>1, <2>3, TopOfRows
    <3> HIDE DEF u
    <3>2. u \in Below(log, e.seq)
      BY <1>2, <3>1 DEF Below
    <3>3. \A f \in Below(log, e.seq) : f.seq <= u.seq
      <4> TAKE f \in Below(log, e.seq)
      <4>1. f \in log /\ f.seq < e.seq /\ u \in log /\ u \in page
        BY <1>2, <3>1 DEF Below
      <4>2. CASE f \in page
        BY <3>1, <4>1, <4>2 DEF Below
      <4>3. CASE f \notin page
        BY <1>1, <1>3, <2>1, <4>1, <4>3
      <4> QED BY <4>2, <4>3
    <3>4. Top(Below(log, e.seq)) = u
      BY <1>4, <2>1, <3>2, <3>3, TopIs
    <3> QED BY <2>3, <3>2, <3>4 DEF Before, u
  <2> QED BY <2>2, <2>3
<1>6. ChainsFrom(page, start)
  BY <1>2, <1>5 DEF ChainsFrom
<1>7. Before(log, t.seq + 1, base) = t.hash
  <2>1. t \in Below(log, t.seq + 1) /\ \A f \in Below(log, t.seq + 1) : f.seq <= t.seq
    BY <1>1, <1>3 DEF Below
  <2>2. Top(Below(log, t.seq + 1)) = t
    BY <1>1, <1>4, <2>1, TopIs
  <2> QED BY <2>1, <2>2 DEF Before
<1> QED BY <1>6, <1>7 DEF page, t

\* All before the first entry to keep is old enough.
LEMMA KeepFromKeeps ==
    ASSUME AreRows(log), NEW cut \in Nat
    PROVE  KeepFrom(cut) \in Nat \ {0} /\ \A e \in log : e.seq < KeepFrom(cut) => e.at < cut
<1> DEFINE kept == {e.seq : e \in {f \in log : f.at >= cut}}
<1>1. \A e \in log : e.seq \in Nat \ {0} /\ e.seq < MaxSeq + 1 /\ e.at \in Nat /\ MaxSeq \in Nat
  BY ChainAssumption DEF AreRows, IsEntry
<1>2. KeepFrom(cut) = IF kept = {} THEN MaxSeq + 1 ELSE Min(kept)
  BY DEF KeepFrom
<1>3. \A e \in log : e.at >= cut => e.seq \in kept
  OBVIOUS
<1>4. kept \in SUBSET (Nat \ {0})
  BY <1>1
<1> HIDE DEF kept
<1>5. CASE kept = {}
  <2>1. \A e \in log : e.at < cut
    BY <1>1, <1>3, <1>5
  <2>2. MaxSeq + 1 \in Nat \ {0} /\ KeepFrom(cut) = MaxSeq + 1
    BY <1>2, <1>5, ChainAssumption
  <2> QED BY <2>1, <2>2
<1>6. CASE kept # {}
  <2>1. Min(kept) \in kept /\ \A s \in kept : Min(kept) <= s
    <3>1. \E m \in kept : \A s \in kept : m <= s
      BY <1>4, <1>6, LeastNumber
    <3> QED BY <3>1 DEF Min
  <2>2. KeepFrom(cut) = Min(kept) /\ Min(kept) \in Nat \ {0}
    BY <1>2, <1>4, <1>6, <2>1
  <2>3. ASSUME NEW e \in log, e.seq < Min(kept) PROVE e.at < cut
    <3>1. e.seq \notin kept /\ e.seq \in Nat /\ e.at \in Nat
      BY <1>1, <2>1, <2>2, <2>3
    <3> QED BY <1>3, <3>1
  <2> QED BY <2>2, <2>3
<1> QED BY <1>5, <1>6

\* The last entry before a number is a row before it.
LEMMA LastBeforeIs ==
    ASSUME AreRows(log), NEW seq, LastBefore(seq) # 0
    PROVE  /\ \E e \in log : e.seq = LastBefore(seq)
           /\ LastBefore(seq) \in Nat /\ LastBefore(seq) < seq
<1>1. LastBefore(seq) = Top(Below(log, seq)).seq /\ Below(log, seq) # {}
  BY DEF LastBefore
<1>2. AreRows(Below(log, seq))
  <2>1. Below(log, seq) \in SUBSET log
    BY DEF Below
  <2> QED BY <2>1, RowsSubset
<1>3. Top(Below(log, seq)) \in Below(log, seq)
  BY <1>1, <1>2, TopOfRows
<1>4. PICK t \in log : t = Top(Below(log, seq)) /\ t.seq < seq
  BY <1>3 DEF Below
<1>5. t.seq \in Nat
  BY ChainAssumption DEF AreRows, IsEntry
<1> QED BY <1>1, <1>4, <1>5

-----------------------------------------------------------------------------
(* Commits.                                                                *)

\* There is one newest checkpoint.
LEMMA NewestIs ==
    ASSUME CheckpointsInv, NEW k, Newest(k)
    PROVE  NewestCheckpoint = k
<1>1. \A d \in checkpoints : d.seq \in Nat
  BY DEF CheckpointsInv
<1>2. checkpoints # {} /\ \E c \in checkpoints : \A d \in checkpoints : d.seq <= c.seq
  BY DEF Newest
<1>3. /\ NewestCheckpoint \in checkpoints
      /\ \A d \in checkpoints : d.seq <= NewestCheckpoint.seq
  BY <1>2 DEF NewestCheckpoint
<1>4. NewestCheckpoint.seq = k.seq
  BY <1>1, <1>3 DEF Newest
<1> QED BY <1>3, <1>4 DEF CheckpointsInv, Newest

\* The head is what a row above all others chains onto, and an empty log has no
\* checkpoint behind it.
LEMMA HeadIsBefore ==
    ASSUME LogInv, NEW seq, \A e \in log : e.seq < seq
    PROVE  /\ HeadHash = Before(log, seq, NewestCheckpoint.hash)
           /\ log = {} => checkpoints = {}
<1>1. Below(log, seq) = log
  BY DEF Below
<1>2. HeadHash = Before(log, seq, NewestCheckpoint.hash)
  BY <1>1 DEF HeadHash, Before
<1>3. log = {} => checkpoints = {}
  BY DEF LogInv, CheckpointsInv
<1> QED BY <1>2, <1>3

\* What a transaction is about to append.
LEMMA AppendedVerifies ==
    ASSUME LogInv, NEW job, job.job \in {"append", "erase", "prune"}, job.at \in Nat,
           NEW seq \in 1..MaxSeq, NEW new, new = Appended(job, seq, HeadHash, job.bound)
    PROVE  /\ IsEntry(new) /\ new.seq = seq /\ VerifyEntry(new, HeadHash)
           /\ job.job = "prune" =>
                new.kind = "marker"
                /\ new.detail = PruneMarkerDetail(CHOOSE e \in log : e.seq = job.bound)
<1>1. MaxTime \in Nat
  BY ChainAssumption
<1>2. CASE job.job = "append"
  <2>1. new = Prepare(seq, HeadHash, job.at, "event", job.subject, NoDetail)
    BY <1>2 DEF Appended
  <2> QED BY <1>2, <2>1, PreparedVerifies
<1>3. CASE job.job = "erase"
  <2>1. new = Prepare(seq, HeadHash, job.at, "tombstone", NoSubject, <<"erased">>)
    BY <1>3 DEF Appended
  <2> QED BY <1>3, <2>1, PreparedVerifies
<1>4. CASE job.job = "prune"
  <2>1. new = Prepare(seq, HeadHash, MaxTime, "marker", NoSubject,
                      PruneMarkerDetail(CHOOSE e \in log : e.seq = job.bound))
    BY <1>4 DEF Appended
  <2> QED BY <1>1, <1>4, <2>1, PreparedVerifies
<1> QED BY <1>2, <1>3, <1>4

\* A commit that trims nothing keeps the log's invariant and every place in the chain;
\* the rows already there keep their number, time and kind.
LEMMA CommitExtends ==
    ASSUME LogInv, NEW job, job.job \in {"append", "erase"}, job.at \in Nat, Holds(log, job),
           NEW seq \in 1..MaxSeq, \A e \in log : e.seq < seq,
           NEW new, new = Appended(job, seq, HeadHash, job.bound), Commit(job, new)
    PROVE  /\ LogInv' /\ new \in log' /\ new.seq = seq
           /\ \A f \in log' : f = new \/ \E e \in log : f.seq = e.seq /\ f.at = e.at /\ f.kind = e.kind
           /\ \A e \in log : \E f \in log' : f.seq = e.seq
           /\ NewestCheckpoint' = NewestCheckpoint /\ checkpoints' = checkpoints
           /\ \A s \in Int : s <= seq =>
                Before(log', s, NewestCheckpoint.hash) = Before(log, s, NewestCheckpoint.hash)
<1> DEFINE base == NewestCheckpoint.hash
<1>1. /\ AreRows(log) /\ ChainsFrom(log, base) /\ CheckpointsInv
      /\ IsEntry(new) /\ new.seq = seq /\ VerifyEntry(new, Before(log, seq, base))
  BY AppendedVerifies, HeadIsBefore DEF LogInv
<1>2. \A e \in log : e.seq \in Int
  BY <1>1, ChainAssumption DEF AreRows, IsEntry
<1>3. seq \in Int
  BY ChainAssumption
<1>4. UNCHANGED <<checkpoints, trimmed>>
  BY DEF Commit
<1>5. NewestCheckpoint' = NewestCheckpoint
  BY <1>4 DEF NewestCheckpoint
\* Whichever of the two it is, rows that were there before, perhaps cleared, and the new one.
<1>6. PICK rows :
        /\ log' = rows \cup {new} /\ AreRows(rows) /\ ChainsFrom(rows, base)
        /\ \A s \in Int : Before(rows, s, base) = Before(log, s, base)
        /\ \A f \in rows : \E e \in log : f.seq = e.seq /\ f.at = e.at /\ f.kind = e.kind
        /\ \A e \in log : \E f \in rows : f.seq = e.seq
        /\ \A e \in log : e.kind = "marker" => e \in rows
  <2>1. CASE job.job = "append"
    <3>1. log' = log \cup {new}
      BY <2>1 DEF Commit
    <3> QED BY <1>1, <3>1
  <2>2. CASE job.job = "erase"
    <3> DEFINE rows == ClearedOf(log, job.rows)
    <3> HIDE DEF base
    <3>1. log' = rows \cup {new}
      BY <2>2 DEF Commit, Erased, ClearedOf
    <3>2. AreRows(rows) /\ ChainsFrom(rows, base)
      BY <1>1, EraseChains
    <3>3. ASSUME NEW s \in Int PROVE Before(rows, s, base) = Before(log, s, base)
      BY <1>1, EraseChains
    <3>4. ASSUME NEW f \in rows
          PROVE  \E e \in log : f.seq = e.seq /\ f.at = e.at /\ f.kind = e.kind
      BY <1>1, EraseChains
    <3>5. ASSUME NEW e \in log PROVE \E f \in rows : f.seq = e.seq
      BY <1>1, EraseChains
    <3>6. ASSUME NEW e \in log, e.kind = "marker" PROVE e \in rows
      <4>1. e.seq \notin job.rows
        BY <2>2, <3>6 DEF Holds
      <4> QED BY <1>1, <4>1, EraseChains
    <3> HIDE DEF rows
    <3> QED BY <3>1, <3>2, <3>3, <3>4, <3>5, <3>6
  <2> QED BY <2>1, <2>2
<1> HIDE DEF base
<1>7. \A e \in rows : e.seq < new.seq
  <2> TAKE f \in rows
  <2>1. PICK e \in log : f.seq = e.seq
    BY <1>6
  <2> QED BY <1>1, <2>1
<1>8. VerifyEntry(new, Before(rows, new.seq, base))
  BY <1>1, <1>3, <1>6
<1>9. /\ AreRows(rows \cup {new}) /\ ChainsFrom(rows \cup {new}, base)
      /\ \A s \in Int : s <= new.seq => Before(rows \cup {new}, s, base) = Before(rows, s, base)
  <2>1. AreRows(rows) /\ ChainsFrom(rows, base) /\ IsEntry(new)
    BY <1>1, <1>6
  <2>2. AreRows(rows \cup {new}) /\ ChainsFrom(rows \cup {new}, base)
    BY <1>7, <1>8, <2>1, AppendChains
  <2>3. ASSUME NEW s \in Int, s <= new.seq
        PROVE  Before(rows \cup {new}, s, base) = Before(rows, s, base)
    <3>1. ~(new.seq < s)
      BY <1>1, <1>3, <2>3
    <3> QED BY <3>1, AppendMovesNothing
  <2> QED BY <2>2, <2>3
<1>10. CheckpointsInv'
  <2>1. \A k \in checkpoints : k.seq \in Nat /\ \A f \in log' : k.seq < f.seq
    <3> TAKE k \in checkpoints
    <3>1. k.seq \in Nat /\ \A e \in log : k.seq < e.seq
      BY <1>1 DEF CheckpointsInv
    <3>2. PICK e \in log : TRUE
      BY HeadIsBefore
    <3>3. k.seq < new.seq
      BY <1>1, <1>2, <1>3, <3>1, <3>2
    <3> QED BY <1>6, <3>1, <3>3
  <2>2. checkpoints # {} =>
         \E k \in checkpoints : Newest(k)
            /\ \E e \in log' : e.seq = k.marker /\ e.kind = "marker"
                               /\ MarkerAttestsCheckpoint(e.detail, k)
    BY <1>1, <1>6 DEF CheckpointsInv
  <2> QED BY <1>1, <1>4, <2>1, <2>2 DEF CheckpointsInv, Newest
<1>11. LogInv'
  <2>1. AreRows(log') /\ ChainsFrom(log', base)
    BY <1>6, <1>9
  <2>2. OnlyOldIsTrimmed'
    BY <1>4 DEF LogInv, OnlyOldIsTrimmed
  <2>3. AreRows(log)' /\ ChainsFrom(log, NewestCheckpoint.hash)'
    BY <1>5, <2>1 DEF AreRows, ChainsFrom, Before, base
  <2> QED BY <1>10, <2>2, <2>3 DEF LogInv
<1>12. \A s \in Int : s <= seq => Before(log', s, base) = Before(log, s, base)
  BY <1>1, <1>6, <1>9
<1>13. /\ new \in log'
       /\ \A f \in log' : f = new \/ \E e \in log : f.seq = e.seq /\ f.at = e.at /\ f.kind = e.kind
       /\ \A e \in log : \E f \in log' : f.seq = e.seq
  BY <1>6
<1> QED BY <1>1, <1>4, <1>5, <1>11, <1>12, <1>13 DEF base

\* A trim starts the chain from the hash its checkpoint keeps, which the marker it
\* appends attests.
LEMMA CommitTrims ==
    ASSUME LogInv, NEW job, job.job = "prune", job.at \in Nat, Holds(log, job),
           job.head \in Nat, job.bound # 0, BoundaryPresent(job.bound),
           NEW seq \in 1..MaxSeq, \A e \in log : e.seq < seq,
           NEW new, new = Appended(job, seq, HeadHash, job.bound), Commit(job, new)
    PROVE  /\ LogInv' /\ new \in log' /\ new.seq = seq
           /\ \A f \in log' : f = new \/ f \in log
<1> DEFINE base == NewestCheckpoint.hash
           last == CHOOSE e \in log : e.seq = job.bound
           kept == {e \in log : e.seq > last.seq}
           k == [seq |-> job.bound, marker |-> new.seq, hash |-> last.hash]
<1>1. /\ AreRows(log) /\ ChainsFrom(log, base) /\ CheckpointsInv
      /\ IsEntry(new) /\ new.seq = seq /\ VerifyEntry(new, Before(log, seq, base))
      /\ new.kind = "marker" /\ new.detail = PruneMarkerDetail(last)
  BY AppendedVerifies, HeadIsBefore DEF LogInv
<1>2. last \in log /\ last.seq = job.bound
  BY DEF BoundaryPresent
<1>3. /\ log' = kept \cup {new} /\ checkpoints' = checkpoints \cup {k}
      /\ trimmed' = trimmed \cup {[at |-> e.at, cut |-> job.at, since |-> e.seq > job.head] :
                                  e \in Below(log, job.bound + 1)}
  BY <1>2 DEF Commit
<1> HIDE DEF last
<1>4. /\ \A e \in log : e.seq \in Nat /\ seq \in Nat
  BY <1>1, ChainAssumption DEF AreRows, IsEntry
<1>5. /\ AreRows(kept) /\ ChainsFrom(kept, last.hash)
      /\ \A s \in Int : last.seq < s => Before(kept, s, last.hash) = Before(log, s, base)
  BY <1>1, <1>2, TrimChains
<1>6. /\ \A e \in kept : e.seq < new.seq
      /\ VerifyEntry(new, Before(kept, new.seq, last.hash))
  BY <1>1, <1>2, <1>4, <1>5
<1>7. AreRows(kept \cup {new}) /\ ChainsFrom(kept \cup {new}, last.hash)
  <2> HIDE DEF kept
  <2> QED BY <1>1, <1>5, <1>6, AppendChains
<1>8. \A d \in checkpoints : d.seq \in Nat /\ d.seq < k.seq
  BY <1>1, <1>2 DEF CheckpointsInv
<1>9. CheckpointsInv' /\ k \in checkpoints' /\ \A d \in checkpoints' : d.seq <= k.seq
  <2>1. k.seq \in Nat /\ k.seq = last.seq /\ k.marker = new.seq /\ k.hash = last.hash
    BY <1>2, <1>4
  <2> HIDE DEF k
  <2>2. \A d \in checkpoints' : d.seq \in Nat /\ \A f \in log' : d.seq < f.seq
    <3>1. \A f \in log' : k.seq < f.seq /\ f.seq \in Nat
      BY <1>1, <1>2, <1>3, <1>4, <2>1
    <3> QED BY <1>3, <1>8, <2>1, <3>1
  <2>3. \A c, d \in checkpoints' : c.seq = d.seq => c = d
    BY <1>1, <1>3, <1>8, <2>1 DEF CheckpointsInv
  <2>4. \A d \in checkpoints' : d.seq <= k.seq
    BY <1>3, <1>8, <2>1
  <2>5. new \in log' /\ MarkerAttestsCheckpoint(new.detail, k)
    BY <1>1, <1>3, <2>1 DEF MarkerAttestsCheckpoint, PruneMarkerDetail
  <2>6. k \in checkpoints'
    BY <1>3
  <2>7. \E c \in checkpoints' :
          /\ c \in checkpoints' /\ \A d \in checkpoints' : d.seq <= c.seq
          /\ \E e \in log' : e.seq = c.marker /\ e.kind = "marker"
                             /\ MarkerAttestsCheckpoint(e.detail, c)
    BY <1>1, <2>1, <2>4, <2>5, <2>6
  <2>8. CheckpointsInv'
    BY <2>2, <2>3, <2>7 DEF CheckpointsInv, Newest
  <2> QED BY <2>4, <2>6, <2>8
<1>10. OnlyOldIsTrimmed'
  <2>1. \A e \in Below(log, job.bound + 1) : e.at < job.at \/ e.seq > job.head
    <3>1. \A e \in log : e.seq <= job.bound /\ e.seq <= job.head => e.at < job.at
      BY DEF Holds
    <3> QED BY <1>2, <1>4, <3>1 DEF Below
  <2>2. \A t \in trimmed' :
          \/ t \in trimmed
          \/ \E e \in Below(log, job.bound + 1) :
               t = [at |-> e.at, cut |-> job.at, since |-> e.seq > job.head]
    BY <1>3
  <2>3. ASSUME NEW e \in Below(log, job.bound + 1), NEW t,
               t = [at |-> e.at, cut |-> job.at, since |-> e.seq > job.head]
        PROVE  t.at < t.cut \/ t.since
    <3>1. t.at = e.at /\ t.cut = job.at /\ t.since = (e.seq > job.head)
      BY <2>3
    <3> QED BY <2>1, <3>1
  <2> QED BY <2>2, <2>3 DEF LogInv, OnlyOldIsTrimmed
<1>11. NewestCheckpoint' = k
  <2> HIDE DEF k
  <2>1. \A d \in checkpoints' : d.seq \in Nat
    BY <1>9 DEF CheckpointsInv
  <2>2. \E c \in checkpoints' : \A d \in checkpoints' : d.seq <= c.seq
    BY <1>9
  <2>3. /\ NewestCheckpoint' \in checkpoints'
        /\ \A d \in checkpoints' : d.seq <= NewestCheckpoint'.seq
    BY <2>2 DEF NewestCheckpoint
  <2>4. NewestCheckpoint'.seq = k.seq
    BY <1>9, <2>1, <2>3
  <2> QED BY <1>9, <2>3, <2>4 DEF CheckpointsInv
<1>12. AreRows(log)' /\ ChainsFrom(log, NewestCheckpoint.hash)'
  <2>1. AreRows(log') /\ ChainsFrom(log', k.hash)
    BY <1>3, <1>7
  <2> HIDE DEF k
  <2> QED BY <1>11, <2>1 DEF AreRows, ChainsFrom, Before
<1> QED BY <1>1, <1>3, <1>9, <1>10, <1>12 DEF LogInv

\* One field of a verification changes, and no other.
LEMMA WalkField ==
    ASSUME NEW r, r = WalkOf(r.stage, r.from, r.cp, r.prev, r.cursor, r.broken, r.trimmedMeanwhile, r.anchored), NEW x
    PROVE  /\ [r EXCEPT !.stage = x] = WalkOf(x, r.from, r.cp, r.prev, r.cursor, r.broken, r.trimmedMeanwhile, r.anchored)
           /\ [r EXCEPT !.from = x] = WalkOf(r.stage, x, r.cp, r.prev, r.cursor, r.broken, r.trimmedMeanwhile, r.anchored)
           /\ [r EXCEPT !.cp = x] = WalkOf(r.stage, r.from, x, r.prev, r.cursor, r.broken, r.trimmedMeanwhile, r.anchored)
           /\ [r EXCEPT !.prev = x] = WalkOf(r.stage, r.from, r.cp, x, r.cursor, r.broken, r.trimmedMeanwhile, r.anchored)
           /\ [r EXCEPT !.cursor = x] = WalkOf(r.stage, r.from, r.cp, r.prev, x, r.broken, r.trimmedMeanwhile, r.anchored)
           /\ [r EXCEPT !.broken = x] = WalkOf(r.stage, r.from, r.cp, r.prev, r.cursor, x, r.trimmedMeanwhile, r.anchored)
           /\ [r EXCEPT !.trimmedMeanwhile = x] = WalkOf(r.stage, r.from, r.cp, r.prev, r.cursor, r.broken, x, r.anchored)
           /\ [r EXCEPT !.anchored = x] = WalkOf(r.stage, r.from, r.cp, r.prev, r.cursor, r.broken, r.trimmedMeanwhile, x)
<1>1. PICK a, b, c, d, e, f, g, h : r = WalkOf(a, b, c, d, e, f, g, h)
  OBVIOUS
<1>2. r.stage = a /\ r.from = b /\ r.cp = c /\ r.prev = d /\ r.cursor = e /\ r.broken = f /\ r.trimmedMeanwhile = g /\ r.anchored = h
  BY ONLY <1>1 DEF WalkOf
<1> QED BY ONLY <1>1, <1>2 DEF WalkOf

\* One field of a transaction changes, and no other.
LEMMA TxField ==
    ASSUME NEW r, r = TxOf(r.stage, r.job, r.at, r.subject, r.seq, r.prev, r.rows, r.bound, r.head), NEW x
    PROVE  /\ [r EXCEPT !.stage = x] = TxOf(x, r.job, r.at, r.subject, r.seq, r.prev, r.rows, r.bound, r.head)
           /\ [r EXCEPT !.job = x] = TxOf(r.stage, x, r.at, r.subject, r.seq, r.prev, r.rows, r.bound, r.head)
           /\ [r EXCEPT !.at = x] = TxOf(r.stage, r.job, x, r.subject, r.seq, r.prev, r.rows, r.bound, r.head)
           /\ [r EXCEPT !.subject = x] = TxOf(r.stage, r.job, r.at, x, r.seq, r.prev, r.rows, r.bound, r.head)
           /\ [r EXCEPT !.seq = x] = TxOf(r.stage, r.job, r.at, r.subject, x, r.prev, r.rows, r.bound, r.head)
           /\ [r EXCEPT !.prev = x] = TxOf(r.stage, r.job, r.at, r.subject, r.seq, x, r.rows, r.bound, r.head)
           /\ [r EXCEPT !.rows = x] = TxOf(r.stage, r.job, r.at, r.subject, r.seq, r.prev, x, r.bound, r.head)
           /\ [r EXCEPT !.bound = x] = TxOf(r.stage, r.job, r.at, r.subject, r.seq, r.prev, r.rows, x, r.head)
           /\ [r EXCEPT !.head = x] = TxOf(r.stage, r.job, r.at, r.subject, r.seq, r.prev, r.rows, r.bound, x)
<1>1. PICK a, b, c, d, e, f, g, h, i : r = TxOf(a, b, c, d, e, f, g, h, i)
  OBVIOUS
<1>2. r.stage = a /\ r.job = b /\ r.at = c /\ r.subject = d /\ r.seq = e /\ r.prev = f /\ r.rows = g /\ r.bound = h /\ r.head = i
  BY ONLY <1>1 DEF TxOf
<1> QED BY ONLY <1>1, <1>2 DEF TxOf

\* What enters the store, before anything is read for it.
LEMMA JobsAre ==
    ASSUME NEW job \in Jobs
    PROVE  /\ job = TxOf("idle", job.job, job.at, job.subject, 0, Genesis, {}, 0, 0)
           /\ job.job \in {"append", "erase", "prune"} /\ job.at \in Nat
           /\ job.job = "erase" => job.subject \in LogSubjects
<1> DEFINE appends == {Pending("append", at, s) : at \in 1..MaxTime, s \in LogSubjects \cup {NoSubject}}
           erasures == {Pending("erase", MaxTime, s) : s \in LogSubjects}
           trims == {Pending("prune", cut, NoSubject) : cut \in 2..MaxTime}
<1>1. MaxTime \in Nat
  BY ChainAssumption
<1>2. ASSUME job \in appends PROVE \E at \in Nat : \E s : job = Pending("append", at, s)
  BY <1>1, <1>2
<1>3. ASSUME job \in erasures PROVE \E s \in LogSubjects : job = Pending("erase", MaxTime, s)
  BY <1>3
<1>4. ASSUME job \in trims PROVE \E cut \in Nat : job = Pending("prune", cut, NoSubject)
  BY <1>1, <1>4
<1>5. job \in appends \/ job \in erasures \/ job \in trims
  BY DEF Jobs
<1> HIDE DEF appends, erasures, trims
<1> QED BY <1>1, <1>2, <1>3, <1>4, <1>5 DEF Pending, TxOf

\* A commit keeps what others rely on: the reader's place, a verification's place
\* unless it is a trim, and what a transaction below the new number has read.
LEMMA CommitKeeps ==
    ASSUME LogInv, PagerInv, WalkInv, UNCHANGED pager,
           NEW job, job.job \in {"append", "erase", "prune"}, job.at \in Nat, Holds(log, job),
           job.head \in Nat, job.job = "prune" => job.bound # 0 /\ BoundaryPresent(job.bound),
           NEW seq \in 1..MaxSeq, \A e \in log : e.seq < seq, pager.cursor < seq,
           NEW new, new = Appended(job, seq, HeadHash, job.bound), Commit(job, new)
    PROVE  /\ LogInv' /\ PagerInv' /\ WalkInv'
           /\ \A e \in log' : e.seq <= seq
           /\ \A tx : Holds(log, tx) /\ tx.head \in Nat /\ Knows(tx, seq) => Holds(log', tx)
<1>t. /\ seq \in Nat /\ new.seq = seq /\ AreRows(log) /\ \A e \in log : e.seq \in Nat
  BY AppendedVerifies, ChainAssumption DEF LogInv, AreRows, IsEntry
<1>1. /\ LogInv' /\ new \in log'
      /\ \A f \in log' : f = new \/ \E e \in log : f.seq = e.seq /\ f.at = e.at /\ f.kind = e.kind
  <2>1. CASE job.job \in {"append", "erase"}
    BY <2>1, CommitExtends
  <2>2. CASE job.job = "prune"
    <3>1. /\ LogInv' /\ new \in log' /\ \A f \in log' : f = new \/ f \in log
      BY <2>2, CommitTrims
    <3> QED BY <3>1
  <2> QED BY <2>1, <2>2
<1>2. PagerInv'
  <2>1. pager.cursor \in Nat /\ pager.cursor <= new.seq
    BY <1>t DEF PagerInv
  <2>2. ASSUME NEW f \in log', f.seq <= pager.cursor PROVE f.seq \in pager.seen
    <3>1. f # new
      BY <1>t, <2>1, <2>2
    <3>2. PICK e \in log : f.seq = e.seq
      BY <1>1, <3>1
    <3> QED BY <2>2, <3>2 DEF PagerInv, NothingBehindCursor
  <2>3. pager' = pager
    OBVIOUS
  <2> QED BY <1>1, <2>1, <2>2, <2>3 DEF PagerInv, NothingBehindCursor
<1>3. \A e \in log' : e.seq <= seq
  <2> TAKE f \in log'
  <2>1. CASE f = new
    BY <1>t, <2>1
  <2>2. CASE f # new
    <3>1. PICK e \in log : f.seq = e.seq
      BY <1>1, <2>2
    <3> QED BY <1>t, <3>1
  <2> QED BY <2>1, <2>2
<1>4. ASSUME NEW tx, Holds(log, tx), tx.head \in Nat, Knows(tx, seq)
      PROVE  Holds(log', tx)
  <2>1. ASSUME NEW f \in log', f.seq < seq
        PROVE  \E e \in log : f.seq = e.seq /\ f.at = e.at /\ f.kind = e.kind
    BY <1>t, <1>1, <2>1
  <2>2. ASSUME tx.job = "erase", NEW f \in log', f.seq \in tx.rows PROVE f.kind # "marker"
    <3>1. PICK e \in log : f.seq = e.seq /\ f.kind = e.kind
      BY <1>4, <2>1, <2>2 DEF Knows
    <3> QED BY <1>4, <2>2, <3>1 DEF Holds
  <2>3. ASSUME tx.job = "prune", NEW f \in log', f.seq <= tx.bound, f.seq <= tx.head
        PROVE  f.at < tx.at
    <3>1. f.seq \in Nat
      BY <1>1, ChainAssumption DEF LogInv, AreRows, IsEntry
    <3>2. f.seq < seq
      BY <1>t, <1>4, <2>3, <3>1 DEF Knows
    <3>3. PICK e \in log : f.seq = e.seq /\ f.at = e.at
      BY <2>1, <3>2
    <3> QED BY <1>4, <2>3, <3>3 DEF Holds
  <2> QED BY <2>2, <2>3 DEF Holds
<1>5. WalkInv'
  <2> DEFINE over == walk.trimmedMeanwhile \/ (job.job = "prune" /\ walk.stage # "idle")
  <2>1. walk' = WalkOf(walk.stage, walk.from, walk.cp, walk.prev, walk.cursor, walk.broken,
                       over, walk.anchored)
    <3>1. walk' = [walk EXCEPT !.trimmedMeanwhile = over]
      BY DEF Commit, NoteTrim
    <3> HIDE DEF over
    <3>2. walk = WalkOf(walk.stage, walk.from, walk.cp, walk.prev, walk.cursor, walk.broken,
                        walk.trimmedMeanwhile, walk.anchored)
      BY DEF WalkInv
    <3> QED BY <3>1, <3>2, WalkField
  <2>2. over \in BOOLEAN
    OBVIOUS
  <2>3. /\ walk'.stage = walk.stage /\ walk'.from = walk.from /\ walk'.cp = walk.cp
        /\ walk'.prev = walk.prev /\ walk'.cursor = walk.cursor /\ walk'.broken = walk.broken
        /\ walk'.trimmedMeanwhile = over /\ walk'.anchored = walk.anchored
    <3> HIDE DEF over
    <3> QED BY <2>1 DEF WalkOf
  <2>4. walk.trimmedMeanwhile => over
    BY DEF WalkInv
  <2>5. NoFalseBreak'
    <3>1. walk.broken # 0 => walk.stage = "done"
      BY DEF WalkInv
    <3> HIDE DEF over
    <3> QED BY <2>3, <2>4 DEF WalkInv, NoFalseBreak
  <2>6. ASSUME ~over
        PROVE  /\ walk.stage = "marker" => walk.cp = NewestCheckpoint' /\ checkpoints' # {}
               /\ walk.stage = "page" /\ walk.anchored =>
                    /\ walk.prev = Before(log', walk.cursor + 1, NewestCheckpoint'.hash)
                    /\ walk.cursor = 0 \/ \E e \in log' : walk.cursor <= e.seq
    <3>1. ~walk.trimmedMeanwhile
      BY <2>4, <2>6
    <3>2. CASE walk.stage = "idle"
      BY <3>2
    <3>3. CASE walk.stage # "idle"
      <4>1. job.job \in {"append", "erase"}
        BY <2>6, <3>3
      <4> HIDE DEF over
      <4>2. /\ NewestCheckpoint' = NewestCheckpoint /\ checkpoints' = checkpoints
            /\ \A e \in log : \E f \in log' : f.seq = e.seq
            /\ \A s \in Int : s <= seq =>
                Before(log', s, NewestCheckpoint.hash) = Before(log, s, NewestCheckpoint.hash)
        BY <4>1, CommitExtends
      <4>3. ASSUME walk.stage = "page", walk.anchored
            PROVE  /\ walk.prev = Before(log', walk.cursor + 1, NewestCheckpoint.hash)
                   /\ walk.cursor = 0 \/ \E e \in log' : walk.cursor <= e.seq
        <5>1. /\ walk.prev = Before(log, walk.cursor + 1, NewestCheckpoint.hash)
              /\ walk.cursor = 0 \/ \E e \in log : walk.cursor <= e.seq
              /\ walk.cursor \in Nat
          BY <3>1, <4>3 DEF WalkInv
        <5>2. walk.cursor + 1 \in Int /\ walk.cursor + 1 <= seq
          BY <1>t, <5>1
        <5>3. walk.cursor = 0 \/ \E e \in log' : walk.cursor <= e.seq
          BY <4>2, <5>1
        <5> QED BY <4>2, <5>1, <5>2, <5>3
      <4>4. walk.stage = "marker" => walk.cp = NewestCheckpoint /\ checkpoints # {}
        BY <3>1 DEF WalkInv
      <4> QED BY <4>2, <4>3, <4>4
    <3> QED BY <3>2, <3>3
  <2> HIDE DEF over
  <2>7. /\ walk.stage \in {"idle", "checkpoint", "marker", "before", "page", "done"}
        /\ walk.from \in Nat \ {0} /\ walk.cursor \in Nat
        /\ walk.anchored \in BOOLEAN
        /\ walk.stage # "done" => walk.broken = 0
        /\ walk.stage \in {"checkpoint", "marker", "before"} => walk.cursor = walk.from - 1
    BY DEF WalkInv
  <2> QED BY <2>1, <2>2, <2>3, <2>5, <2>6, <2>7 DEF WalkInv
<1> QED BY <1>1, <1>2, <1>3, <1>4, <1>5

-----------------------------------------------------------------------------
(* Writers.                                                                *)

\* What a transaction reads before it commits holds of the log it is read from.
LEMMA ReadsHold ==
    ASSUME LogInv, NEW job \in Jobs, NEW tx, tx.job = job.job, tx.at = job.at,
           job.job = "erase" => tx.rows = {e.seq : e \in Naming(job.subject)},
           job.job = "prune" => tx.bound \in Int /\ tx.bound < KeepFrom(job.at)
    PROVE  Holds(log, tx)
<1>1. ASSUME tx.job = "erase", NEW e \in log, e.seq \in tx.rows PROVE e.kind # "marker"
  <2>1. PICK f \in Naming(job.subject) : e.seq = f.seq
    BY <1>1
  <2>2. f = e /\ f.subject = job.subject /\ IsEntry(e)
    BY <2>1 DEF Naming, LogInv, AreRows
  <2>3. job.subject \in LogSubjects
    BY <1>1, JobsAre
  <2> QED BY <2>2, <2>3, ChainAssumption DEF IsEntry
<1>2. ASSUME tx.job = "prune", NEW e \in log, e.seq <= tx.bound PROVE e.at < tx.at
  <2>1. AreRows(log) /\ job.at \in Nat
    BY JobsAre DEF LogInv
  <2>2. e.seq \in Nat
    BY <2>1, ChainAssumption DEF AreRows, IsEntry
  <2> QED BY <1>2, <2>1, <2>2, KeepFromKeeps
<1> QED BY <1>1, <1>2 DEF Holds

\* The head is above every row and every reader.
LEMMA HeadIsAbove ==
    ASSUME LogInv, PagerInv
    PROVE  /\ HeadSeq \in Nat /\ (HeadSeq = 0 \/ \E e \in log : e.seq = HeadSeq)
           /\ \A e \in log : e.seq < HeadSeq + 1
           /\ pager.cursor < HeadSeq + 1
<1>1. \A e \in log : e.seq \in Nat
  BY ChainAssumption DEF LogInv, AreRows, IsEntry
<1>2. CASE log = {}
  <2>1. checkpoints = {}
    BY <1>2 DEF LogInv, CheckpointsInv
  <2>2. HeadSeq = 0
    BY <1>2, <2>1 DEF HeadSeq, NewestCheckpoint, NoCheckpoint
  <2> QED BY <1>2, <2>2 DEF PagerInv
<1>3. CASE log # {}
  <2>1. HeadSeq = Top(log).seq
    BY <1>3 DEF HeadSeq
  <2>2. Top(log) \in log /\ \A e \in log : e.seq <= Top(log).seq
    BY <1>3, TopOfRows DEF LogInv
  <2>3. pager.cursor \in Nat /\ (pager.cursor = 0 \/ \E e \in log : pager.cursor <= e.seq)
    BY DEF PagerInv
  <2> QED BY <1>1, <2>1, <2>2, <2>3
<1> QED BY <1>2, <1>3

\* On SQLite the transaction is one step, and takes the number after the head.
LEMMA SqliteTxStep ==
    ASSUME ChainInv, NEW c \in Callers, SqliteTx(c)
    PROVE  ChainInv'
<1>t. LogInv /\ PagerInv /\ WalkInv /\ CallersInv /\ engine = "sqlite" /\ AreRows(log)
  BY DEF ChainInv, SqliteTx, LogInv
<1>0. PICK job \in Jobs : \E full :
        /\ full = [job EXCEPT !.rows = {e.seq : e \in Naming(job.subject)},
                             !.bound = PruneBound(job.at), !.head = HeadSeq]
        /\ job.job = "prune" => PruneBound(job.at) # 0
        /\ HeadSeq < MaxSeq
        /\ Commit(full, Appended(full, HeadSeq + 1, HeadHash, PruneBound(job.at)))
  BY DEF SqliteTx
<1>1. PICK full :
        /\ full = [job EXCEPT !.rows = {e.seq : e \in Naming(job.subject)},
                             !.bound = PruneBound(job.at), !.head = HeadSeq]
        /\ job.job = "prune" => PruneBound(job.at) # 0
        /\ HeadSeq < MaxSeq
        /\ Commit(full, Appended(full, HeadSeq + 1, HeadHash, PruneBound(job.at)))
  BY <1>0
<1>2. /\ full.job = job.job /\ full.at = job.at /\ full.subject = job.subject
      /\ full.rows = {e.seq : e \in Naming(job.subject)} /\ full.bound = PruneBound(job.at)
      /\ full.head = HeadSeq
      /\ job.job \in {"append", "erase", "prune"} /\ job.at \in Nat
  <2> DEFINE rows == {e.seq : e \in Naming(job.subject)}
             bound == PruneBound(job.at)
  <2>1. job = TxOf("idle", job.job, job.at, job.subject, 0, Genesis, {}, 0, 0)
    BY JobsAre
  <2>2. full = [job EXCEPT !.rows = rows, !.bound = bound, !.head = HeadSeq]
    BY <1>1
  <2> HIDE DEF rows, bound
  <2>3. /\ full.job = job.job /\ full.at = job.at /\ full.subject = job.subject
        /\ full.rows = rows /\ full.bound = bound /\ full.head = HeadSeq
    BY <2>1, <2>2 DEF TxOf
  <2> QED BY <2>3, JobsAre DEF rows, bound
<1>4. full.job = "prune" =>
        full.bound # 0 /\ BoundaryPresent(full.bound) /\ full.bound < KeepFrom(job.at)
  BY <1>t, <1>1, <1>2, LastBeforeIs DEF BoundaryPresent, PruneBound
<1>3. Holds(log, full)
  <2>1. job.job = "prune" => full.bound \in Int
    BY <1>t, <1>1, <1>2, LastBeforeIs DEF PruneBound
  <2> QED BY <1>t, <1>2, <1>4, <2>1, ReadsHold
<1>5. /\ HeadSeq + 1 \in 1..MaxSeq /\ \A e \in log : e.seq < HeadSeq + 1
      /\ pager.cursor < HeadSeq + 1
  BY <1>t, <1>1, HeadIsAbove, ChainAssumption
<1>6. UNCHANGED pager
  BY DEF SqliteTx
<1>7. LogInv' /\ PagerInv' /\ WalkInv'
  <2>1. PICK seq \in 1..MaxSeq : seq = HeadSeq + 1
    BY <1>5
  <2>2. PICK new : new = Appended(full, seq, HeadHash, full.bound)
    OBVIOUS
  <2>3. Commit(full, new)
    BY <1>1, <1>2, <2>1, <2>2
  <2>4. (\A e \in log : e.seq < seq) /\ pager.cursor < seq
    BY <1>5, <2>1
  <2>5. full.job \in {"append", "erase", "prune"} /\ full.at \in Nat /\ full.head \in Nat
    BY <1>t, <1>2, HeadIsAbove
  <2> QED BY <1>t, <1>3, <1>4, <1>6, <2>2, <2>3, <2>4, <2>5, CommitKeeps
<1>8. CallersInv'
  <2>1. UNCHANGED <<engine, drawn, appendLock, caller>>
    BY DEF SqliteTx
  <2>2. \A d \in Callers : IsTx(caller[d]) /\ caller[d].stage = "idle" /\ caller[d] = IdleCaller
    BY <1>t DEF CallersInv
  <2>3. Holds(log', IdleCaller)
    BY DEF Holds, IdleCaller, Pending
  <2> QED BY <1>t, <2>1, <2>2, <2>3 DEF CallersInv
<1> QED BY <1>7, <1>8 DEF ChainInv

\* Nothing is said of the log but through its variables, nor of the walk and the reader.
LEMMA LogUntouched ==
    ASSUME UNCHANGED <<log, checkpoints, trimmed>>
    PROVE  /\ LogInv => LogInv'
           /\ NewestCheckpoint' = NewestCheckpoint /\ HeadHash' = HeadHash
           /\ PagerInv /\ UNCHANGED pager => PagerInv'
           /\ WalkInv /\ UNCHANGED walk => WalkInv'
           /\ \A tx : Holds(log, tx) => Holds(log', tx)
<1>1. NewestCheckpoint' = NewestCheckpoint
  BY DEF NewestCheckpoint
<1>2. HeadHash' = HeadHash
  BY <1>1 DEF HeadHash
<1>3. LogInv => LogInv'
  <2>1. AreRows(log) => AreRows(log)'
    BY DEF AreRows
  <2>2. CheckpointsInv => CheckpointsInv'
    BY DEF CheckpointsInv, Newest
  <2>3. ChainsFrom(log, NewestCheckpoint.hash) => ChainsFrom(log, NewestCheckpoint.hash)'
    BY <1>1 DEF ChainsFrom, Before
  <2>4. OnlyOldIsTrimmed => OnlyOldIsTrimmed'
    BY DEF OnlyOldIsTrimmed
  <2> QED BY <2>1, <2>2, <2>3, <2>4 DEF LogInv
<1>4. PagerInv /\ UNCHANGED pager => PagerInv'
  BY DEF PagerInv, NothingBehindCursor
<1>5. WalkInv /\ UNCHANGED walk => WalkInv'
  BY <1>1 DEF WalkInv, NoFalseBreak, Before
<1>6. \A tx : Holds(log, tx) => Holds(log', tx)
  BY DEF Holds
<1> QED BY <1>1, <1>2, <1>3, <1>4, <1>5, <1>6

\* A writer with nothing to do has read nothing.
LEMMA IdleIs ==
    /\ IsTx(IdleCaller) /\ IdleCaller.stage = "idle"
    /\ \A rows : Holds(rows, IdleCaller)
    /\ \A seq \in Nat : 0 < seq => Knows(IdleCaller, seq)
BY DEF IsTx, TxOf, IdleCaller, Pending, Holds, Knows

\* One writer goes a step on, and the log stays as it is: all that is asked is that the
\* lock is its own from the moment it holds it, that what it has read is no further than
\* what everyone else knows of, and that a number it draws is above all that.
MovesOn(c, next) ==
    /\ engine = "postgres" /\ IsTx(next) /\ Holds(log, next)
    /\ caller' = [caller EXCEPT ![c] = next]
    /\ UNCHANGED <<engine, log, checkpoints, trimmed, walk, pager>>
    /\ drawn' \in 0..MaxSeq /\ drawn <= drawn'
    /\ next.stage = "idle" => next = IdleCaller
    /\ \A seq \in Nat : Above(seq) => Knows(next, seq)
    /\ \A d \in Callers \ {c} : caller[d].stage \in {"locked", "prepared"} => appendLock' = d
    /\ next.stage \in {"locked", "prepared"} => appendLock' = c
    /\ next.stage = "prepared" =>
         Above(next.seq) /\ next.seq \in 1..drawn' /\ next.prev = HeadHash

\* Such a step keeps the invariant.
LEMMA CallerMoves ==
    ASSUME ChainInv, NEW c \in Callers, NEW next, MovesOn(c, next)
    PROVE  ChainInv'
<1> USE DEF MovesOn
<1>t. /\ LogInv /\ PagerInv /\ WalkInv /\ CallersInv /\ drawn \in 0..MaxSeq
      /\ caller = [d \in Callers |-> caller[d]] /\ MaxSeq \in Nat
  BY ChainAssumption DEF ChainInv, CallersInv
<1>1. /\ LogInv' /\ PagerInv' /\ WalkInv' /\ HeadHash' = HeadHash
      /\ \A tx : Holds(log, tx) => Holds(log', tx)
  BY <1>t, LogUntouched
<1>2. /\ caller' = [d \in Callers |-> caller'[d]]
      /\ caller'[c] = next /\ \A d \in Callers \ {c} : caller'[d] = caller[d]
  BY <1>t
<1>3. ASSUME NEW seq \in Nat, Above(seq) PROVE Above(seq)'
  <2>1. \A d \in Callers : Knows(caller'[d], seq)
    <3> TAKE d \in Callers
    <3>1. CASE d = c
      BY <1>2, <1>3, <3>1
    <3>2. CASE d # c
      BY <1>2, <1>3, <3>2 DEF Above
    <3> QED BY <3>1, <3>2
  <2> QED BY <1>3, <2>1 DEF Above
<1>4. Above(drawn + 1)'
  <2>1. Above(drawn' + 1)
    <3>1. /\ \A e \in log : e.seq \in Nat
          /\ pager.cursor \in Nat
          /\ \A d \in Callers : /\ caller[d].bound \in Nat /\ caller[d].head \in Nat
                                /\ \A s \in caller[d].rows : s \in Nat
      BY <1>t DEF LogInv, AreRows, IsEntry, PagerInv, CallersInv, IsTx
    <3>2. Above(drawn + 1)
      BY <1>t DEF CallersInv
    <3> QED BY <1>t, <3>1, <3>2 DEF Above, Knows
  <2>2. drawn' + 1 \in Nat
    BY <1>t
  <2>3. \A d \in Callers : Knows(caller'[d], drawn' + 1)
    <3> TAKE d \in Callers
    <3>1. CASE d = c
      BY <1>2, <2>1, <2>2, <3>1
    <3>2. CASE d # c
      BY <1>2, <2>1, <3>2 DEF Above
    <3> QED BY <3>1, <3>2
  <2> QED BY <2>1, <2>3 DEF Above
<1>5. ASSUME NEW d \in Callers
      PROVE  /\ IsTx(caller'[d]) /\ Holds(log', caller'[d])
             /\ caller'[d].stage = "idle" => caller'[d] = IdleCaller
             /\ caller'[d].stage \in {"locked", "prepared"} => appendLock' = d
             /\ caller'[d].stage = "prepared" =>
                  /\ Above(caller[d].seq)' /\ caller'[d].seq \in 1..drawn'
                  /\ caller'[d].prev = HeadHash'
  <2>1. CASE d = c
    <3>1. next.stage = "prepared" => Above(next.seq)'
      <4>1. next.seq \in Nat
        BY DEF IsTx
      <4> QED BY <1>3, <4>1
    <3>2. caller'[d] = next
      BY <1>2, <2>1
    <3>3. next.stage = "prepared" => Above(caller[d].seq)'
      BY <3>1, <3>2 DEF Above
    <3> QED BY <1>1, <2>1, <3>2, <3>3
  <2>2. CASE d # c
    <3>1. caller'[d] = caller[d]
      BY <1>2, <2>2
    <3>2. /\ IsTx(caller[d]) /\ Holds(log, caller[d])
          /\ caller[d].stage = "idle" => caller[d] = IdleCaller
          /\ caller[d].stage = "prepared" =>
                  /\ Above(caller[d].seq) /\ caller[d].seq \in 1..drawn
                  /\ caller[d].prev = HeadHash
      BY <1>t DEF CallersInv
    <3>3. caller[d].stage = "prepared" => Above(caller[d].seq)'
      <4> SUFFICES ASSUME caller[d].stage = "prepared" PROVE Above(caller[d].seq)'
        OBVIOUS
      <4>1. PICK seq \in Nat : seq = caller[d].seq
        BY <3>2 DEF IsTx
      <4>2. Above(seq)'
        BY <1>3, <3>2, <4>1
      <4> QED BY <3>1, <4>1, <4>2 DEF Above
    <3> QED BY <1>t, <1>1, <2>2, <3>1, <3>2, <3>3
  <2> QED BY <2>1, <2>2
<1>6. CallersInv'
  BY <1>2, <1>4, <1>5 DEF CallersInv
<1> QED BY <1>1, <1>6 DEF ChainInv

\* What the writer's lemmas start from.
LEMMA WritersAre ==
    ASSUME ChainInv
    PROVE  /\ LogInv /\ PagerInv /\ WalkInv /\ CallersInv /\ AreRows(log)
           /\ drawn \in 0..MaxSeq /\ MaxSeq \in Nat /\ caller = [d \in Callers |-> caller[d]]
           /\ \A e \in log : e.seq \in Nat
           /\ \A d \in Callers : /\ IsTx(caller[d]) /\ Holds(log, caller[d])
                                 /\ caller[d].stage # "idle" => engine = "postgres"
                                 /\ caller[d].stage \in {"locked", "prepared"} => appendLock = d
BY ChainAssumption DEF ChainInv, LogInv, CallersInv, AreRows, IsEntry

\* A transaction reads rows that are there, so no further than the log goes.
LEMMA PgFirstStep ==
    ASSUME ChainInv, NEW c \in Callers, PgFirst(c)
    PROVE  ChainInv'
<1>t. /\ LogInv /\ PagerInv /\ AreRows(log) /\ engine = "postgres" /\ drawn \in 0..MaxSeq
      /\ (\A e \in log : e.seq \in Nat)
  BY WritersAre DEF PgFirst
<1> DEFINE Rows(j)  == IF j.job = "erase" THEN {e.seq : e \in Naming(j.subject)} ELSE {}
           Stage(j) == IF j.job = "prune" THEN "cut" ELSE "waiting"
           Bound(j) == IF j.job = "prune" THEN KeepFrom(j.at) - 1 ELSE 0
           Head(j)  == IF j.job = "prune" THEN HeadSeq ELSE 0
<1>j. PICK job \in Jobs : caller' = [caller EXCEPT ![c] =
        [job EXCEPT !.stage = Stage(job), !.rows = Rows(job), !.bound = Bound(job),
                    !.head = Head(job)]]
  BY Zenon DEF PgFirst
<1>k. PICK rows, stage, bound, head :
        rows = Rows(job) /\ stage = Stage(job) /\ bound = Bound(job) /\ head = Head(job)
  OBVIOUS
<1>p. /\ rows = IF job.job = "erase" THEN {e.seq : e \in Naming(job.subject)} ELSE {}
      /\ stage = IF job.job = "prune" THEN "cut" ELSE "waiting"
      /\ bound = IF job.job = "prune" THEN KeepFrom(job.at) - 1 ELSE 0
      /\ head = IF job.job = "prune" THEN HeadSeq ELSE 0
      /\ caller' = [caller EXCEPT ![c] =
           [job EXCEPT !.stage = stage, !.rows = rows, !.bound = bound, !.head = head]]
  <2>1. caller' = [caller EXCEPT ![c] =
          [job EXCEPT !.stage = stage, !.rows = rows, !.bound = bound, !.head = head]]
    <3> HIDE DEF Rows, Stage, Bound, Head
    <3> QED BY <1>j, <1>k, Zenon
  <2> QED BY <1>k, <2>1, Zenon
<1> HIDE DEF Rows, Stage, Bound, Head
<1> DEFINE next == [job EXCEPT !.stage = stage, !.rows = rows, !.bound = bound, !.head = head]
<1>2. next = TxOf(stage, job.job, job.at, job.subject, 0, Genesis, rows, bound, head)
  <2> DEFINE j0 == TxOf("idle", job.job, job.at, job.subject, 0, Genesis, {}, 0, 0)
             j1 == [job EXCEPT !.stage = stage]
             j2 == [j1 EXCEPT !.rows = rows]
             j3 == [j2 EXCEPT !.bound = bound]
             j4 == [j3 EXCEPT !.head = head]
  <2>1. next = j4
    BY Zenon
  <2>2. job = j0
    BY JobsAre
  <2> HIDE DEF j0
  <2>3. j1 = TxOf(stage, job.job, job.at, job.subject, 0, Genesis, {}, 0, 0)
    BY <2>2 DEF TxOf, j0
  <2> HIDE DEF j1
  <2>4. j2 = TxOf(stage, job.job, job.at, job.subject, 0, Genesis, rows, 0, 0)
    BY <2>3 DEF TxOf
  <2> HIDE DEF j2
  <2>5. j3 = TxOf(stage, job.job, job.at, job.subject, 0, Genesis, rows, bound, 0)
    BY <2>4 DEF TxOf
  <2> HIDE DEF j3
  <2>6. j4 = TxOf(stage, job.job, job.at, job.subject, 0, Genesis, rows, bound, head)
    BY <2>5 DEF TxOf
  <2> QED BY <2>1, <2>6
<1>3. caller' = [caller EXCEPT ![c] = next]
  BY <1>p, Zenon
<1> HIDE DEF next
<1>4. /\ next.stage = stage /\ next.job = job.job /\ next.at = job.at
      /\ next.seq = 0 /\ next.rows = rows /\ next.bound = bound /\ next.head = head
      /\ next = TxOf(next.stage, next.job, next.at, next.subject, next.seq, next.prev, next.rows,
                     next.bound, next.head)
  BY <1>2 DEF TxOf
<1>5. \A s \in rows : \E e \in log : e.seq = s
  BY <1>p DEF Naming
<1>6. /\ job.job \in {"append", "erase", "prune"} /\ job.at \in Nat
      /\ stage \in {"cut", "waiting"}
      /\ bound \in Nat /\ (stage # "cut" => bound = 0)
      /\ head \in Nat /\ (head = 0 \/ \E e \in log : e.seq = head)
      /\ job.job = "prune" => bound < KeepFrom(job.at)
  <2>1. job.job \in {"append", "erase", "prune"} /\ job.at \in Nat
    BY JobsAre
  <2>2. KeepFrom(job.at) \in Nat \ {0}
    BY <1>t, <2>1, KeepFromKeeps
  <2>3. HeadSeq \in Nat /\ (HeadSeq = 0 \/ \E e \in log : e.seq = HeadSeq)
    BY <1>t, HeadIsAbove
  <2>4. CASE job.job = "prune"
    BY <1>p, <2>1, <2>2, <2>3, <2>4
  <2>5. CASE job.job # "prune"
    BY <1>p, <2>1, <2>5
  <2> QED BY <2>4, <2>5
<1>7. IsTx(next)
  <2>1. rows \subseteq Nat
    BY <1>t, <1>5
  <2> QED BY <1>4, <1>6, <2>1 DEF IsTx
<1>8. Holds(log, next)
  <2>1. job.job = "erase" => next.rows = {e.seq : e \in Naming(job.subject)}
    BY <1>p, <1>4
  <2>2. job.job = "prune" => next.bound \in Int /\ next.bound < KeepFrom(job.at)
    BY <1>4, <1>6
  <2> QED BY <1>t, <1>4, <2>1, <2>2, ReadsHold
<1>9. \A seq \in Nat : Above(seq) => Knows(next, seq)
  <2> TAKE seq \in Nat
  <2> SUFFICES ASSUME Above(seq) PROVE Knows(next, seq)
    OBVIOUS
  <2>1. (\A e \in log : e.seq < seq) /\ 0 < seq
    BY <1>t DEF Above, PagerInv
  <2> QED BY <1>4, <1>5, <1>6, <2>1 DEF Knows
<1>10. \A d \in Callers \ {c} : caller[d].stage \in {"locked", "prepared"} => appendLock' = d
  BY WritersAre DEF PgFirst
<1>11. UNCHANGED <<engine, log, checkpoints, trimmed, walk, pager, drawn>>
  BY DEF PgFirst
<1>q. MovesOn(c, next)
  BY <1>t, <1>3, <1>4, <1>6, <1>7, <1>8, <1>9, <1>10, <1>11 DEF MovesOn
<1> QED BY <1>q, CallerMoves

\* The boundary a retention pass then finds is a row, and no further than what it may
\* remove.
LEMMA PgBoundStep ==
    ASSUME ChainInv, NEW c \in Callers, PgBound(c)
    PROVE  ChainInv'
<1>t. /\ AreRows(log) /\ PagerInv /\ engine = "postgres" /\ drawn \in 0..MaxSeq
      /\ IsTx(caller[c]) /\ Holds(log, caller[c]) /\ caller[c].stage = "cut"
      /\ (\A e \in log : e.seq \in Nat)
      /\ UNCHANGED <<engine, log, checkpoints, trimmed, walk, pager, drawn, appendLock>>
      /\ \A d \in Callers \ {c} : caller[d].stage \in {"locked", "prepared"} => appendLock' = d
  BY WritersAre DEF PgBound
<1>b. PICK bound : bound = LastBefore(caller[c].bound + 1)
  OBVIOUS
<1>1. CASE bound = 0
  <2>1. caller' = [caller EXCEPT ![c] = IdleCaller]
    BY <1>b, <1>1 DEF PgBound
  <2>2. \A seq \in Nat : Above(seq) => Knows(IdleCaller, seq)
    <3>1. pager.cursor \in Nat
      BY <1>t DEF PagerInv
    <3> QED BY IdleIs, <3>1 DEF Above
  <2>3. IsTx(IdleCaller) /\ IdleCaller.stage = "idle" /\ Holds(log, IdleCaller)
    BY IdleIs
  <2> HIDE DEF IdleCaller
  <2>4. MovesOn(c, IdleCaller)
    BY <1>t, <2>1, <2>2, <2>3 DEF MovesOn
  <2> QED BY <2>4, CallerMoves
<1>2. CASE bound # 0
  <2> DEFINE next == [caller[c] EXCEPT !.stage = "waiting", !.bound = bound]
             j1 == [caller[c] EXCEPT !.stage = "waiting"]
  <2>1. caller' = [caller EXCEPT ![c] = next]
    BY <1>b, <1>2, Zenon DEF PgBound
  <2>2. next = TxOf("waiting", caller[c].job, caller[c].at, caller[c].subject, caller[c].seq,
                    caller[c].prev, caller[c].rows, bound, caller[c].head)
    <3>1. next = [j1 EXCEPT !.bound = bound]
      BY Zenon
    <3>2. j1 = TxOf("waiting", caller[c].job, caller[c].at, caller[c].subject, caller[c].seq,
                    caller[c].prev, caller[c].rows, caller[c].bound, caller[c].head)
      BY <1>t, TxField DEF IsTx
    <3> HIDE DEF j1, next
    <3> QED BY <3>1, <3>2 DEF TxOf
  <2> HIDE DEF next
  <2>3. /\ next.stage = "waiting" /\ next.job = caller[c].job /\ next.at = caller[c].at
        /\ next.subject = caller[c].subject /\ next.seq = caller[c].seq
        /\ next.prev = caller[c].prev /\ next.rows = caller[c].rows /\ next.bound = bound
        /\ next.head = caller[c].head
    BY <2>2 DEF TxOf
  <2>4. /\ \E e \in log : e.seq = bound
        /\ bound \in Nat /\ bound <= caller[c].bound /\ caller[c].bound \in Nat
    <3>1. (\E e \in log : e.seq = bound) /\ bound \in Nat /\ bound < caller[c].bound + 1
      BY <1>t, <1>b, <1>2, LastBeforeIs
    <3> QED BY <1>t, <3>1 DEF IsTx
  <2>5. IsTx(next)
    BY <1>t, <2>2, <2>3, <2>4 DEF IsTx
  <2>6. Holds(log, next)
    BY <1>t, <2>3, <2>4 DEF Holds
  <2>7. \A seq \in Nat : Above(seq) => Knows(next, seq)
    BY <2>3, <2>4 DEF Above, Knows
  <2>8. MovesOn(c, next)
    BY <1>t, <2>1, <2>3, <2>5, <2>6, <2>7 DEF MovesOn
  <2> QED BY <2>8, CallerMoves
<1> QED BY <1>1, <1>2

\* The lock is taken from nobody.
LEMMA PgLockStep ==
    ASSUME ChainInv, NEW c \in Callers, PgLock(c)
    PROVE  ChainInv'
<1> DEFINE next == [caller[c] EXCEPT !.stage = "locked"]
<1>1. /\ caller' = [caller EXCEPT ![c] = next] /\ engine = "postgres"
      /\ UNCHANGED <<engine, log, checkpoints, trimmed, walk, pager, drawn>>
      /\ appendLock = Unheld /\ appendLock' = c
  BY WritersAre DEF PgLock
<1>2. next = TxOf("locked", caller[c].job, caller[c].at, caller[c].subject, caller[c].seq,
                  caller[c].prev, caller[c].rows, caller[c].bound, caller[c].head)
  BY WritersAre, TxField DEF IsTx
<1> HIDE DEF next
<1>3. /\ next.stage = "locked" /\ next.job = caller[c].job /\ next.at = caller[c].at
      /\ next.subject = caller[c].subject /\ next.seq = caller[c].seq /\ next.prev = caller[c].prev
      /\ next.rows = caller[c].rows /\ next.bound = caller[c].bound /\ next.head = caller[c].head
  BY <1>2 DEF TxOf
<1>4. IsTx(next) /\ Holds(log, next)
  <2>1. IsTx(caller[c]) /\ Holds(log, caller[c])
    BY WritersAre
  <2> QED BY <1>2, <1>3, <2>1 DEF IsTx, Holds
<1>5. \A seq \in Nat : Above(seq) => Knows(next, seq)
  BY <1>3 DEF Above, Knows, PgLock
<1>6. \A d \in Callers \ {c} : caller[d].stage \in {"locked", "prepared"} => appendLock' = d
  BY <1>1, WritersAre, ChainAssumption
<1>7. drawn \in 0..MaxSeq
  BY WritersAre
<1>8. MovesOn(c, next)
  BY <1>1, <1>3, <1>4, <1>5, <1>6, <1>7 DEF MovesOn
<1> QED BY <1>8, CallerMoves

\* Under the lock a number is drawn above all there is, and the head it read is the head.
LEMMA PgPrepareStep ==
    ASSUME ChainInv, NEW c \in Callers, PgPrepare(c)
    PROVE  ChainInv'
<1>t. /\ drawn \in 0..MaxSeq /\ MaxSeq \in Nat /\ engine = "postgres" /\ appendLock = c
      /\ IsTx(caller[c]) /\ Holds(log, caller[c])
  BY WritersAre DEF PgPrepare
<1> DEFINE next == [caller[c] EXCEPT !.stage = "prepared", !.seq = drawn + 1, !.prev = HeadHash]
<1>1. /\ caller' = [caller EXCEPT ![c] = next] /\ drawn < MaxSeq /\ drawn' = drawn + 1
      /\ UNCHANGED <<engine, log, checkpoints, trimmed, walk, pager, appendLock>>
  BY WritersAre, Zenon DEF PgPrepare
<1>2. next = TxOf("prepared", caller[c].job, caller[c].at, caller[c].subject, drawn + 1,
                  HeadHash, caller[c].rows, caller[c].bound, caller[c].head)
  <2> DEFINE j0 == TxOf(caller[c].stage, caller[c].job, caller[c].at, caller[c].subject,
                        caller[c].seq, caller[c].prev, caller[c].rows, caller[c].bound, caller[c].head)
             j1 == [j0 EXCEPT !.stage = "prepared"]
             j2 == [j1 EXCEPT !.seq = drawn + 1]
             j3 == [j2 EXCEPT !.prev = HeadHash]
  <2>1. caller[c] = j0
    BY <1>t DEF IsTx
  <2>2. next = j3
    <3> HIDE DEF j0
    <3> QED BY <2>1, Zenon
  <2>3. j1 = TxOf("prepared", caller[c].job, caller[c].at, caller[c].subject,
                  caller[c].seq, caller[c].prev, caller[c].rows, caller[c].bound, caller[c].head)
    BY DEF TxOf
  <2> HIDE DEF j1
  <2>4. j2 = TxOf("prepared", caller[c].job, caller[c].at, caller[c].subject,
                  drawn + 1, caller[c].prev, caller[c].rows, caller[c].bound, caller[c].head)
    BY <2>3 DEF TxOf
  <2> HIDE DEF j2
  <2>5. j3 = TxOf("prepared", caller[c].job, caller[c].at, caller[c].subject,
                  drawn + 1, HeadHash, caller[c].rows, caller[c].bound, caller[c].head)
    BY <2>4 DEF TxOf
  <2> QED BY <2>2, <2>5
<1> HIDE DEF next
<1>3. /\ next.stage = "prepared" /\ next.job = caller[c].job /\ next.at = caller[c].at
      /\ next.subject = caller[c].subject /\ next.seq = drawn + 1 /\ next.prev = HeadHash
      /\ next.rows = caller[c].rows /\ next.bound = caller[c].bound /\ next.head = caller[c].head
  BY <1>2 DEF TxOf
<1>4. IsTx(next) /\ Holds(log, next)
  <2>1. next = TxOf(next.stage, next.job, next.at, next.subject, next.seq, next.prev, next.rows,
                    next.bound, next.head)
    BY <1>2, <1>3, Zenon
  <2>2. /\ caller[c].job \in {"append", "erase", "prune"} /\ caller[c].at \in Nat
        /\ caller[c].bound \in Nat /\ caller[c].rows \subseteq Nat /\ drawn + 1 \in Nat
        /\ caller[c].head \in Nat
    BY <1>t DEF IsTx
  <2>3. Holds(log, next)
    BY <1>t, <1>3 DEF Holds
  <2> QED BY <1>3, <2>1, <2>2, <2>3 DEF IsTx
<1>5. \A seq \in Nat : Above(seq) => Knows(next, seq)
  BY <1>3 DEF Above, Knows, PgPrepare
<1>6. \A d \in Callers \ {c} : caller[d].stage \in {"locked", "prepared"} => appendLock' = d
  BY <1>1, WritersAre
<1>7. Above(next.seq) /\ next.seq \in 1..drawn' /\ drawn' \in 0..MaxSeq /\ drawn <= drawn'
  BY <1>t, <1>1, <1>3, WritersAre DEF CallersInv
<1>8. MovesOn(c, next)
  BY <1>t, <1>1, <1>3, <1>4, <1>5, <1>6, <1>7 DEF MovesOn
<1> QED BY <1>8, CallerMoves

\* A transaction that fails leaves the log alone and gives back what it held.
LEMMA PgRollbackStep ==
    ASSUME ChainInv, NEW c \in Callers, PgRollback(c)
    PROVE  ChainInv'
<1>1. /\ caller' = [caller EXCEPT ![c] = IdleCaller] /\ engine = "postgres"
      /\ UNCHANGED <<engine, log, checkpoints, trimmed, walk, pager, drawn>>
      /\ appendLock' = IF appendLock = c THEN Unheld ELSE appendLock
  BY DEF PgRollback
<1>2. /\ IsTx(IdleCaller) /\ IdleCaller.stage = "idle" /\ Holds(log, IdleCaller)
  BY IdleIs
<1>3. \A seq \in Nat : Above(seq) => Knows(IdleCaller, seq)
  <2>1. pager.cursor \in Nat
    BY WritersAre DEF PagerInv
  <2> QED BY IdleIs, <2>1 DEF Above
<1>4. \A d \in Callers \ {c} : caller[d].stage \in {"locked", "prepared"} => appendLock' = d
  BY <1>1, WritersAre
<1>5. drawn \in 0..MaxSeq
  BY WritersAre
<1> HIDE DEF IdleCaller
<1>6. MovesOn(c, IdleCaller)
  BY <1>1, <1>2, <1>3, <1>4, <1>5 DEF MovesOn
<1> QED BY <1>6, CallerMoves

\* A commit appends at the head it read, which is the head still, for only the holder of
\* the lock can have moved it.
LEMMA PgCommitStep ==
    ASSUME ChainInv, NEW c \in Callers, PgCommit(c)
    PROVE  ChainInv'
<1>t. /\ LogInv /\ PagerInv /\ WalkInv /\ CallersInv /\ drawn \in 0..MaxSeq /\ MaxSeq \in Nat
      /\ caller = [d \in Callers |-> caller[d]] /\ engine = "postgres" /\ appendLock = c
      /\ IsTx(caller[c]) /\ Holds(log, caller[c])
  BY WritersAre DEF PgCommit
<1>1. /\ Above(caller[c].seq) /\ caller[c].seq \in 1..drawn /\ caller[c].prev = HeadHash
  BY <1>t DEF CallersInv, PgCommit
<1>2. PICK seq \in 1..MaxSeq : seq = caller[c].seq
  BY <1>t, <1>1
<1>3. PICK new : new = Appended(caller[c], seq, HeadHash, caller[c].bound)
  OBVIOUS
<1>4. PICK job : job = caller[c]
  OBVIOUS
<1>5. /\ Commit(job, new) /\ caller' = [caller EXCEPT ![c] = IdleCaller]
      /\ UNCHANGED <<engine, drawn, pager>>
      /\ job.job = "prune" => BoundaryPresent(job.bound)
  BY <1>1, <1>2, <1>3, <1>4 DEF PgCommit
<1>6. /\ Holds(log, job) /\ job.job \in {"append", "erase", "prune"} /\ job.at \in Nat
      /\ job.head \in Nat
      /\ new = Appended(job, seq, HeadHash, job.bound)
  BY <1>t, <1>3, <1>4 DEF IsTx
<1>7. (\A e \in log : e.seq < seq) /\ pager.cursor < seq
  BY <1>1, <1>2 DEF Above
<1>8. job.job = "prune" => job.bound # 0 /\ BoundaryPresent(job.bound)
  <2>1. BoundaryPresent(job.bound) => job.bound # 0
    BY WritersAre, ChainAssumption DEF BoundaryPresent, LogInv, AreRows, IsEntry
  <2> QED BY <1>5, <2>1
<1>9. /\ LogInv' /\ PagerInv' /\ WalkInv'
      /\ \A e \in log' : e.seq <= seq
      /\ \A tx : Holds(log, tx) /\ tx.head \in Nat /\ Knows(tx, seq) => Holds(log', tx)
  BY <1>t, <1>5, <1>6, <1>7, <1>8, CommitKeeps
<1>i. /\ IsTx(IdleCaller) /\ IdleCaller.stage = "idle" /\ Holds(log', IdleCaller)
      /\ Knows(IdleCaller, drawn' + 1)
  <2>1. drawn' + 1 \in Nat /\ 0 < drawn' + 1
    BY <1>t, <1>5
  <2> QED BY <2>1, IdleIs
<1> HIDE DEF IdleCaller
<1>10. /\ caller' = [d \in Callers |-> caller'[d]] /\ caller'[c] = IdleCaller
       /\ \A d \in Callers \ {c} : caller'[d] = caller[d]
  BY <1>t, <1>5
<1>11. ASSUME NEW d \in Callers
       PROVE  /\ IsTx(caller'[d]) /\ Holds(log', caller'[d])
              /\ caller'[d].stage = "idle" => caller'[d] = IdleCaller
              /\ caller'[d].stage \notin {"locked", "prepared"}
              /\ Knows(caller'[d], drawn' + 1)
  <2>1. CASE d = c
    BY <1>t, <1>5, <1>10, <1>i, <2>1
  <2>2. CASE d # c
    <3>1. caller'[d] = caller[d] /\ IsTx(caller[d]) /\ Holds(log, caller[d])
      BY <1>10, <2>2, WritersAre
    <3>2. /\ caller[d].stage = "idle" => caller[d] = IdleCaller
          /\ caller[d].stage \notin {"locked", "prepared"}
      BY <1>t, <2>2 DEF CallersInv
    <3>3. Knows(caller[d], seq) /\ caller[d].head \in Nat
      BY <1>1, <1>2, <3>1 DEF Above, IsTx
    <3>4. Above(drawn + 1) /\ drawn' = drawn
      BY <1>t, <1>5 DEF CallersInv
    <3>5. Knows(caller[d], drawn' + 1)
      BY <3>4 DEF Above
    <3> QED BY <1>9, <3>1, <3>2, <3>3, <3>5
  <2> QED BY <2>1, <2>2
<1>12. Above(drawn + 1)'
  <2>1. \A e \in log' : e.seq < drawn' + 1
    <3>1. \A e \in log' : e.seq \in Nat
      BY <1>9, ChainAssumption DEF LogInv, AreRows, IsEntry
    <3> QED BY <1>t, <1>1, <1>2, <1>5, <1>9, <3>1
  <2>2. pager'.cursor < drawn' + 1
    BY <1>t, <1>5 DEF CallersInv, Above
  <2> QED BY <1>11, <2>1, <2>2 DEF Above
<1>13. CallersInv'
  <2>1. engine' = "postgres" /\ drawn' \in 0..MaxSeq
    BY <1>t, <1>5
  <2> QED BY <1>10, <1>11, <1>12, <2>1 DEF CallersInv
<1> QED BY <1>9, <1>13 DEF ChainInv

-----------------------------------------------------------------------------
(* Readers.                                                                *)

\* A step of a verification touches nothing else.
LEMMA WalkMoves ==
    ASSUME ChainInv, WalkInv',
           UNCHANGED <<engine, log, checkpoints, drawn, appendLock, caller, pager, trimmed>>
    PROVE  ChainInv'
<1>1. LogInv' /\ PagerInv' /\ HeadHash' = HeadHash
  BY LogUntouched DEF ChainInv
<1>2. CallersInv'
  BY <1>1 DEF ChainInv, CallersInv, Above, Knows, Holds
<1> QED BY <1>1, <1>2 DEF ChainInv

\* A page is a stretch of the log, and what a reader has seen grows by all of it.
LEMMA ReadPageStep ==
    ASSUME ChainInv, ReadPage
    PROVE  ChainInv'
<1> DEFINE t == Top(Page(pager.cursor))
<1>t. /\ LogInv /\ PagerInv /\ WalkInv /\ CallersInv /\ AreRows(log) /\ pager.cursor \in Nat
      /\ \A e \in log : e.seq \in Nat
  BY WritersAre DEF PagerInv
<1>1. /\ Page(pager.cursor) # {}
      /\ pager' = [cursor |-> t.seq, seen |-> pager.seen \cup {e.seq : e \in Page(pager.cursor)}]
      /\ UNCHANGED <<engine, log, checkpoints, drawn, appendLock, caller, walk, trimmed>>
  BY DEF ReadPage
<1>2. /\ t \in log /\ t.seq \in Nat /\ pager.cursor < t.seq
      /\ \A e \in log : e \in Page(pager.cursor) <=> pager.cursor < e.seq /\ e.seq <= t.seq
  BY <1>t, <1>1, PageIsStretch
<1>3. /\ LogInv' /\ WalkInv' /\ HeadHash' = HeadHash
  BY <1>t, <1>1, LogUntouched
<1>4. pager'.cursor = t.seq /\ pager'.seen = pager.seen \cup {e.seq : e \in Page(pager.cursor)}
  BY <1>1
<1> HIDE DEF t
<1>5. PagerInv'
  <2>1. ASSUME NEW e \in log, e.seq <= t.seq PROVE e.seq \in pager'.seen
    <3>1. CASE e.seq <= pager.cursor
      BY <1>t, <1>4, <3>1 DEF PagerInv, NothingBehindCursor
    <3>2. CASE pager.cursor < e.seq
      <4>1. e \in Page(pager.cursor)
        BY <1>2, <2>1, <3>2
      <4> QED BY <1>4, <4>1
    <3> QED BY <1>t, <3>1, <3>2
  <2>2. pager' = [cursor |-> pager'.cursor, seen |-> pager'.seen]
    BY <1>1
  <2>3. \E e \in log : t.seq <= e.seq
    BY <1>2
  <2> QED BY <1>1, <1>2, <1>4, <2>1, <2>2, <2>3 DEF PagerInv, NothingBehindCursor
<1>6. \A seq \in Nat : Above(seq) => Above(seq)'
  BY <1>1, <1>2, <1>4 DEF Above
<1>7. CallersInv'
  <2>1. \A d \in Callers : caller[d].stage = "prepared" => Above(caller[d].seq)'
    <3> TAKE d \in Callers
    <3>1. caller[d].seq \in Nat /\ (caller[d].stage = "prepared" => Above(caller[d].seq))
      BY <1>t DEF CallersInv, IsTx
    <3>2. PICK seq \in Nat : seq = caller[d].seq
      BY <3>1
    <3>3. caller[d].stage = "prepared" => Above(seq)'
      BY <1>6, <3>1, <3>2
    <3> QED BY <1>1, <3>2, <3>3 DEF Above
  <2>2. engine = "postgres" => Above(drawn + 1)'
    <3>1. drawn + 1 \in Nat
      BY WritersAre
    <3>2. PICK seq \in Nat : seq = drawn + 1
      BY <3>1
    <3>3. engine = "postgres" => Above(seq)'
      BY <1>t, <1>6, <3>2 DEF CallersInv
    <3> QED BY <1>1, <3>2, <3>3 DEF Above
  <2>3. \A d \in Callers : Holds(log', caller'[d])
    BY <1>t, <1>1 DEF CallersInv
  <2> QED BY <1>t, <1>1, <1>3, <2>1, <2>2, <2>3 DEF CallersInv
<1> QED BY <1>3, <1>5, <1>7 DEF ChainInv

\* The newest checkpoint is attested by a marker that is in the log.
LEMMA NewestIsAttested ==
    ASSUME LogInv, checkpoints # {}
    PROVE  \E e \in log : e.seq = NewestCheckpoint.marker
                          /\ MarkerAttestsCheckpoint(e.detail, NewestCheckpoint)
<1>1. PICK k \in checkpoints :
        /\ Newest(k)
        /\ \E e \in log : e.seq = k.marker /\ MarkerAttestsCheckpoint(e.detail, k)
  BY DEF LogInv, CheckpointsInv
<1>2. NewestCheckpoint = k
  BY <1>1, NewestIs DEF LogInv
<1> QED BY <1>1, <1>2

\* No verification is under way.
LEMMA NoWalk ==
    ASSUME NEW w, w = IdleWalk
    PROVE  /\ w = WalkOf(w.stage, w.from, w.cp, w.prev, w.cursor, w.broken,
                         w.trimmedMeanwhile, w.anchored)
           /\ w.stage = "idle" /\ w.from = 1 /\ w.cursor = 0 /\ w.broken = 0
           /\ w.trimmedMeanwhile \in BOOLEAN /\ w.anchored \in BOOLEAN
<1>n. PICK no \in BOOLEAN : ~no
  OBVIOUS
<1>y. PICK yes \in BOOLEAN : yes
  OBVIOUS
<1>1. w = WalkOf("idle", 1, NoCheckpoint, Genesis, 0, 0, no, yes)
  BY <1>n, <1>y, Zenon DEF IdleWalk, WalkOf
<1> QED BY ONLY <1>1, no \in BOOLEAN, yes \in BOOLEAN DEF WalkOf

\* A verification begins with nothing found.
LEMMA WalkBeginStep ==
    ASSUME ChainInv, WalkBegin
    PROVE  ChainInv'
<1>1. PICK from \in 1..MaxSeq, stage \in {"checkpoint", "before"} :
        walk' = [IdleWalk EXCEPT !.from = from, !.cursor = from - 1, !.stage = stage]
  BY DEF WalkBegin
<1>n. PICK no \in BOOLEAN : ~no
  OBVIOUS
<1>y. PICK yes \in BOOLEAN : yes
  OBVIOUS
<1>2. walk' = WalkOf(stage, from, NoCheckpoint, Genesis, from - 1, 0, no, yes)
  <2> DEFINE w0 == WalkOf("idle", 1, NoCheckpoint, Genesis, 0, 0, no, yes)
             w1 == [w0 EXCEPT !.from = from]
             w2 == [w1 EXCEPT !.cursor = from - 1]
             w3 == [w2 EXCEPT !.stage = stage]
  <2>1. IdleWalk = w0
    BY <1>n, <1>y, Zenon DEF IdleWalk, WalkOf
  <2>2. walk' = w3
    <3> HIDE DEF w0
    <3> QED BY <1>1, <2>1, Zenon
  <2>3. w1 = WalkOf("idle", from, NoCheckpoint, Genesis, 0, 0, no, yes)
    BY DEF WalkOf
  <2> HIDE DEF w1
  <2>4. w2 = WalkOf("idle", from, NoCheckpoint, Genesis, from - 1, 0, no, yes)
    BY <2>3 DEF WalkOf
  <2> HIDE DEF w2
  <2>5. w3 = WalkOf(stage, from, NoCheckpoint, Genesis, from - 1, 0, no, yes)
    BY <2>4 DEF WalkOf
  <2> QED BY <2>2, <2>5
<1>3. /\ walk'.stage = stage /\ walk'.from = from /\ walk'.cp = NoCheckpoint /\ walk'.prev = Genesis
      /\ walk'.cursor = from - 1 /\ walk'.broken = 0
      /\ walk'.trimmedMeanwhile = no /\ walk'.anchored = yes
  BY <1>2 DEF WalkOf
<1>4. /\ from \in Nat \ {0} /\ from - 1 \in Nat
  BY ChainAssumption
<1>5. WalkInv'
  BY <1>n, <1>y, <1>2, <1>3, <1>4 DEF WalkInv, NoFalseBreak
<1> QED BY <1>5, WalkMoves DEF WalkBegin

\* It reads the newest checkpoint.
LEMMA WalkCheckpointStep ==
    ASSUME ChainInv, WalkCheckpoint
    PROVE  ChainInv'
<1>t. WalkInv /\ LogInv /\ UNCHANGED <<log, checkpoints, trimmed>>
  BY DEF ChainInv, WalkCheckpoint
<1> DEFINE w1 == [walk EXCEPT !.cp = NewestCheckpoint]
<1>1. PICK stage \in {"before", "marker"} :
        /\ walk' = [w1 EXCEPT !.stage = stage] /\ (stage = "marker" => checkpoints # {})
  <2>1. walk' = [w1 EXCEPT !.stage = IF checkpoints = {} THEN "before" ELSE "marker"]
    BY Zenon DEF WalkCheckpoint
  <2> HIDE DEF w1
  <2> QED BY <2>1
<1>2. w1 = WalkOf(walk.stage, walk.from, NewestCheckpoint, walk.prev, walk.cursor, walk.broken,
                  walk.trimmedMeanwhile, walk.anchored)
  BY <1>t, WalkField DEF WalkInv
<1> HIDE DEF w1
<1>3. walk' = WalkOf(stage, walk.from, NewestCheckpoint, walk.prev, walk.cursor, walk.broken,
                     walk.trimmedMeanwhile, walk.anchored)
  BY <1>1, <1>2 DEF WalkOf
<1>4. /\ walk'.stage = stage /\ walk'.from = walk.from /\ walk'.cp = NewestCheckpoint
      /\ walk'.prev = walk.prev /\ walk'.cursor = walk.cursor /\ walk'.broken = walk.broken
      /\ walk'.trimmedMeanwhile = walk.trimmedMeanwhile /\ walk'.anchored = walk.anchored
  BY <1>3 DEF WalkOf
<1>5. /\ walk.broken = 0 /\ walk.cursor = walk.from - 1 /\ walk.from \in Nat \ {0}
      /\ walk.cursor \in Nat /\ walk.trimmedMeanwhile \in BOOLEAN /\ walk.anchored \in BOOLEAN
  BY <1>t DEF WalkInv, WalkCheckpoint
<1>6. NewestCheckpoint' = NewestCheckpoint /\ checkpoints' = checkpoints
  BY <1>t, LogUntouched
<1>7. WalkInv'
  BY <1>1, <1>3, <1>4, <1>5, <1>6 DEF WalkInv, NoFalseBreak
<1> QED BY <1>7, WalkMoves DEF WalkCheckpoint

\* The checkpoint it read is attested, unless a trim has put another in its place.
LEMMA WalkMarkerStep ==
    ASSUME ChainInv, WalkMarker
    PROVE  ChainInv'
<1>t. WalkInv /\ LogInv /\ walk.stage = "marker"
  BY DEF ChainInv, WalkMarker
<1> DEFINE attested == \E e \in log : e.seq = walk.cp.marker
                                      /\ MarkerAttestsCheckpoint(e.detail, walk.cp)
           w1(stage) == [walk EXCEPT !.stage = stage]
<1>1. PICK stage, broken :
        /\ walk' = [w1(stage) EXCEPT !.broken = broken]
        /\ attested => stage = "before" /\ broken = 0
        /\ ~attested => stage = "done"
  <2>1. walk' = [w1(IF attested THEN "before" ELSE "done")
                   EXCEPT !.broken = IF attested THEN 0 ELSE walk.cp.seq]
    BY Zenon DEF WalkMarker
  <2> HIDE DEF attested, w1
  <2> QED BY <2>1
<1>2. w1(stage) = WalkOf(stage, walk.from, walk.cp, walk.prev, walk.cursor, walk.broken,
                         walk.trimmedMeanwhile, walk.anchored)
  BY <1>t, WalkField DEF WalkInv
<1> HIDE DEF w1
<1>3. walk' = WalkOf(stage, walk.from, walk.cp, walk.prev, walk.cursor, broken,
                     walk.trimmedMeanwhile, walk.anchored)
  BY <1>1, <1>2 DEF WalkOf
<1>4. /\ walk'.stage = stage /\ walk'.from = walk.from /\ walk'.cp = walk.cp
      /\ walk'.prev = walk.prev /\ walk'.cursor = walk.cursor /\ walk'.broken = broken
      /\ walk'.trimmedMeanwhile = walk.trimmedMeanwhile /\ walk'.anchored = walk.anchored
  BY <1>3 DEF WalkOf
<1>5. ~walk.trimmedMeanwhile => attested
  <2>1. ~walk.trimmedMeanwhile => walk.cp = NewestCheckpoint /\ checkpoints # {}
    BY <1>t DEF WalkInv
  <2> QED BY <1>t, <2>1, NewestIsAttested
<1> HIDE DEF attested
<1>6. /\ walk.cursor = walk.from - 1 /\ walk.from \in Nat \ {0}
      /\ walk.cursor \in Nat /\ walk.trimmedMeanwhile \in BOOLEAN /\ walk.anchored \in BOOLEAN
  BY <1>t DEF WalkInv
<1>7. WalkInv'
  BY <1>1, <1>3, <1>4, <1>5, <1>6 DEF WalkInv, NoFalseBreak
<1> QED BY <1>7, WalkMoves DEF WalkMarker

\* The hash before the first row to verify is the one that row chains onto.
LEMMA WalkBeforeStep ==
    ASSUME ChainInv, WalkBefore
    PROVE  ChainInv'
<1>t. WalkInv /\ LogInv /\ walk.stage = "before" /\ UNCHANGED <<log, checkpoints, trimmed>>
      /\ \A e \in log : e.seq \in Nat /\ e.seq >= 1
  BY ChainAssumption DEF ChainInv, WalkBefore, LogInv, AreRows, IsEntry
<1> DEFINE base == NewestCheckpoint.hash
           w1 == [walk EXCEPT !.stage = "page"]
           w2 == [w1 EXCEPT !.prev = HashBefore(walk.from)]
           anchored == walk.from = 1 \/ Below(log, walk.from) \notin {{}, log}
<1>1. walk' = [w2 EXCEPT !.anchored = anchored]
  BY Zenon DEF WalkBefore
<1>2. w1 = WalkOf("page", walk.from, walk.cp, walk.prev, walk.cursor, walk.broken,
                  walk.trimmedMeanwhile, walk.anchored)
  BY <1>t, WalkField DEF WalkInv
<1> HIDE DEF w1
<1>3. w2 = WalkOf("page", walk.from, walk.cp, HashBefore(walk.from), walk.cursor, walk.broken,
                  walk.trimmedMeanwhile, walk.anchored)
  BY <1>2 DEF WalkOf
<1> HIDE DEF w2
<1>a. anchored \in BOOLEAN
  OBVIOUS
<1>4. walk' = WalkOf("page", walk.from, walk.cp, HashBefore(walk.from), walk.cursor, walk.broken,
                     walk.trimmedMeanwhile, anchored)
  <2> HIDE DEF anchored
  <2> QED BY <1>1, <1>3 DEF WalkOf
<1>5. /\ walk'.stage = "page" /\ walk'.from = walk.from /\ walk'.cp = walk.cp
      /\ walk'.prev = HashBefore(walk.from) /\ walk'.cursor = walk.cursor
      /\ walk'.broken = walk.broken
      /\ walk'.trimmedMeanwhile = walk.trimmedMeanwhile /\ walk'.anchored = anchored
  <2> HIDE DEF anchored
  <2> QED BY <1>4 DEF WalkOf
<1>6. /\ walk.broken = 0 /\ walk.cursor = walk.from - 1 /\ walk.from \in Nat \ {0}
      /\ walk.cursor \in Nat /\ walk.trimmedMeanwhile \in BOOLEAN
  BY <1>t DEF WalkInv
<1>7. ASSUME anchored
      PROVE  /\ HashBefore(walk.from) = Before(log, walk.cursor + 1, base)
             /\ walk.cursor = 0 \/ \E e \in log : walk.cursor <= e.seq
  <2>1. walk.cursor + 1 = walk.from
    BY <1>6
  <2>2. CASE walk.from = 1
    <3>1. Below(log, 1) = {}
      BY <1>t DEF Below
    <3>2. HashBefore(walk.from) = base /\ walk.cursor = 0
      BY <1>6, <2>2 DEF HashBefore
    <3> QED BY <2>1, <2>2, <3>1, <3>2 DEF Before
  <2>3. CASE walk.from # 1
    <3>1. Below(log, walk.from) # {} /\ Below(log, walk.from) # log
      BY <1>7, <2>3
    <3>2. HashBefore(walk.from) = Before(log, walk.from, base)
      BY <2>3, <3>1 DEF HashBefore, Before
    <3>3. \E e \in log : ~(e.seq < walk.from)
      BY <3>1 DEF Below
    <3> QED BY <1>t, <1>6, <2>1, <3>2, <3>3
  <2> QED BY <2>2, <2>3
<1>8. NewestCheckpoint' = NewestCheckpoint
  BY <1>t, LogUntouched
<1> HIDE DEF anchored, base
<1>9. anchored => /\ HashBefore(walk.from) = Before(log', walk.cursor + 1, NewestCheckpoint'.hash)
                  /\ walk.cursor = 0 \/ \E e \in log' : walk.cursor <= e.seq
  BY <1>t, <1>7, <1>8 DEF base
<1>10. WalkInv'
  BY <1>a, <1>4, <1>5, <1>6, <1>9 DEF WalkInv, NoFalseBreak
<1> QED BY <1>10, WalkMoves DEF WalkBefore

\* A page chains from where the verification stands, so it verifies, and the last row of
\* it is where the verification stands next.
LEMMA WalkPageStep ==
    ASSUME ChainInv, WalkPage
    PROVE  ChainInv'
<1>t. /\ WalkInv /\ LogInv /\ walk.stage = "page" /\ UNCHANGED <<log, checkpoints, trimmed>>
      /\ AreRows(log) /\ ChainsFrom(log, NewestCheckpoint.hash)
      /\ walk.cursor \in Nat /\ walk.broken = 0
      /\ walk.from \in Nat \ {0} /\ walk.trimmedMeanwhile \in BOOLEAN /\ walk.anchored \in BOOLEAN
  BY DEF ChainInv, WalkPage, LogInv, WalkInv
<1> DEFINE batch == Page(walk.cursor)
           found == VerifySequence(batch, walk.prev)
<1>c. NewestCheckpoint' = NewestCheckpoint
  BY <1>t, LogUntouched
<1>1. ASSUME batch = {} PROVE WalkInv'
  <2>1. walk' = [walk EXCEPT !.stage = "done"]
    BY <1>1 DEF WalkPage
  <2>2. walk' = WalkOf("done", walk.from, walk.cp, walk.prev, walk.cursor, walk.broken,
                       walk.trimmedMeanwhile, walk.anchored)
    BY <1>t, <2>1, WalkField DEF WalkInv
  <2>3. /\ walk'.stage = "done" /\ walk'.from = walk.from /\ walk'.cp = walk.cp
        /\ walk'.prev = walk.prev /\ walk'.cursor = walk.cursor /\ walk'.broken = walk.broken
        /\ walk'.trimmedMeanwhile = walk.trimmedMeanwhile /\ walk'.anchored = walk.anchored
    BY <2>2 DEF WalkOf
  <2> QED BY <1>t, <2>2, <2>3 DEF WalkInv, NoFalseBreak
<1>2. ASSUME batch # {}, found # 0 PROVE WalkInv'
  <2> DEFINE w1 == [walk EXCEPT !.stage = "done"]
  <2>1. walk' = [w1 EXCEPT !.broken = found]
    <3>1. walk' = [walk EXCEPT !.stage = "done", !.broken = found]
      BY <1>2 DEF WalkPage
    <3> HIDE DEF found
    <3> QED BY <3>1, Zenon
  <2>2. w1 = WalkOf("done", walk.from, walk.cp, walk.prev, walk.cursor, walk.broken,
                    walk.trimmedMeanwhile, walk.anchored)
    BY <1>t, WalkField DEF WalkInv
  <2> HIDE DEF w1, found
  <2>3. walk' = WalkOf("done", walk.from, walk.cp, walk.prev, walk.cursor, found,
                       walk.trimmedMeanwhile, walk.anchored)
    BY <2>1, <2>2 DEF WalkOf
  <2>4. /\ walk'.stage = "done" /\ walk'.from = walk.from /\ walk'.cp = walk.cp
        /\ walk'.prev = walk.prev /\ walk'.cursor = walk.cursor /\ walk'.broken = found
        /\ walk'.trimmedMeanwhile = walk.trimmedMeanwhile /\ walk'.anchored = walk.anchored
    BY <2>3 DEF WalkOf
  <2>5. ~walk.trimmedMeanwhile /\ walk.anchored => found = 0
    <3> SUFFICES ASSUME ~walk.trimmedMeanwhile, walk.anchored PROVE found = 0
      OBVIOUS
    <3>1. walk.prev = Before(log, walk.cursor + 1, NewestCheckpoint.hash)
      BY <1>t DEF WalkInv
    <3>2. ChainsFrom(batch, walk.prev)
      BY <1>t, <1>2, <3>1, PageChains
    <3> QED BY <3>2, ChainsVerify DEF found
  <2> QED BY <1>t, <1>2, <2>3, <2>4, <2>5 DEF WalkInv, NoFalseBreak
<1>3. ASSUME batch # {}, found = 0 PROVE WalkInv'
  <2> DEFINE w1 == [walk EXCEPT !.prev = Top(batch).hash]
  <2>1. walk' = [w1 EXCEPT !.cursor = Top(batch).seq]
    <3>1. walk' = [walk EXCEPT !.prev = Top(batch).hash, !.cursor = Top(batch).seq]
      BY <1>3 DEF WalkPage
    <3> HIDE DEF batch
    <3> QED BY <3>1, Zenon
  <2> HIDE DEF found
  <2>p. /\ Top(batch) \in log /\ Top(batch).seq \in Nat
        /\ Before(log, Top(batch).seq + 1, NewestCheckpoint.hash) = Top(batch).hash
    BY <1>t, <1>3, PageIsStretch, PageChains
  <2> HIDE DEF batch
  <2>2. w1 = WalkOf(walk.stage, walk.from, walk.cp, Top(batch).hash, walk.cursor, walk.broken,
                    walk.trimmedMeanwhile, walk.anchored)
    BY <1>t, WalkField DEF WalkInv
  <2> HIDE DEF w1
  <2>3. walk' = WalkOf(walk.stage, walk.from, walk.cp, Top(batch).hash, Top(batch).seq, walk.broken,
                       walk.trimmedMeanwhile, walk.anchored)
    BY <2>1, <2>2 DEF WalkOf
  <2>4. /\ walk'.stage = "page" /\ walk'.from = walk.from /\ walk'.cp = walk.cp
        /\ walk'.prev = Top(batch).hash /\ walk'.cursor = Top(batch).seq /\ walk'.broken = 0
        /\ walk'.trimmedMeanwhile = walk.trimmedMeanwhile /\ walk'.anchored = walk.anchored
    BY <1>t, <2>3 DEF WalkOf
  <2>5. /\ walk'.prev = Before(log', walk'.cursor + 1, NewestCheckpoint'.hash)
        /\ \E e \in log' : walk'.cursor <= e.seq
    BY <1>t, <1>c, <2>p, <2>4
  <2>6. WalkInv'
    BY <1>t, <2>3, <2>4, <2>5, <2>p DEF WalkInv, NoFalseBreak
  <2> QED BY <2>6
<1> HIDE DEF batch, found
<1>4. WalkInv'
  BY <1>1, <1>2, <1>3
<1> QED BY <1>4, WalkMoves DEF WalkPage

\* Nothing is kept of a verification once it is over.
LEMMA WalkEndStep ==
    ASSUME ChainInv, WalkEnd
    PROVE  ChainInv'
<1>1. WalkInv'
  <2>1. walk' = IdleWalk
    BY DEF WalkEnd
  <2> HIDE DEF IdleWalk
  <2> QED BY <2>1, NoWalk DEF WalkInv, NoFalseBreak
<1> QED BY <1>1, WalkMoves DEF WalkEnd

-----------------------------------------------------------------------------
(* The specification.                                                      *)

\* An empty log.
LEMMA ChainStarts ==
    ASSUME ChainInit
    PROVE  ChainInv
<1>1. LogInv
  BY DEF ChainInit, LogInv, AreRows, CheckpointsInv, ChainsFrom, OnlyOldIsTrimmed
<1>2. CallersInv
  <2>1. /\ IsTx(IdleCaller) /\ IdleCaller.stage = "idle" /\ Holds(log, IdleCaller)
        /\ Knows(IdleCaller, 1)
    BY IdleIs
  <2>2. Above(drawn + 1)
    <3>1. drawn + 1 = 1
      BY DEF ChainInit
    <3>2. Above(1)
      BY <2>1 DEF ChainInit, Above
    <3> QED BY <3>1, <3>2
  <2> HIDE DEF IdleCaller
  <2> QED BY <2>1, <2>2, ChainAssumption DEF ChainInit, CallersInv
<1>3. PagerInv
  BY DEF ChainInit, PagerInv, NothingBehindCursor
<1>4. WalkInv
  <2>1. walk = IdleWalk
    BY DEF ChainInit
  <2> HIDE DEF IdleWalk
  <2> QED BY <2>1, NoWalk DEF WalkInv, NoFalseBreak
<1> QED BY <1>1, <1>2, <1>3, <1>4 DEF ChainInv

\* The invariant holds of every state.
LEMMA ChainHolds == ChainSpec => []ChainInv
<1>1. ChainInit => ChainInv
  BY ChainStarts
<1>2. ChainInv /\ [ChainNext]_chainVars => ChainInv'
  <2> SUFFICES ASSUME ChainInv, [ChainNext]_chainVars PROVE ChainInv'
    OBVIOUS
  <2>1. CASE Walk
    BY <2>1, WalkBeginStep, WalkCheckpointStep, WalkMarkerStep, WalkBeforeStep, WalkPageStep,
       WalkEndStep DEF Walk
  <2>2. CASE ReadPage
    BY <2>2, ReadPageStep
  <2>3. ASSUME NEW c \in Callers, Write(c) PROVE ChainInv'
    BY <2>3, SqliteTxStep, PgFirstStep, PgBoundStep, PgLockStep, PgPrepareStep,
       PgCommitStep, PgRollbackStep
       DEF Write
  <2>4. CASE UNCHANGED chainVars
    <3>1. WalkInv'
      BY <2>4, LogUntouched DEF ChainInv, chainVars
    <3> QED BY <2>4, <3>1, WalkMoves DEF chainVars
  <2> QED BY <2>1, <2>2, <2>3, <2>4 DEF ChainNext
<1> QED BY <1>1, <1>2, PTL DEF ChainSpec

\* At every instant the log verifies from its newest checkpoint, which a marker in it
\* attests; and every entry trimmed was older than the cut, or was committed after the
\* trim first read the log (prepareAppend, EraseSubjectAuditEntries, PruneAuditLog).
THEOREM LogStaysWhole == ChainSpec => []LogIsWhole
<1>1. ChainInv => LogIsWhole
  <2> SUFFICES ASSUME ChainInv PROVE LogIsWhole
    OBVIOUS
  <2>1. LogInv
    BY DEF ChainInv
  <2>2. VerifySequence(log, NewestCheckpoint.hash) = 0
    BY <2>1, ChainsVerify DEF LogInv
  <2>3. checkpoints # {} =>
          \E e \in log : e.seq = NewestCheckpoint.marker
                         /\ MarkerAttestsCheckpoint(e.detail, NewestCheckpoint)
    BY <2>1, NewestIsAttested
  <2> QED BY <2>1, <2>2, <2>3 DEF LogIsWhole, AlwaysVerifies, LogInv
<1> QED BY <1>1, ChainHolds, PTL

\* A verification reports a break only when a trim committed while it read, or when it
\* began outside the rows of the log (VerifyChain, hashBefore).
THEOREM BreaksAreReal == ChainSpec => []NoFalseBreak
<1>1. ChainInv => NoFalseBreak
  BY DEF ChainInv, WalkInv
<1> QED BY <1>1, ChainHolds, PTL

\* No entry is ever committed behind a reader's cursor (prepareAppend, ReadAuditRange).
THEOREM NothingIsMissed == ChainSpec => []NothingBehindCursor
<1>1. ChainInv => NothingBehindCursor
  BY DEF ChainInv, PagerInv
<1> QED BY <1>1, ChainHolds, PTL
=============================================================================
