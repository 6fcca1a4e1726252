---------------------------- MODULE AtomicStore -----------------------------
(***************************************************************************)
(* What a caller of the store relies on: a call takes effect as a whole,   *)
(* at one instant between the call and its answer, or not at all.  Two     *)
(* freedoms are granted, because the callers allow for them:               *)
(*                                                                         *)
(*   - a statement that ranges over rows its caller did not name may pass  *)
(*     over a row written since the call began;                            *)
(*   - a call that inserts may be refused when a row it must not be beside *)
(*     is there, even if running it afresh would retire that row.          *)
(***************************************************************************)
EXTENDS StoreCalls

VARIABLES
    table,      \* the table of this run
    rows,       \* the committed rows
    asked       \* by session: the call, its answer, and the rows written since it began

atomicVars == <<table, rows, asked>>

NotAsked == [call |-> 0, answer |-> "none yet", count |-> 0, written |-> {}]

AtomicInit ==
    /\ table \in Tables
    /\ rows \in RowsAtFirst(table)
    /\ asked = [p \in Sessions |-> NotAsked]

Ask(p, k) ==
    /\ asked[p].call = 0
    /\ asked' = [asked EXCEPT ![p] = [NotAsked EXCEPT !.call = k, !.answer = "running"]]
    /\ UNCHANGED <<table, rows>>

\* One statement over the rows, as if alone.  run: the rows, what the last statement
\* matched, what all of them did, and the refusal that ends the call.
Perform(run, s, fixed) ==
    LET hit == {i \in s.on : /\ run.rows[i] \in DOMAIN s.does
                             /\ s.sweeping => i \in fixed}
        clash == \E i \in s.among : run.rows[i] \in s.unique
        matched == IF clash THEN {} ELSE hit
    IN IF run.refusal # "nothing" \/ (s.otherwise /\ run.last > 0)
       THEN run
       ELSE [rows    |-> [i \in Ids |-> IF i \in matched THEN s.does[run.rows[i]] ELSE run.rows[i]],
             last    |-> Cardinality(matched),
             count   |-> run.count + (IF s.reads THEN 0 ELSE Cardinality(matched)),
             refusal |-> IF matched = {} THEN s.needs ELSE "nothing"]

Run(program, fixed) ==
    FoldLeft(LAMBDA run, s : Perform(run, s, fixed),
             [rows |-> rows, last |-> 0, count |-> 0, refusal |-> "nothing"], program)

\* The rows another session writes are noted against every call in progress.
Answered(p, answer, count, changed) ==
    [q \in Sessions |->
        IF q = p THEN [asked[p] EXCEPT !.answer = answer, !.count = count, !.written = {}]
        ELSE IF asked[q].answer = "running" THEN [asked[q] EXCEPT !.written = @ \cup changed]
        ELSE asked[q]]

\* The call takes effect.  An answer lost with the connection leaves the effect.
Apply(p) ==
    /\ asked[p].answer = "running"
    /\ \E missed \in SUBSET asked[p].written :
          LET run == Run(Menu(table, p)[asked[p].call], Ids \ missed)
              refused == run.refusal # "nothing"
              after == IF refused THEN rows ELSE run.rows
              changed == {i \in Ids : after[i] # rows[i]}
          IN /\ rows' = after
             /\ \E answer \in IF refused THEN {run.refusal} ELSE {"done", "lost"} :
                   asked' = Answered(p, answer, IF refused \/ answer = "lost" THEN 0 ELSE run.count, changed)
    /\ UNCHANGED table

\* The call is refused for a row it must not be beside.
Refuse(p) ==
    /\ asked[p].answer = "running"
    /\ \E k \in DOMAIN Menu(table, p)[asked[p].call] :
          LET s == Menu(table, p)[asked[p].call][k]
          IN \E i \in s.among : rows[i] \in s.unique
    /\ asked' = Answered(p, "conflict", 0, {})
    /\ UNCHANGED <<table, rows>>

\* The connection goes, or the database gives the call up to break a deadlock.
CallFails(p) ==
    /\ asked[p].answer = "running"
    /\ asked' = Answered(p, "lost", 0, {})
    /\ UNCHANGED <<table, rows>>

AtomicNext ==
    \E p \in Sessions :
        \/ \E k \in DOMAIN Menu(table, p) : Ask(p, k)
        \/ Apply(p)
        \/ Refuse(p)
        \/ CallFails(p)

\* Every step asks or answers a call.
AtomicSpec == AtomicInit /\ [][asked' # asked /\ AtomicNext]_atomicVars
=============================================================================
