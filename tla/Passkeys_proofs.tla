-------------------------- MODULE Passkeys_proofs --------------------------
(***************************************************************************)
(* Machine-checked proofs about Passkeys, for every finite set of requests *)
(* and authenticators, any subjects, challenges, counters and cap.         *)
(***************************************************************************)
EXTENDS Passkeys, FiniteSetTheorems, SequenceTheorems, TLAPS

-----------------------------------------------------------------------------
(* The inductive invariant.                                                *)

\* The stages of a completion that has spent its challenge, and those of an assertion
\* that has been verified against a row.
Spent(r) == req[r].stage \in {"lookup", "cap", "store", "list", "find", "subject",
                              "mark", "touch", "advance"}

Verified(r) == req[r].stage \in {"subject", "mark", "touch", "advance"}

LogEntry ==
    [by : Reqs, route : {"register", "named", "discoverable"}, chal : Challenges,
     row : RowIds, subject : Subjects, count : Counts, uv : BOOLEAN, seen : Nat,
     at : Nat]

\* The types, with that of the history.
Types == TypeOK /\ log \in Seq(LogEntry)

\* The subject a challenge must have been issued for.
IssuedFor(route, s) == IF route = "discoverable" THEN Nobody ELSE s

\* The challenge was issued for this ceremony and spent by it.
Answers(c, route, s) ==
    /\ chal[c].issued /\ chal[c].consumed
    /\ chal[c].subject = IssuedFor(route, s)
    /\ (route = "register") <=> (chal[c].ceremony = "registration")

\* What a handler knows: the route it is on, the challenge it names, the row it works
\* on.
HandlerInv(r) ==
    /\ req[r].stage = "consume" =>
         /\ req[r].route \in {"register", "named", "discoverable"}
         /\ req[r].chal \in Challenges /\ chal[req[r].chal].issued
         /\ IF req[r].route = "discoverable" THEN req[r].subject = Nobody
            ELSE req[r].subject \in Subjects
    /\ req[r].stage \in {"lookup", "cap", "store"} =>
         req[r].route = "register" /\ req[r].subject \in Subjects
    /\ req[r].stage \in {"cap", "store"} => req[r].cred \in Creds
    /\ req[r].stage = "list" => req[r].route = "named" /\ req[r].subject \in Subjects
    /\ req[r].stage \in {"find", "subject"} => req[r].route = "discoverable"
    /\ req[r].stage \in {"mark", "touch", "advance"} =>
         /\ req[r].route \in {"named", "discoverable"}
         /\ req[r].subject = rows[req[r].row].subject
         /\ req[r].subject \in Subjects
    /\ Verified(r) \/ req[r].stage \in {"count", "revoke"} =>
         req[r].row \in RowIds /\ rows[req[r].row].present
    /\ Verified(r) /\ req[r].route = "discoverable" => req[r].uv

\* A challenge that a request has spent is its own, and no ceremony ended with it yet.
SpentInv(r) ==
    Spent(r) =>
        /\ req[r].chal \in Challenges
        /\ Answers(req[r].chal, req[r].route, req[r].subject)
        /\ \A q \in Reqs : Spent(q) /\ req[q].chal = req[r].chal => q = r
        /\ \A i \in DOMAIN log : log[i].chal # req[r].chal

\* A row has an owner; one that a request inserted is there when the request is over.
RowsInv ==
    /\ \A i \in RowIds : rows[i].present => rows[i].cred \in Creds /\ rows[i].subject \in Subjects
    /\ \A r \in Reqs : rows[r].present => req[r].stage = "done"
    /\ OneOwner

\* A ceremony ended with a challenge issued for it and on a row that is still there.
LogInv ==
    /\ \A i \in DOMAIN log :
         LET e == log[i]
         IN  /\ Answers(e.chal, e.route, e.subject)
             /\ rows[e.row].present /\ rows[e.row].subject = e.subject
             /\ e.route = "discoverable" => e.uv
    /\ ChallengeOnce

CeremonyInv ==
    /\ Types
    /\ \A r \in Reqs : HandlerInv(r) /\ SpentInv(r)
    /\ RowsInv
    /\ LogInv

\* A request works for a subject that was active at some time since it began, and one
\* about to store a credential without a race is within the cap.
EntitledInv(r) ==
    /\ req[r].down \cap active = {}
    /\ \/ req[r].stage \in {"lookup", "cap", "store", "list", "mark", "touch", "advance"}
       \/ req[r].stage = "consume" /\ req[r].route # "discoverable"
       => req[r].subject \notin req[r].down
    /\ req[r].stage = "store" /\ ~req[r].raced => WithinCap(req[r].subject)

\* What a verified assertion knows of the counter of its row: every counter accepted
\* before the row was read is no higher than what it read, and the row's own is no
\* lower; one that did not go up has been recorded before it is accepted.
CounterInv(r) ==
    /\ Verified(r) =>
         /\ req[r].seen <= Len(log) /\ req[r].read <= rows[req[r].row].count
         /\ \A i \in DOMAIN log :
              i <= req[r].seen /\ log[i].row = req[r].row => log[i].count <= req[r].read
    /\ req[r].stage = "mark" => req[r].count <= req[r].read
    /\ req[r].stage = "touch" =>
         /\ req[r].count <= req[r].read
         /\ req[r].read = 0 \/ rows[req[r].row].warned
         /\ refuse => req[r].read = 0 \/ req[r].count >= req[r].read

\* A row's counter is the highest that was accepted for it.
HighestKept == \A i \in DOMAIN log : log[i].count <= rows[log[i].row].count

\* The two further invariants, on top of CeremonyInv.
AllEntitled == CeremonyInv /\ \A r \in Reqs : EntitledInv(r)

AllCounted == CeremonyInv /\ HighestKept /\ CountersHeeded /\ \A r \in Reqs : CounterInv(r)

-----------------------------------------------------------------------------
(* Lemmas.                                                                 *)

\* A request that has not started, or has returned, is typed.
LEMMA FreshType ==
    /\ Fresh \in Request
    /\ [Fresh EXCEPT !.stage = "done"] \in Request
<1>1. 0 \in Counts
  BY PasskeyAssumption DEF Counts
<1> QED BY <1>1 DEF Fresh, Request, Stage

\* Rows are typed, and a new one says what it was made of.
LEMMA RowType ==
    /\ NoRow \in Row /\ ~NoRow.present
    /\ \A k \in Creds, s \in Subjects \cup {Nobody}, n \in Counts :
         /\ NewRow(k, s, n) \in Row
         /\ NewRow(k, s, n).present /\ ~NewRow(k, s, n).revoked
         /\ NewRow(k, s, n).cred = k /\ NewRow(k, s, n).subject = s
         /\ NewRow(k, s, n).count = n
<1>1. 0 \in Counts
  BY PasskeyAssumption DEF Counts
<1> QED BY <1>1 DEF NoRow, NewRow, Row

\* A request is on a known route, works on known rows, and so on.
LEMMA ReqFields ==
    ASSUME Types, NEW r \in Reqs
    PROVE  /\ req \in [Reqs -> Request] /\ req[r] \in Request
           /\ req[r].stage \in Stage /\ req[r].count \in Counts /\ req[r].read \in Counts
           /\ req[r].uv \in BOOLEAN /\ req[r].seen \in Nat /\ req[r].raced \in BOOLEAN
           /\ req[r].began \in Nat /\ req[r].down \subseteq Subjects
BY DEF Types, TypeOK, Request

\* No step takes a row away, changes whose it is, or rewrites what a challenge was
\* issued for.
EnvStep ==
    /\ \A c \in Challenges : chal[c].issued =>
         /\ chal'[c].issued /\ chal'[c].subject = chal[c].subject
         /\ chal'[c].ceremony = chal[c].ceremony
         /\ chal[c].consumed => chal'[c].consumed
    /\ \A i \in RowIds : rows[i].present =>
         /\ rows'[i].present /\ rows'[i].subject = rows[i].subject
         /\ rows'[i].cred = rows[i].cred

\* The step leaves a request as it was, but for what the model keeps of others.
Stands(q) ==
    /\ req'[q].stage = req[q].stage /\ req'[q].route = req[q].route
    /\ req'[q].subject = req[q].subject /\ req'[q].chal = req[q].chal
    /\ req'[q].cred = req[q].cred /\ req'[q].row = req[q].row
    /\ req'[q].uv = req[q].uv /\ req'[q].read = req[q].read
    /\ req'[q].count = req[q].count /\ req'[q].seen = req[q].seen

\* What a handler knows stays true while it stands.
LEMMA HandlerStands ==
    ASSUME EnvStep, NEW q \in Reqs, Stands(q), HandlerInv(q)
    PROVE  HandlerInv(q)'
BY DEF EnvStep, Stands, HandlerInv, Verified

\* An answered challenge stays answered.
LEMMA AnswersKept ==
    ASSUME EnvStep, NEW c \in Challenges, NEW route, NEW s, Answers(c, route, s)
    PROVE  chal'[c].issued /\ chal'[c].consumed
             /\ chal'[c].subject = IssuedFor(route, s)
             /\ ((route = "register") <=> (chal'[c].ceremony = "registration"))
BY DEF EnvStep, Answers

\* What was spent stays spent, when no ceremony ends and no challenge is spent.
LEMMA SpentKept ==
    ASSUME CeremonyInv, EnvStep, log' = log,
           \A q \in Reqs : Spent(q)' =>
             /\ Spent(q) /\ req'[q].chal = req[q].chal /\ req'[q].route = req[q].route
             /\ req'[q].route = "discoverable" \/ req'[q].subject = req[q].subject
    PROVE  \A q \in Reqs : SpentInv(q)'
<1> SUFFICES ASSUME NEW q \in Reqs, Spent(q)'
             PROVE  /\ req'[q].chal \in Challenges
                    /\ Answers(req[q].chal, req[q].route, req[q].subject)'
                    /\ \A p \in Reqs : Spent(p)' /\ req'[p].chal = req'[q].chal => p = q
                    /\ \A i \in DOMAIN log' : log'[i].chal # req'[q].chal
  BY DEF SpentInv
<1>1. SpentInv(q) /\ \A p \in Reqs : SpentInv(p)
  BY DEF CeremonyInv
<1>2. /\ req[q].chal \in Challenges
      /\ Answers(req[q].chal, req[q].route, req[q].subject)
      /\ \A p \in Reqs : Spent(p) /\ req[p].chal = req[q].chal => p = q
      /\ \A i \in DOMAIN log : log[i].chal # req[q].chal
  BY <1>1 DEF SpentInv
<1>3. Answers(req[q].chal, req[q].route, req[q].subject)'
  <2>1. /\ req'[q].chal = req[q].chal /\ req'[q].route = req[q].route
        /\ IssuedFor(req'[q].route, req'[q].subject)
             = IssuedFor(req[q].route, req[q].subject)
    BY DEF IssuedFor
  <2>2. /\ chal'[req[q].chal].issued /\ chal'[req[q].chal].consumed
        /\ chal'[req[q].chal].subject = IssuedFor(req[q].route, req[q].subject)
        /\ (req[q].route = "register") <=> (chal'[req[q].chal].ceremony = "registration")
    BY <1>2, AnswersKept
  <2> QED BY <2>1, <2>2 DEF Answers
<1> QED BY <1>2, <1>3

\* The history stays what it was when no ceremony ends.
LEMMA LogKept ==
    ASSUME CeremonyInv, EnvStep, log' = log
    PROVE  LogInv'
<1> SUFFICES ASSUME NEW i \in DOMAIN log
             PROVE  /\ Answers(log[i].chal, log[i].route, log[i].subject)'
                    /\ rows'[log[i].row].present
                    /\ rows'[log[i].row].subject = log[i].subject
                    /\ log[i].route = "discoverable" => log[i].uv
  BY DEF CeremonyInv, LogInv, ChallengeOnce
<1>1. log[i] \in LogEntry
  BY DEF CeremonyInv, Types
<1>2. /\ Answers(log[i].chal, log[i].route, log[i].subject)
      /\ rows[log[i].row].present /\ rows[log[i].row].subject = log[i].subject
      /\ log[i].route = "discoverable" => log[i].uv
  BY DEF CeremonyInv, LogInv
<1>3. log[i].chal \in Challenges /\ log[i].row \in RowIds
  BY <1>1 DEF LogEntry
<1>4. Answers(log[i].chal, log[i].route, log[i].subject)'
  BY <1>2, <1>3, AnswersKept DEF Answers
<1> QED BY <1>2, <1>3, <1>4 DEF EnvStep

\* The rows stay one to an authenticator when none is inserted.
LEMMA RowsKept ==
    ASSUME CeremonyInv, EnvStep,
           \A i \in RowIds : rows'[i].present => rows[i].present,
           \A q \in Reqs : req[q].stage = "done" => req'[q].stage = "done"
    PROVE  RowsInv'
<1>1. Reqs \subseteq RowIds
  BY DEF RowIds
<1> QED BY <1>1 DEF CeremonyInv, RowsInv, OneOwner, EnvStep

\* A ceremony that ends with a spent challenge, on a row of its subject, is one more
\* entry; the challenge is used up with the request that held it.
LEMMA CeremonyEnds ==
    ASSUME CeremonyInv, EnvStep, NEW r \in Reqs, Spent(r),
           NEW e \in LogEntry, log' = Append(log, e),
           e.chal = req[r].chal, e.route = req[r].route,
           e.subject = req[r].subject,
           rows'[e.row].present, rows'[e.row].subject = e.subject,
           e.route = "discoverable" => e.uv,
           req'[r].stage = "done", \A q \in Reqs \ {r} : Stands(q)
    PROVE  LogInv' /\ \A q \in Reqs : SpentInv(q)'
<1>1. /\ log \in Seq(LogEntry) /\ Len(log) \in Nat /\ DOMAIN log = 1..Len(log)
      /\ DOMAIN log' = 1..(Len(log) + 1)
      /\ \A i \in DOMAIN log : log'[i] = log[i] /\ log[i] \in LogEntry
      /\ log'[Len(log) + 1] = e
  BY DEF CeremonyInv, Types
<1>2. /\ req[r].chal \in Challenges
      /\ Answers(req[r].chal, req[r].route, req[r].subject)
      /\ \A q \in Reqs : Spent(q) /\ req[q].chal = req[r].chal => q = r
      /\ \A i \in DOMAIN log : log[i].chal # req[r].chal
  BY DEF CeremonyInv, SpentInv
<1>3. ASSUME NEW i \in DOMAIN log'
      PROVE  /\ Answers(log[i].chal, log[i].route, log[i].subject)'
             /\ rows'[log'[i].row].present
             /\ rows'[log'[i].row].subject = log'[i].subject
             /\ log'[i].route = "discoverable" => log'[i].uv
  <2>1. CASE i \in DOMAIN log
    <3>1. /\ Answers(log[i].chal, log[i].route, log[i].subject)
          /\ rows[log[i].row].present /\ rows[log[i].row].subject = log[i].subject
          /\ log[i].route = "discoverable" => log[i].uv
      BY <2>1 DEF CeremonyInv, LogInv
    <3>2. log[i].chal \in Challenges /\ log[i].row \in RowIds /\ log'[i] = log[i]
      BY <1>1, <2>1 DEF LogEntry
    <3>3. Answers(log[i].chal, log[i].route, log[i].subject)'
      BY <3>1, <3>2, AnswersKept DEF Answers
    <3> QED BY <3>1, <3>2, <3>3 DEF EnvStep
  <2>2. CASE i \notin DOMAIN log
    <3>1. log'[i] = e
      BY <1>1, <2>2
    <3>2. Answers(log[i].chal, log[i].route, log[i].subject)'
      BY <1>2, <3>1, AnswersKept DEF Answers
    <3> QED BY <3>1, <3>2
  <2> QED BY <2>1, <2>2
<1>4. ChallengeOnce'
  <2>1. ChallengeOnce
    BY DEF CeremonyInv, LogInv
  <2> QED BY <1>1, <1>2, <2>1 DEF ChallengeOnce
<1>5. LogInv'
  BY <1>3, <1>4 DEF LogInv
<1>6. ASSUME NEW q \in Reqs, Spent(q)'
      PROVE  /\ req'[q].chal \in Challenges
             /\ Answers(req[q].chal, req[q].route, req[q].subject)'
             /\ \A p \in Reqs : Spent(p)' /\ req'[p].chal = req'[q].chal => p = q
             /\ \A i \in DOMAIN log' : log'[i].chal # req'[q].chal
  <2>1. \A p \in Reqs : Spent(p)' =>
          p # r /\ Spent(p) /\ req'[p].chal = req[p].chal
            /\ req'[p].route = req[p].route /\ req'[p].subject = req[p].subject
    BY DEF Spent, Stands
  <2>2. /\ req[q].chal \in Challenges
        /\ Answers(req[q].chal, req[q].route, req[q].subject)
        /\ \A p \in Reqs : Spent(p) /\ req[p].chal = req[q].chal => p = q
        /\ \A i \in DOMAIN log : log[i].chal # req[q].chal
    BY <1>6, <2>1 DEF CeremonyInv, SpentInv
  <2>3. Answers(req[q].chal, req[q].route, req[q].subject)'
    BY <1>6, <2>1, <2>2, AnswersKept DEF Answers
  <2>4. req[q].chal # req[r].chal
    BY <1>2, <1>6, <2>1
  <2> QED BY <1>1, <1>6, <2>1, <2>2, <2>3, <2>4
<1> QED BY <1>5, <1>6 DEF SpentInv

\* A request that returns knows nothing, holds no challenge and leaves no trace.
LEMMA ReturnField ==
    ASSUME Types, NEW r \in Reqs, Return(r)
    PROVE  /\ req' \in [Reqs -> Request] /\ req'[r].stage = "done"
           /\ \A q \in Reqs \ {r} : req'[q] = req[q] /\ Stands(q)
<1>1. req'[r] = [Fresh EXCEPT !.stage = "done"] /\ req' \in [Reqs -> Request]
  BY FreshType DEF Return, Types, TypeOK
<1>2. \A q \in Reqs \ {r} : req'[q] = req[q]
  BY DEF Return, Types, TypeOK
<1>3. req'[r].stage = "done"
  BY <1>1 DEF Fresh
<1> QED BY <1>1, <1>2, <1>3 DEF Stands

\* A finished request is bound to nothing.
LEMMA DoneKnowsNothing ==
    ASSUME NEW r \in Reqs, req'[r].stage = "done"
    PROVE  HandlerInv(r)' /\ ~Spent(r)'
BY DEF HandlerInv, Spent, Verified

\* A step that touches neither rows nor challenges nor history is one of the
\* environment that changes nothing.
LEMMA QuietStep ==
    ASSUME UNCHANGED <<rows, chal>>
    PROVE  EnvStep
BY DEF EnvStep

\* A handler that gives up keeps the invariant.
LEMMA GivesUp ==
    ASSUME CeremonyInv, EnvStep, NEW r \in Reqs, Return(r), log' = log, Types',
           \A i \in RowIds : rows'[i].present => rows[i].present
    PROVE  CeremonyInv'
<1>1. /\ req'[r].stage = "done" /\ \A q \in Reqs \ {r} : Stands(q)
  BY ReturnField DEF CeremonyInv
<1>2. \A q \in Reqs : HandlerInv(q)'
  BY <1>1, DoneKnowsNothing, HandlerStands DEF CeremonyInv
<1>3. \A q \in Reqs : SpentInv(q)'
  <2>1. \A q \in Reqs : Spent(q)' =>
             /\ Spent(q) /\ req'[q].chal = req[q].chal /\ req'[q].route = req[q].route
             /\ req'[q].subject = req[q].subject
    BY <1>1 DEF Spent, Stands
  <2> QED BY <2>1, SpentKept
<1>4. RowsInv'
  BY <1>1, RowsKept DEF Stands
<1> QED BY <1>2, <1>3, <1>4, LogKept DEF CeremonyInv

\* A handler that goes on, knowing what it must, keeps the invariant.
LEMMA GoesOn ==
    ASSUME CeremonyInv, EnvStep, NEW r \in Reqs, \A q \in Reqs \ {r} : Stands(q),
           log' = log, Types', HandlerInv(r)', req[r].stage # "done",
           Spent(r)' =>
             /\ Spent(r) /\ req'[r].chal = req[r].chal /\ req'[r].route = req[r].route
             /\ req'[r].route = "discoverable" \/ req'[r].subject = req[r].subject,
           \A i \in RowIds : rows'[i].present => rows[i].present
    PROVE  CeremonyInv'
<1>1. \A q \in Reqs : HandlerInv(q)'
  BY HandlerStands DEF CeremonyInv
<1>2. \A q \in Reqs : SpentInv(q)'
  <2>1. \A q \in Reqs : Spent(q)' =>
             /\ Spent(q) /\ req'[q].chal = req[q].chal /\ req'[q].route = req[q].route
             /\ req'[q].route = "discoverable" \/ req'[q].subject = req[q].subject
    BY DEF Spent, Stands
  <2> QED BY <2>1, SpentKept
<1>3. RowsInv'
  BY RowsKept DEF Stands
<1> QED BY <1>1, <1>2, <1>3, LogKept DEF CeremonyInv

\* A step of nobody's handler keeps the invariant.
LEMMA OutsideKeeps ==
    ASSUME CeremonyInv, EnvStep, \A q \in Reqs : Stands(q), log' = log, Types',
           \A i \in RowIds : rows'[i].present => rows[i].present
    PROVE  CeremonyInv'
<1>1. \A q \in Reqs : HandlerInv(q)'
  BY HandlerStands DEF CeremonyInv
<1>2. \A q \in Reqs : SpentInv(q)'
  <2>1. \A q \in Reqs : Spent(q)' =>
             /\ Spent(q) /\ req'[q].chal = req[q].chal /\ req'[q].route = req[q].route
             /\ req'[q].subject = req[q].subject
    BY DEF Spent, Stands
  <2> QED BY <2>1, SpentKept
<1>3. RowsInv'
  BY RowsKept DEF Stands
<1> QED BY <1>1, <1>2, <1>3, LogKept DEF CeremonyInv

-----------------------------------------------------------------------------
(* The steps.                                                              *)

\* The invariant holds at the start.
LEMMA InitCeremony == Init => CeremonyInv
<1> SUFFICES ASSUME Init PROVE CeremonyInv
  OBVIOUS
<1>1. PICK owner \in [Creds -> Subjects \cup {Nobody}], n \in [Creds -> {0, 1} \cap Counts] :
         rows = [i \in RowIds |-> IF i \in Creds /\ owner[i] # Nobody
                                  THEN NewRow(i, owner[i], n[i]) ELSE NoRow]
  BY DEF Init
<1>2. ASSUME NEW i \in RowIds
      PROVE  /\ rows[i] \in Row
             /\ rows[i].present => i \in Creds /\ rows[i].cred = i
                                   /\ rows[i].subject \in Subjects
  <2>1. CASE i \in Creds /\ owner[i] # Nobody
    <3>1. rows[i] = NewRow(i, owner[i], n[i]) /\ owner[i] \in Subjects /\ n[i] \in Counts
      BY <1>1, <2>1
    <3> QED BY <2>1, <3>1, RowType
  <2>2. CASE ~(i \in Creds /\ owner[i] # Nobody)
    BY <1>1, <2>2, RowType
  <2> QED BY <2>1, <2>2
<1>3. TypeOK
  <2>1. chal \in [Challenges -> Challenge]
    BY DEF Init, NoChallenge, Challenge
  <2>2. rows \in [RowIds -> Row]
    BY <1>1, <1>2
  <2>3. req \in [Reqs -> Request]
    BY FreshType DEF Init
  <2> QED BY <2>1, <2>2, <2>3, PasskeyAssumption DEF Init, TypeOK
<1>4. log = <<>> /\ log \in Seq(LogEntry) /\ DOMAIN log = {}
  BY DEF Init
<1>5. \A r \in Reqs : HandlerInv(r) /\ SpentInv(r)
  BY DEF Init, Fresh, HandlerInv, SpentInv, Spent, Verified
<1>6. RowsInv
  BY <1>2, PasskeyAssumption DEF RowsInv, OneOwner, RowIds
<1>7. LogInv
  BY <1>4 DEF LogInv, ChallengeOnce
<1> QED BY <1>3, <1>4, <1>5, <1>6, <1>7 DEF CeremonyInv, Types

\* What every step starts from.
LEMMA Given ==
    ASSUME CeremonyInv
    PROVE  /\ refuse \in BOOLEAN /\ clock \in Nat /\ active \subseteq Subjects
           /\ acts \in 0..MaxInterventions /\ chal \in [Challenges -> Challenge]
           /\ rows \in [RowIds -> Row] /\ req \in [Reqs -> Request]
           /\ log \in Seq(LogEntry) /\ Types /\ Reqs \subseteq RowIds
BY DEF CeremonyInv, Types, TypeOK, RowIds

\* A request that moves to another stage keeps the rest of what it knows.
LEMMA MovesOn ==
    ASSUME CeremonyInv, NEW r \in Reqs, NEW next \in Stage,
           req' = [req EXCEPT ![r].stage = next]
    PROVE  /\ req' \in [Reqs -> Request] /\ req'[r].stage = next
           /\ req'[r].route = req[r].route /\ req'[r].subject = req[r].subject
           /\ req'[r].chal = req[r].chal /\ req'[r].cred = req[r].cred
           /\ req'[r].row = req[r].row /\ req'[r].uv = req[r].uv
           /\ req'[r].read = req[r].read /\ req'[r].count = req[r].count
           /\ req'[r].seen = req[r].seen /\ req'[r].down = req[r].down
           /\ req'[r].raced = req[r].raced
           /\ \A q \in Reqs \ {r} : req'[q] = req[q] /\ Stands(q)
<1> DEFINE new == [req[r] EXCEPT !.stage = next]
<1>1. req \in [Reqs -> Request] /\ req[r] \in Request
  BY Given
<1>2. /\ new \in Request /\ new.stage = next
      /\ new.route = req[r].route /\ new.subject = req[r].subject
      /\ new.chal = req[r].chal /\ new.cred = req[r].cred
      /\ new.row = req[r].row /\ new.uv = req[r].uv
      /\ new.read = req[r].read /\ new.count = req[r].count
      /\ new.seen = req[r].seen /\ new.down = req[r].down
      /\ new.raced = req[r].raced
  BY <1>1 DEF Request
<1>3. req' = [req EXCEPT ![r] = new]
  OBVIOUS
<1> HIDE DEF new
<1>4. /\ req' \in [Reqs -> Request] /\ req'[r] = new
      /\ \A q \in Reqs \ {r} : req'[q] = req[q]
  BY <1>1, <1>2, <1>3
<1> QED BY <1>2, <1>4 DEF Stands

\* A begin route issues a challenge that was not issued before.
LEMMA BeginKeeps ==
    ASSUME CeremonyInv, NEW c \in Challenges, NEW ceremony \in {"registration", "assertion"},
           NEW s \in Subjects \cup {Nobody}, Persist(c, ceremony, s)
    PROVE  CeremonyInv'
<1>1. chal' \in [Challenges -> Challenge]
  <2>1. clock + ChallengeTTL \in Nat
    BY Given, PasskeyAssumption
  <2>2. [NoChallenge EXCEPT !.issued = TRUE, !.present = TRUE, !.ceremony = ceremony,
                            !.subject = s, !.expires = clock + ChallengeTTL] \in Challenge
    BY <2>1 DEF NoChallenge, Challenge
  <2> QED BY <2>2, Given DEF Persist
<1>2. Types'
  BY <1>1, Given DEF Persist, Types, TypeOK
<1>3. EnvStep
  BY Given DEF Persist, EnvStep
<1> QED BY <1>2, <1>3, OutsideKeeps DEF Persist, Stands

\* A completion begins with a challenge that was issued.
LEMMA CompleteKeeps ==
    ASSUME CeremonyInv, NEW r \in Reqs, NEW route \in Route,
           NEW s \in Subjects \cup {Nobody}, NEW c \in Challenges,
           Complete(r, route, s, c)
    PROVE  CeremonyInv'
<1> DEFINE new == [Fresh EXCEPT !.stage = "consume", !.route = route, !.began = clock,
                                !.subject = s, !.chal = c, !.down = Subjects \ active]
<1>1. /\ new \in Request /\ new.stage = "consume" /\ new.route = route
      /\ new.subject = s /\ new.chal = c
  BY Given, FreshType DEF Request, Stage, Fresh
<1> HIDE DEF new
<1>2. req' = [req EXCEPT ![r] = new]
  BY DEF Complete, new
<1>3. Types'
  BY <1>1, <1>2, Given DEF Complete, Types, TypeOK
<1>4. \A q \in Reqs \ {r} : Stands(q)
  BY <1>2, Given DEF Stands
<1>5. req'[r] = new
  BY <1>2, Given
<1>6. /\ route \in {"register", "named", "discoverable"} /\ chal'[c].issued
      /\ IF route = "discoverable" THEN s = Nobody ELSE s \in Subjects
  BY Given DEF Complete, Route, Resolves
<1>7. HandlerInv(r)' /\ ~Spent(r)'
  BY <1>1, <1>5, <1>6 DEF HandlerInv, Verified, Spent
<1> QED BY <1>3, <1>4, <1>7, GoesOn, QuietStep DEF Complete

\* The challenge is spent by one request, which learns that it fits or gives up.
LEMMA ConsumeKeeps ==
    ASSUME CeremonyInv, NEW r \in Reqs, Consume(r)
    PROVE  CeremonyInv'
<1> DEFINE c == req[r].chal
<1>1. /\ c \in Challenges /\ chal[c].issued /\ req[r].stage = "consume"
      /\ req[r].route \in {"register", "named", "discoverable"}
      /\ IF req[r].route = "discoverable" THEN req[r].subject = Nobody
         ELSE req[r].subject \in Subjects
  BY DEF CeremonyInv, HandlerInv, Consume
<1>2. CASE ~Consumable(c)
  <2>1. Return(r) /\ UNCHANGED <<refuse, clock, active, chal, rows, acts, log>>
    BY <1>2 DEF Consume
  <2>2. Types'
    BY <2>1, Given, ReturnField DEF Types, TypeOK
  <2> QED BY <2>1, <2>2, GivesUp, QuietStep
<1>3. CASE Consumable(c)
  <2>1. /\ chal' = [chal EXCEPT ![c].consumed = TRUE]
        /\ UNCHANGED <<refuse, clock, active, rows, acts, log>>
    BY <1>3 DEF Consume
  <2>2. /\ chal' \in [Challenges -> Challenge]
        /\ \A d \in Challenges : /\ chal'[d].issued = chal[d].issued
                                 /\ chal'[d].subject = chal[d].subject
                                 /\ chal'[d].ceremony = chal[d].ceremony
                                 /\ chal[d].consumed => chal'[d].consumed
        /\ chal'[c].consumed
    BY <1>1, <2>1, Given DEF Challenge
  <2>3. EnvStep
    BY <2>1, <2>2 DEF EnvStep
  <2>4. CASE Return(r)
    <3>1. Types'
      BY <2>1, <2>2, <2>4, Given, ReturnField DEF Types, TypeOK
    <3> QED BY <2>1, <2>3, <2>4, <3>1, GivesUp
  <2>5. CASE Fits(r) /\ ~Return(r)
    <3> DEFINE next == CASE req[r].route = "register" -> "lookup"
                         [] req[r].route = "named" -> "list"
                         [] OTHER -> "find"
    <3>1. req' = [req EXCEPT ![r].stage = next]
      BY <1>3, <2>5 DEF Consume
    <3>2. /\ next \in {"lookup", "list", "find"}
          /\ next = "lookup" <=> req[r].route = "register"
          /\ next = "list" <=> req[r].route = "named"
          /\ next = "find" <=> req[r].route = "discoverable"
      BY <1>1
    <3> HIDE DEF next
    <3>3. /\ req' \in [Reqs -> Request] /\ req'[r].stage = next
          /\ req'[r].route = req[r].route /\ req'[r].subject = req[r].subject
          /\ req'[r].chal = c
          /\ \A q \in Reqs \ {r} : Stands(q)
      BY <3>1, <3>2, MovesOn DEF Stage, Stands
    <3>4. Types'
      BY <2>1, <2>2, <3>3, Given DEF Types, TypeOK
    <3>5. \A q \in Reqs : HandlerInv(q)'
      <4>1. HandlerInv(r)'
        BY <1>1, <3>2, <3>3 DEF HandlerInv, Verified
      <4> QED BY <2>3, <3>3, <4>1, HandlerStands DEF CeremonyInv
    <3>6. ~chal[c].consumed
      BY <1>3 DEF Consumable
    <3>7. Answers(c, req[r].route, req[r].subject)'
      <4>1. /\ chal[c].ceremony = (IF req[r].route = "register" THEN "registration"
                                   ELSE "assertion")
            /\ chal[c].subject = req[r].subject
        BY <2>5 DEF Fits
      <4> QED BY <1>1, <2>2, <3>3, <4>1 DEF Answers, IssuedFor
    <3>8. ASSUME NEW q \in Reqs, q # r, Spent(q)
          PROVE  /\ req'[q].chal = req[q].chal /\ req[q].chal # c
                 /\ req[q].chal \in Challenges
                 /\ Answers(req[q].chal, req[q].route, req[q].subject)'
                 /\ \A p \in Reqs : Spent(p) /\ req[p].chal = req[q].chal => p = q
                 /\ \A i \in DOMAIN log : log[i].chal # req[q].chal
      <4>1. /\ req[q].chal \in Challenges
            /\ Answers(req[q].chal, req[q].route, req[q].subject)
            /\ \A p \in Reqs : Spent(p) /\ req[p].chal = req[q].chal => p = q
            /\ \A i \in DOMAIN log : log[i].chal # req[q].chal
        BY <3>8 DEF CeremonyInv, SpentInv
      <4>2. req[q].chal # c
        BY <3>6, <4>1 DEF Answers
      <4>3. Answers(req[q].chal, req[q].route, req[q].subject)'
        BY <2>3, <3>3, <3>8, <4>1, AnswersKept DEF Answers, Stands
      <4> QED BY <3>3, <3>8, <4>1, <4>2, <4>3 DEF Stands
    <3>9. \A q \in Reqs : SpentInv(q)'
      <4>1. \A i \in DOMAIN log : log[i].chal # c
        BY <3>6 DEF CeremonyInv, LogInv, Answers
      <4>2. \A q \in Reqs \ {r} : Spent(q)' => Spent(q)
        BY <3>3 DEF Spent, Stands
      <4>3. SpentInv(r)'
        BY <1>1, <2>1, <3>3, <3>7, <3>8, <4>1, <4>2 DEF SpentInv
      <4>4. ASSUME NEW q \in Reqs \ {r} PROVE SpentInv(q)'
        BY <2>1, <3>3, <3>8, <4>2 DEF SpentInv
      <4> QED BY <4>3, <4>4
    <3>10. RowsInv'
      <4>1. \A q \in Reqs : req[q].stage = "done" => req'[q].stage = "done"
        BY <1>1, <3>3 DEF Stands
      <4> QED BY <2>1, <2>3, <4>1, RowsKept
    <3> QED BY <2>1, <2>3, <3>4, <3>5, <3>9, <3>10, LogKept DEF CeremonyInv
  <2> QED BY <1>3, <2>4, <2>5 DEF Consume
<1> QED BY <1>2, <1>3

\* A request that becomes another record leaves the other requests alone.
LEMMA Becomes ==
    ASSUME CeremonyInv, NEW r \in Reqs, NEW new \in Request,
           req' = [req EXCEPT ![r] = new]
    PROVE  /\ req' \in [Reqs -> Request] /\ req'[r] = new
           /\ \A q \in Reqs \ {r} : req'[q] = req[q] /\ Stands(q)
BY Given DEF Stands

\* A handler that gives up and touches nothing keeps the invariant.
LEMMA QuietlyGivesUp ==
    ASSUME CeremonyInv, NEW r \in Reqs, Return(r),
           UNCHANGED <<refuse, clock, active, chal, rows, acts, log>>
    PROVE  CeremonyInv'
<1>1. Types'
  BY Given, ReturnField DEF Types, TypeOK
<1> QED BY <1>1, GivesUp, QuietStep

\* A handler that learns something and touches nothing keeps the invariant.
LEMMA QuietlyGoesOn ==
    ASSUME CeremonyInv, NEW r \in Reqs, NEW new \in Request,
           req' = [req EXCEPT ![r] = new],
           UNCHANGED <<refuse, clock, active, chal, rows, acts, log>>,
           HandlerInv(r)', req[r].stage # "done",
           Spent(r)' =>
             /\ Spent(r) /\ new.chal = req[r].chal /\ new.route = req[r].route
             /\ new.route = "discoverable" \/ new.subject = req[r].subject
    PROVE  CeremonyInv'
<1>1. /\ req' \in [Reqs -> Request] /\ req'[r] = new
      /\ \A q \in Reqs \ {r} : Stands(q)
  BY Becomes
<1>2. Types'
  BY <1>1, Given DEF Types, TypeOK
<1> QED BY <1>1, <1>2, GoesOn, QuietStep

\* The enrolment learns a credential that is not known.
LEMMA LookupKeeps ==
    ASSUME CeremonyInv, NEW r \in Reqs, Lookup(r)
    PROVE  CeremonyInv'
<1>1. CASE Return(r)
  BY <1>1, QuietlyGivesUp DEF Lookup
<1>2. ASSUME NEW k \in Creds, NEW n \in Counts,
             req' = [req EXCEPT ![r].stage = "cap", ![r].cred = k, ![r].count = n]
      PROVE  CeremonyInv'
  <2> DEFINE new == [req[r] EXCEPT !.stage = "cap", !.cred = k, !.count = n]
  <2> req[r] \in Request
    BY Given
  <2>1. /\ new \in Request /\ new.stage = "cap" /\ new.route = req[r].route
        /\ new.chal = req[r].chal /\ new.subject = req[r].subject /\ new.cred = k
    BY DEF Request, Stage
  <2>2. req' = [req EXCEPT ![r] = new]
    BY <1>2
  <2> HIDE DEF new
  <2>3. req'[r] = new
    BY <2>1, <2>2, Becomes
  <2>4. req[r].route = "register" /\ req[r].subject \in Subjects
    BY DEF CeremonyInv, HandlerInv, Lookup
  <2>5. HandlerInv(r)' /\ Spent(r)
    BY <2>1, <2>3, <2>4 DEF HandlerInv, Verified, Spent, Lookup
  <2> QED BY <2>1, <2>2, <2>5, QuietlyGoesOn DEF Lookup
<1> QED BY <1>1, <1>2 DEF Lookup

\* The enrolment is within the cap, or gives up.
LEMMA CapKeeps ==
    ASSUME CeremonyInv, NEW r \in Reqs, Cap(r)
    PROVE  CeremonyInv'
<1>1. CASE Return(r)
  BY <1>1, QuietlyGivesUp DEF Cap
<1>2. CASE req' = [req EXCEPT ![r].stage = "store", ![r].raced = FALSE]
  <2> DEFINE new == [req[r] EXCEPT !.stage = "store", !.raced = FALSE]
  <2> req[r] \in Request
    BY Given
  <2>1. /\ new \in Request /\ new.stage = "store" /\ new.route = req[r].route
        /\ new.chal = req[r].chal /\ new.subject = req[r].subject
        /\ new.cred = req[r].cred
    BY DEF Request, Stage
  <2>2. req' = [req EXCEPT ![r] = new]
    BY <1>2
  <2> HIDE DEF new
  <2>3. req'[r] = new
    BY <2>1, <2>2, Becomes
  <2>4. req[r].route = "register" /\ req[r].subject \in Subjects /\ req[r].cred \in Creds
    BY DEF CeremonyInv, HandlerInv, Cap
  <2>5. HandlerInv(r)' /\ Spent(r)
    BY <2>1, <2>3, <2>4 DEF HandlerInv, Verified, Spent, Cap
  <2> QED BY <2>1, <2>2, <2>5, QuietlyGoesOn DEF Cap
<1> QED BY <1>1, <1>2 DEF Cap

\* The fields of a request that has verified a response.
LEMMA ValidateFields ==
    ASSUME CeremonyInv, NEW r \in Reqs, NEW i \in RowIds, NEW n \in Counts,
           NEW uv \in BOOLEAN, NEW next \in Stage, Validate(r, i, n, uv, next)
    PROVE  \E new \in Request :
             /\ req' = [req EXCEPT ![r] = new]
             /\ new.stage = next /\ new.route = req[r].route
             /\ new.chal = req[r].chal /\ new.subject = req[r].subject
             /\ new.row = i /\ new.read = rows[i].count /\ new.count = n
             /\ new.uv = uv /\ new.seen = Len(log) /\ new.down = req[r].down
<1> DEFINE new == [req[r] EXCEPT !.stage = next, !.row = i, !.read = rows[i].count,
                                 !.count = n, !.uv = uv, !.seen = Len(log)]
<1>1. /\ req[r] \in Request /\ Len(log) \in Nat /\ rows[i].count \in Counts
  BY Given DEF Row
<1>2. /\ new \in Request /\ new.stage = next /\ new.route = req[r].route
      /\ new.chal = req[r].chal /\ new.subject = req[r].subject
      /\ new.row = i /\ new.read = rows[i].count /\ new.count = n
      /\ new.uv = uv /\ new.seen = Len(log) /\ new.down = req[r].down
  BY <1>1 DEF Request
<1>3. req' = [req EXCEPT ![r] = new]
  BY DEF Validate
<1> QED BY <1>2, <1>3

\* A named assertion verifies against a live credential of its subject.
LEMMA ListKeeps ==
    ASSUME CeremonyInv, NEW r \in Reqs, List(r)
    PROVE  CeremonyInv'
<1>1. CASE Return(r)
  BY <1>1, QuietlyGivesUp DEF List
<1>2. ASSUME NEW i \in Held(req[r].subject), NEW n \in Counts, NEW uv \in BOOLEAN,
             Validate(r, i, n, uv, Bookkeeping(rows[i].count, n))
      PROVE  CeremonyInv'
  <2> DEFINE next == Bookkeeping(rows[i].count, n)
  <2>1. next \in {"touch", "mark", "advance"}
    BY DEF Bookkeeping
  <2>2. i \in RowIds /\ rows[i].present /\ rows[i].subject = req[r].subject
    BY DEF Held
  <2>3. req[r].route = "named" /\ req[r].subject \in Subjects
    BY DEF CeremonyInv, HandlerInv, List
  <2> next \in Stage /\ Validate(r, i, n, uv, next)
    BY <1>2, <2>1 DEF Stage
  <2> HIDE DEF next
  <2>4. PICK new \in Request :
             /\ req' = [req EXCEPT ![r] = new]
             /\ new.stage = next /\ new.route = req[r].route
             /\ new.chal = req[r].chal /\ new.subject = req[r].subject
             /\ new.row = i /\ new.read = rows[i].count /\ new.count = n
             /\ new.uv = uv /\ new.seen = Len(log) /\ new.down = req[r].down
    BY <2>2, ValidateFields
  <2>5. req'[r] = new
    BY <2>4, Becomes
  <2>6. HandlerInv(r)' /\ Spent(r)
    BY <2>1, <2>2, <2>3, <2>4, <2>5 DEF HandlerInv, Verified, Spent, List
  <2> QED BY <2>4, <2>6, QuietlyGoesOn DEF List
<1> QED BY <1>1, <1>2 DEF List

\* A discoverable assertion verifies against a live credential, with the user verified.
LEMMA FindKeeps ==
    ASSUME CeremonyInv, NEW r \in Reqs, Find(r)
    PROVE  CeremonyInv'
<1>1. CASE Return(r)
  BY <1>1, QuietlyGivesUp DEF Find
<1>2. ASSUME NEW i \in RowIds, NEW n \in Counts, rows[i].present,
             NEW uv \in BOOLEAN, uv, NEW next \in Stage, next = "subject",
             Validate(r, i, n, uv, next)
      PROVE  CeremonyInv'
  <2>1. req[r].route = "discoverable"
    BY DEF CeremonyInv, HandlerInv, Find
  <2> Validate(r, i, n, uv, next)
    BY <1>2
  <2>2. PICK new \in Request :
             /\ req' = [req EXCEPT ![r] = new]
             /\ new.stage = next /\ new.route = req[r].route
             /\ new.chal = req[r].chal /\ new.subject = req[r].subject
             /\ new.row = i /\ new.read = rows[i].count /\ new.count = n
             /\ new.uv = uv /\ new.seen = Len(log) /\ new.down = req[r].down
    BY ValidateFields
  <2>3. req'[r] = new
    BY <2>2, Becomes
  <2>4. HandlerInv(r)' /\ Spent(r)
    BY <1>2, <2>1, <2>2, <2>3 DEF HandlerInv, Verified, Spent, Find
  <2> QED BY <2>2, <2>4, QuietlyGoesOn DEF Find
<1> QED BY <1>1, <1>2 DEF Find, Stage

\* A discoverable assertion learns the owner of the credential.
LEMMA SubjectKeeps ==
    ASSUME CeremonyInv, NEW r \in Reqs, Subject(r)
    PROVE  CeremonyInv'
<1>1. CASE Return(r)
  BY <1>1, QuietlyGivesUp DEF Subject
<1>2. CASE ~Return(r)
  <2> DEFINE s == rows[req[r].row].subject
             next == Bookkeeping(req[r].read, req[r].count)
             new == [req[r] EXCEPT !.subject = s, !.stage = next]
  <2>1. req[r] \in Request /\ s \in Subjects
    BY <1>2, Given DEF Subject
  <2>2. next \in {"touch", "mark", "advance"}
    BY DEF Bookkeeping
  <2>3. req' = [req EXCEPT ![r] = new]
    BY <1>2 DEF Subject
  <2>4. /\ req[r].stage = "subject" /\ req[r].route = "discoverable"
        /\ req[r].row \in RowIds /\ rows[req[r].row].present /\ req[r].uv
    BY DEF CeremonyInv, HandlerInv, Verified, Subject
  <2> HIDE DEF next, s
  <2>5. /\ new \in Request /\ new.stage = next /\ new.route = req[r].route
        /\ new.chal = req[r].chal /\ new.subject = s /\ new.row = req[r].row
        /\ new.uv = req[r].uv
    BY <2>1, <2>2 DEF Request, Stage
  <2> HIDE DEF new
  <2>6. req'[r] = new
    BY <2>3, <2>5, Becomes
  <2>7. HandlerInv(r)' /\ Spent(r)
    BY <2>1, <2>2, <2>4, <2>5, <2>6 DEF HandlerInv, Verified, Spent, Subject, s
  <2> QED BY <2>3, <2>4, <2>5, <2>7, QuietlyGoesOn DEF Subject
<1> QED BY <1>1, <1>2

\* A row that is written to keeps its owner and its authenticator.
LEMMA RowWritten ==
    ASSUME CeremonyInv, NEW i \in RowIds, NEW row \in Row,
           row.present = rows[i].present, row.subject = rows[i].subject,
           row.cred = rows[i].cred, rows' = [rows EXCEPT ![i] = row], chal' = chal
    PROVE  /\ rows' \in [RowIds -> Row] /\ rows'[i] = row
           /\ \A j \in RowIds \ {i} : rows'[j] = rows[j]
           /\ \A j \in RowIds : /\ rows'[j].present = rows[j].present
                                /\ rows'[j].subject = rows[j].subject
           /\ EnvStep
BY Given DEF EnvStep

\* The clone warning is recorded, then the assertion refused or not.
LEMMA MarkKeeps ==
    ASSUME CeremonyInv, NEW r \in Reqs, Mark(r)
    PROVE  CeremonyInv'
<1> DEFINE i == req[r].row
           row == [rows[i] EXCEPT !.warned = TRUE]
<1>1. /\ i \in RowIds /\ rows[i].present /\ rows[i] \in Row /\ req[r] \in Request
      /\ req[r].route \in {"named", "discoverable"} /\ req[r].subject \in Subjects
      /\ req[r].subject = rows[i].subject /\ req[r].stage = "mark"
      /\ req[r].route = "discoverable" => req[r].uv
  BY Given DEF CeremonyInv, HandlerInv, Verified, Mark
<1>2. /\ row \in Row /\ row.present = rows[i].present
      /\ row.subject = rows[i].subject /\ row.cred = rows[i].cred
  BY <1>1 DEF Row
<1>3. rows' = [rows EXCEPT ![i] = row] /\ UNCHANGED <<refuse, clock, active, chal, acts, log>>
  BY DEF Mark
<1>4. /\ rows' \in [RowIds -> Row] /\ EnvStep
      /\ \A j \in RowIds : /\ rows'[j].present = rows[j].present
                           /\ rows'[j].subject = rows[j].subject
  BY <1>1, <1>2, <1>3, RowWritten
<1>5. CASE Return(r)
  <2>1. Types'
    BY <1>3, <1>4, <1>5, Given, ReturnField DEF Types, TypeOK
  <2> QED BY <1>3, <1>4, <1>5, <2>1, GivesUp
<1>6. CASE req' = [req EXCEPT ![r].stage = "touch"]
  <2> DEFINE next == "touch"
  <2> next \in Stage /\ req' = [req EXCEPT ![r].stage = next] /\ next = "touch"
    BY <1>6 DEF Stage
  <2> HIDE DEF next
  <2>1. /\ req' \in [Reqs -> Request] /\ req'[r].stage = "touch"
        /\ req'[r].route = req[r].route /\ req'[r].subject = req[r].subject
        /\ req'[r].chal = req[r].chal /\ req'[r].row = i /\ req'[r].uv = req[r].uv
        /\ \A q \in Reqs \ {r} : Stands(q)
    BY MovesOn
  <2>2. Types'
    BY <1>3, <1>4, <2>1, Given DEF Types, TypeOK
  <2>3. HandlerInv(r)' /\ Spent(r)
    BY <1>1, <1>4, <2>1 DEF HandlerInv, Verified, Spent
  <2> QED BY <1>1, <1>3, <1>4, <2>1, <2>2, <2>3, GoesOn
<1> QED BY <1>5, <1>6 DEF Mark

\* What an assertion leaves in the history when it succeeds.
LEMMA AssertionEntry ==
    ASSUME CeremonyInv, NEW r \in Reqs, req[r].stage \in {"touch", "advance"}
    PROVE  LET e == Entry(r, req[r].row, req[r].subject)
           IN  /\ e \in LogEntry /\ e.chal = req[r].chal /\ e.route = req[r].route
               /\ e.subject = req[r].subject /\ e.row = req[r].row /\ e.by = r
               /\ e.count = req[r].count /\ e.seen = req[r].seen
               /\ e.subject = rows[e.row].subject /\ rows[e.row].present
               /\ e.route = "discoverable" => e.uv
               /\ Spent(r) /\ req[r].row \in RowIds
<1>1. /\ req[r].row \in RowIds /\ rows[req[r].row].present
      /\ req[r].route \in {"named", "discoverable"} /\ req[r].subject \in Subjects
      /\ req[r].subject = rows[req[r].row].subject
      /\ req[r].route = "discoverable" => req[r].uv
  BY DEF CeremonyInv, HandlerInv, Verified
<1>2. Spent(r) /\ req[r].chal \in Challenges
  BY DEF CeremonyInv, SpentInv, Spent
<1>3. req[r].count \in Counts /\ req[r].uv \in BOOLEAN /\ req[r].seen \in Nat /\ clock \in Nat
  BY Given, ReqFields
<1> QED BY <1>1, <1>2, <1>3 DEF Entry, LogEntry

\* An assertion ends, and its row keeps its owner.
LEMMA AssertionEnds ==
    ASSUME CeremonyInv, NEW r \in Reqs, req[r].stage \in {"touch", "advance"}, Return(r),
           log' = Append(log, Entry(r, req[r].row, req[r].subject)),
           EnvStep, rows' \in [RowIds -> Row],
           \A i \in RowIds : rows'[i].present => rows[i].present,
           UNCHANGED <<refuse, clock, active, chal, acts>>
    PROVE  CeremonyInv'
<1> DEFINE e == Entry(r, req[r].row, req[r].subject)
<1>1. /\ e \in LogEntry /\ e.chal = req[r].chal /\ e.route = req[r].route
      /\ e.subject = req[r].subject /\ e.row = req[r].row
      /\ e.subject = rows[e.row].subject /\ rows[e.row].present
      /\ e.route = "discoverable" => e.uv
      /\ Spent(r) /\ req[r].row \in RowIds
  BY AssertionEntry
<1>2. log' = Append(log, e)
  OBVIOUS
<1> HIDE DEF e
<1>3. rows'[e.row].present /\ rows'[e.row].subject = e.subject
  BY <1>1 DEF EnvStep
<1>4. /\ req' \in [Reqs -> Request] /\ req'[r].stage = "done"
      /\ \A q \in Reqs \ {r} : Stands(q)
  BY ReturnField, Given
<1>5. LogInv' /\ \A q \in Reqs : SpentInv(q)'
  BY <1>1, <1>2, <1>3, <1>4, CeremonyEnds
<1>6. \A q \in Reqs : HandlerInv(q)'
  BY <1>4, DoneKnowsNothing, HandlerStands DEF CeremonyInv
<1>7. RowsInv'
  BY <1>4, RowsKept DEF Stands
<1>8. Types'
  <2>1. log' \in Seq(LogEntry)
    BY <1>1, <1>2, Given
  <2> QED BY <1>4, <2>1, Given DEF Types, TypeOK
<1> QED BY <1>5, <1>6, <1>7, <1>8 DEF CeremonyInv

\* An assertion without a counter succeeds when its row is not revoked.
LEMMA TouchKeeps ==
    ASSUME CeremonyInv, NEW r \in Reqs, Touch(r)
    PROVE  CeremonyInv'
<1>1. UNCHANGED <<refuse, clock, active, chal, rows, acts>> /\ Return(r)
  BY DEF Touch
<1>2. CASE Touchable(r)
  <2>1. log' = Append(log, Entry(r, req[r].row, req[r].subject))
    BY <1>2 DEF Touch
  <2> QED BY <1>1, <2>1, Given, AssertionEnds, QuietStep DEF Touch
<1>3. CASE ~Touchable(r)
  <2>1. log' = log
    BY <1>3 DEF Touch
  <2> QED BY <1>1, <2>1, QuietlyGivesUp
<1> QED BY <1>2, <1>3

\* The counter is swapped for the one presented, or nothing happens.
LEMMA AdvanceKeeps ==
    ASSUME CeremonyInv, NEW r \in Reqs, Advance(r)
    PROVE  CeremonyInv'
<1>1. UNCHANGED <<refuse, clock, active, chal, acts>> /\ Return(r)
  BY DEF Advance
<1>2. CASE Advanceable(r)
  <2> DEFINE i == req[r].row
             row == [rows[i] EXCEPT !.count = req[r].count]
  <2>1. i \in RowIds /\ rows[i] \in Row /\ req[r].count \in Counts
    BY AssertionEntry, Given, ReqFields DEF Advance
  <2>2. /\ row \in Row /\ row.present = rows[i].present
        /\ row.subject = rows[i].subject /\ row.cred = rows[i].cred
    BY <2>1 DEF Row
  <2>3. /\ rows' = [rows EXCEPT ![i] = row]
        /\ log' = Append(log, Entry(r, req[r].row, req[r].subject))
    BY <1>2 DEF Advance
  <2>4. /\ rows' \in [RowIds -> Row] /\ EnvStep
        /\ \A j \in RowIds : rows'[j].present = rows[j].present
    BY <1>1, <2>1, <2>2, <2>3, RowWritten
  <2> QED BY <1>1, <2>3, <2>4, AssertionEnds DEF Advance
<1>3. CASE ~Advanceable(r)
  <2>1. UNCHANGED <<rows, log>>
    BY <1>3 DEF Advance
  <2> QED BY <1>1, <2>1, QuietlyGivesUp
<1> QED BY <1>2, <1>3

\* The enrolment that inserts its row was the only one of that authenticator, and
\* ends with the challenge it spent.
LEMMA StoreKeeps ==
    ASSUME CeremonyInv, NEW r \in Reqs, Store(r)
    PROVE  CeremonyInv'
<1>1. CASE ~Insertable(r)
  BY <1>1, QuietlyGivesUp DEF Store
<1>2. CASE Insertable(r)
  <2> DEFINE e == Entry(r, r, req[r].subject)
             row == NewRow(req[r].cred, req[r].subject, req[r].count)
             end == [Fresh EXCEPT !.stage = "done"]
             other(q) == IF req[q].stage = "store" /\ req[q].subject = req[r].subject
                         THEN [req[q] EXCEPT !.raced = TRUE] ELSE req[q]
  <2>1. /\ req[r].stage = "store" /\ req[r].route = "register"
        /\ req[r].subject \in Subjects /\ req[r].cred \in Creds
        /\ r \in RowIds /\ ~rows[r].present
    BY Given DEF CeremonyInv, HandlerInv, RowsInv, Store
  <2>2. req[r].count \in Counts /\ req[r].uv \in BOOLEAN /\ req[r].seen \in Nat /\ clock \in Nat
    BY Given, ReqFields
  <2>3. Spent(r) /\ req[r].chal \in Challenges
    BY <2>1 DEF CeremonyInv, SpentInv, Spent
  <2>4. /\ e \in LogEntry /\ e.chal = req[r].chal /\ e.route = req[r].route
        /\ e.subject = req[r].subject /\ e.row = r
    BY <2>1, <2>2, <2>3 DEF Entry, LogEntry
  <2>5. /\ row \in Row /\ row.present /\ row.cred = req[r].cred
        /\ row.subject = req[r].subject
    BY <2>1, <2>2, RowType
  <2>6. end \in Request /\ end.stage = "done"
    BY FreshType DEF Fresh
  <2>7. ASSUME NEW q \in Reqs
        PROVE  /\ other(q) \in Request /\ other(q).stage = req[q].stage
               /\ other(q).route = req[q].route /\ other(q).subject = req[q].subject
               /\ other(q).chal = req[q].chal /\ other(q).cred = req[q].cred
               /\ other(q).row = req[q].row /\ other(q).uv = req[q].uv
               /\ other(q).read = req[q].read /\ other(q).count = req[q].count
               /\ other(q).seen = req[q].seen
    <3>1. req[q] \in Request
      BY Given
    <3> QED BY <3>1 DEF Request
  <2>8. /\ rows' = [rows EXCEPT ![r] = row] /\ log' = Append(log, e)
        /\ req' = [q \in Reqs |-> IF q = r THEN end ELSE other(q)]
        /\ UNCHANGED <<refuse, clock, active, chal, acts>>
    BY <1>2 DEF Store
  <2>9. \A i \in RowIds : rows[i].present => rows[i].cred # row.cred
    BY <1>2, <2>5 DEF Insertable
  <2> HIDE DEF e, row, end, other
  <2>10. /\ rows' \in [RowIds -> Row] /\ rows'[r] = row
         /\ \A i \in RowIds \ {r} : rows'[i] = rows[i]
    BY <2>1, <2>5, <2>8, Given
  <2>11. /\ req' \in [Reqs -> Request] /\ req'[r].stage = "done"
         /\ \A q \in Reqs \ {r} : Stands(q)
    BY <2>6, <2>7, <2>8 DEF Stands
  <2>12. EnvStep
    BY <2>1, <2>8, <2>10 DEF EnvStep
  <2>13. LogInv' /\ \A q \in Reqs : SpentInv(q)'
    BY <2>1, <2>3, <2>4, <2>5, <2>8, <2>10, <2>11, <2>12, CeremonyEnds
  <2>14. \A q \in Reqs : HandlerInv(q)'
    BY <2>11, <2>12, DoneKnowsNothing, HandlerStands DEF CeremonyInv
  <2>15. RowsInv'
    <3>1. /\ \A i \in RowIds : rows[i].present => rows[i].cred \in Creds /\ rows[i].subject \in Subjects
          /\ \A q \in Reqs : rows[q].present => req[q].stage = "done"
          /\ \A i, j \in RowIds :
               (rows[i].present /\ rows[j].present /\ rows[i].cred = rows[j].cred) => i = j
      BY DEF CeremonyInv, RowsInv, OneOwner
    <3>2. \A i \in RowIds : rows'[i].present => rows'[i].cred \in Creds /\ rows'[i].subject \in Subjects
      BY <2>1, <2>5, <2>10, <3>1
    <3>3. \A q \in Reqs : rows'[q].present => req'[q].stage = "done"
      BY <2>10, <2>11, <3>1, Given DEF Stands
    <3>4. \A i, j \in RowIds :
            (rows'[i].present /\ rows'[j].present /\ rows'[i].cred = rows'[j].cred) => i = j
      BY <2>9, <2>10, <3>1
    <3> QED BY <3>2, <3>3, <3>4 DEF RowsInv, OneOwner
  <2>16. Types'
    <3>1. log' \in Seq(LogEntry)
      BY <2>4, <2>8, Given
    <3> QED BY <2>8, <2>10, <2>11, <3>1, Given DEF Types, TypeOK
  <2> QED BY <2>13, <2>14, <2>15, <2>16 DEF CeremonyInv
<1> QED BY <1>1, <1>2

\* A revocation begins with a credential that is there.
LEMMA RevokeBeginKeeps ==
    ASSUME CeremonyInv, NEW r \in Reqs, NEW i \in RowIds, NEW allowLast \in BOOLEAN,
           RevokeBegin(r, i, allowLast)
    PROVE  CeremonyInv'
<1> DEFINE new == [Fresh EXCEPT !.stage = "count", !.route = "revoke", !.began = clock,
                                !.row = i, !.allowLast = allowLast]
<1>1. /\ new \in Request /\ new.stage = "count" /\ new.row = i
  <2>1. clock \in Nat /\ Fresh \in Request /\ "revoke" \in Route /\ "count" \in Stage
    BY Given, FreshType DEF Route, Stage
  <2> QED BY <2>1 DEF Request
<1> HIDE DEF new
<1>2. req' = [req EXCEPT ![r] = new]
  BY DEF RevokeBegin, new
<1>3. req'[r] = new
  BY <1>1, <1>2, Becomes
<1>4. HandlerInv(r)' /\ ~Spent(r)'
  BY <1>1, <1>3 DEF HandlerInv, Verified, Spent, RevokeBegin
<1> QED BY <1>1, <1>2, <1>4, QuietlyGoesOn DEF RevokeBegin

\* The revocation counts what the subject holds.
LEMMA RevokeCountKeeps ==
    ASSUME CeremonyInv, NEW r \in Reqs, RevokeCount(r)
    PROVE  CeremonyInv'
<1>1. CASE Return(r)
  BY <1>1, QuietlyGivesUp DEF RevokeCount
<1>2. CASE req' = [req EXCEPT ![r].stage = "revoke"]
  <2> DEFINE next == "revoke"
  <2> next \in Stage /\ req' = [req EXCEPT ![r].stage = next] /\ next = "revoke"
    BY <1>2 DEF Stage
  <2> HIDE DEF next
  <2>1. /\ req' \in [Reqs -> Request] /\ req'[r].stage = "revoke"
        /\ req'[r].row = req[r].row /\ \A q \in Reqs \ {r} : Stands(q)
    BY MovesOn
  <2>2. req[r].row \in RowIds /\ rows[req[r].row].present
    BY DEF CeremonyInv, HandlerInv, RevokeCount
  <2>3. HandlerInv(r)' /\ ~Spent(r)'
    BY <2>1, <2>2 DEF HandlerInv, Verified, Spent, RevokeCount
  <2>4. Types'
    BY <2>1, Given DEF Types, TypeOK, RevokeCount
  <2> QED BY <2>1, <2>3, <2>4, GoesOn, QuietStep DEF RevokeCount
<1> QED BY <1>1, <1>2 DEF RevokeCount

\* A revocation writes to its row alone.
LEMMA RevokeKeeps ==
    ASSUME CeremonyInv, NEW r \in Reqs, Revoke(r)
    PROVE  CeremonyInv'
<1> DEFINE i == req[r].row
           row == [rows[i] EXCEPT !.revoked = TRUE]
<1>1. /\ i \in RowIds /\ rows[i] \in Row
  BY Given DEF CeremonyInv, HandlerInv, Revoke
<1>2. /\ row \in Row /\ row.present = rows[i].present
      /\ row.subject = rows[i].subject /\ row.cred = rows[i].cred
  BY <1>1 DEF Row
<1>3. rows' = [rows EXCEPT ![i] = row] /\ UNCHANGED <<refuse, clock, active, chal, acts, log>>
  BY DEF Revoke
<1>4. /\ rows' \in [RowIds -> Row] /\ EnvStep
      /\ \A j \in RowIds : rows'[j].present = rows[j].present
  BY <1>1, <1>2, <1>3, RowWritten
<1>5. Types'
  BY <1>3, <1>4, Given, ReturnField DEF Types, TypeOK, Revoke
<1> QED BY <1>3, <1>4, <1>5, GivesUp DEF Revoke

\* A bulk revocation takes no row away.
LEMMA RevokeAllKeeps ==
    ASSUME CeremonyInv, NEW s \in Subjects, RevokeAll(s)
    PROVE  CeremonyInv'
<1> DEFINE new(i) == IF i \in Held(s) THEN [rows[i] EXCEPT !.revoked = TRUE] ELSE rows[i]
<1>1. ASSUME NEW i \in RowIds
      PROVE  /\ new(i) \in Row /\ new(i).present = rows[i].present
             /\ new(i).subject = rows[i].subject /\ new(i).cred = rows[i].cred
  <2>1. rows[i] \in Row
    BY Given
  <2> QED BY <2>1 DEF Row
<1>2. /\ rows' = [i \in RowIds |-> new(i)] /\ acts < MaxInterventions /\ acts' = acts + 1
      /\ UNCHANGED <<refuse, clock, active, chal, req, log>>
  BY DEF RevokeAll
<1> HIDE DEF new
<1>3. /\ rows' \in [RowIds -> Row]
      /\ \A i \in RowIds : /\ rows'[i].present = rows[i].present
                           /\ rows'[i].subject = rows[i].subject
                           /\ rows'[i].cred = rows[i].cred
  BY <1>1, <1>2
<1>4. EnvStep
  BY <1>2, <1>3 DEF EnvStep
<1>5. acts' \in 0..MaxInterventions
  BY <1>2, Given, PasskeyAssumption
<1>6. Types'
  BY <1>2, <1>3, <1>5, Given DEF Types, TypeOK
<1> QED BY <1>2, <1>3, <1>4, <1>6, OutsideKeeps DEF Stands

\* A change of a status is noted by every request, and changes nothing else of it.
LEMMA SetStatusKeeps ==
    ASSUME CeremonyInv, NEW s \in Subjects, SetStatus(s)
    PROVE  CeremonyInv'
<1>1. /\ active' \subseteq Subjects /\ acts' \in 0..MaxInterventions
      /\ UNCHANGED <<refuse, clock, chal, rows, log>>
  BY Given, PasskeyAssumption DEF SetStatus
<1>2. req' = [r \in Reqs |-> [req[r] EXCEPT !.down = req[r].down \ active']]
  BY DEF SetStatus
<1>3. ASSUME NEW r \in Reqs
      PROVE  req'[r] \in Request /\ Stands(r)
  <2>1. req[r] \in Request /\ req[r].down \ active' \in SUBSET Subjects
    BY Given, ReqFields
  <2>2. req'[r] = [req[r] EXCEPT !.down = req[r].down \ active']
    BY <1>2
  <2> QED BY <2>1, <2>2 DEF Request, Stands
<1>4. Types'
  BY <1>1, <1>2, <1>3, Given DEF Types, TypeOK
<1> QED BY <1>1, <1>3, <1>4, QuietStep, OutsideKeeps

\* A swept challenge stays issued, and spent if it was.
LEMMA SweepKeeps ==
    ASSUME CeremonyInv, Sweep
    PROVE  CeremonyInv'
<1> DEFINE new(c) == IF chal[c].expires < clock THEN [chal[c] EXCEPT !.present = FALSE]
                     ELSE chal[c]
<1>1. ASSUME NEW c \in Challenges
      PROVE  /\ new(c) \in Challenge /\ new(c).issued = chal[c].issued
             /\ new(c).subject = chal[c].subject /\ new(c).ceremony = chal[c].ceremony
             /\ new(c).consumed = chal[c].consumed
  <2>1. chal[c] \in Challenge
    BY Given
  <2> QED BY <2>1 DEF Challenge
<1>2. chal' = [c \in Challenges |-> new(c)] /\ UNCHANGED <<refuse, clock, active, rows, req, acts, log>>
  BY DEF Sweep
<1> HIDE DEF new
<1>3. chal' \in [Challenges -> Challenge] /\ EnvStep
  BY <1>1, <1>2 DEF EnvStep
<1>4. Types'
  BY <1>2, <1>3, Given DEF Types, TypeOK
<1> QED BY <1>2, <1>3, <1>4, OutsideKeeps DEF Stands

\* Every step keeps the invariant.
LEMMA NextCeremony == CeremonyInv /\ [Next]_vars => CeremonyInv'
<1> SUFFICES ASSUME CeremonyInv, [Next]_vars PROVE CeremonyInv'
  OBVIOUS
<1>1. ASSUME NEW c \in Challenges, NEW s \in Subjects, BeginRegistration(c, s)
      PROVE  CeremonyInv'
  BY <1>1, BeginKeeps DEF BeginRegistration
<1>2. ASSUME NEW c \in Challenges, NEW s \in Subjects, BeginAssertion(c, s)
      PROVE  CeremonyInv'
  BY <1>2, BeginKeeps DEF BeginAssertion
<1>3. ASSUME NEW c \in Challenges, BeginDiscoverableAssertion(c)
      PROVE  CeremonyInv'
  BY <1>3, BeginKeeps DEF BeginDiscoverableAssertion
<1>4. ASSUME NEW r \in Reqs, NEW route \in Route, NEW s \in Subjects \cup {Nobody},
             NEW c \in Challenges, Complete(r, route, s, c)
      PROVE  CeremonyInv'
  BY <1>4, CompleteKeeps
<1>5. ASSUME NEW r \in Reqs, Consume(r) \/ Lookup(r) \/ Cap(r) \/ Store(r)
      PROVE  CeremonyInv'
  BY <1>5, ConsumeKeeps, LookupKeeps, CapKeeps, StoreKeeps
<1>6. ASSUME NEW r \in Reqs,
             List(r) \/ Find(r) \/ Subject(r) \/ Mark(r) \/ Touch(r) \/ Advance(r)
      PROVE  CeremonyInv'
  BY <1>6, ListKeeps, FindKeeps, SubjectKeeps, MarkKeeps, TouchKeeps, AdvanceKeeps
<1>7. ASSUME NEW r \in Reqs, NEW i \in RowIds, NEW allowLast \in BOOLEAN,
             RevokeBegin(r, i, allowLast)
      PROVE  CeremonyInv'
  BY <1>7, RevokeBeginKeeps
<1>8. ASSUME NEW r \in Reqs, RevokeCount(r) \/ Revoke(r)
      PROVE  CeremonyInv'
  BY <1>8, RevokeCountKeeps, RevokeKeeps
<1>9. ASSUME NEW s \in Subjects, RevokeAll(s) \/ SetStatus(s)
      PROVE  CeremonyInv'
  BY <1>9, RevokeAllKeeps, SetStatusKeeps
<1>10. CASE Sweep
  BY <1>10, SweepKeeps
<1>11. CASE Tick
  <2>1. Types'
    BY <1>11, Given DEF Tick, Types, TypeOK
  <2> QED BY <1>11, <2>1, QuietStep, OutsideKeeps DEF Tick, Stands
<1>12. CASE UNCHANGED vars
  <2>1. Types'
    BY <1>12, Given DEF vars, Types, TypeOK
  <2> QED BY <1>12, <2>1, QuietStep, OutsideKeeps DEF vars, Stands
<1> QED
  BY <1>1, <1>2, <1>3, <1>4, <1>5, <1>6, <1>7, <1>8, <1>9, <1>10, <1>11, <1>12 DEF Next

-----------------------------------------------------------------------------
(* Theorems.                                                               *)

\* A challenge completes one ceremony, the one it was issued for, whichever routes and
\* requests present it (ConsumeChallenge and the comparisons behind it), and an
\* authenticator ends with one owner (wc_credential_uq).
THEOREM CeremoniesStaySound == Spec => []CeremoniesAreSound
<1>1. CeremonyInv => CeremoniesAreSound
  <2> SUFFICES ASSUME CeremonyInv PROVE CeremoniesAreSound
    OBVIOUS
  <2>1. EndsAsBegun
    BY DEF CeremonyInv, LogInv, Answers, IssuedFor, EndsAsBegun
  <2> QED BY <2>1 DEF CeremonyInv, Types, RowsInv, LogInv, CeremoniesAreSound
<1> QED BY <1>1, InitCeremony, NextCeremony, PTL DEF Spec

-----------------------------------------------------------------------------
(* Who may succeed.                                                        *)

\* What a subject holds is finite.
LEMMA HeldIsFinite ==
    \A s : IsFiniteSet(Held(s)) /\ Cardinality(Held(s)) \in Nat
<1>1. IsFiniteSet(RowIds)
  BY PasskeyAssumption, FS_Union DEF RowIds
<1>2. \A s : Held(s) \subseteq RowIds
  BY DEF Held
<1> QED BY <1>1, <1>2, FS_Subset, FS_CardinalityType

\* Within the cap stays within it when less is held.
LEMMA CapKept ==
    ASSUME NEW s, WithinCap(s), Held(s)' \subseteq Held(s)
    PROVE  WithinCap(s)'
<1>1. ASSUME NEW A, NEW B, IsFiniteSet(B), A \subseteq B
      PROVE  Cardinality(A) \in Nat /\ Cardinality(B) \in Nat /\ Cardinality(A) <= Cardinality(B)
  BY <1>1, FS_Subset, FS_CardinalityType
<1>2. IsFiniteSet(Held(s))
  BY HeldIsFinite
<1>3. /\ Cardinality(Held(s)') \in Nat /\ Cardinality(Held(s)) \in Nat
      /\ Cardinality(Held(s)') <= Cardinality(Held(s))
  BY <1>1, <1>2
<1> QED BY <1>3, PasskeyAssumption DEF WithinCap

\* The rows are held by those who held them, or by nobody.
LessHeld ==
    \A i \in RowIds :
        rows'[i].present /\ ~rows'[i].revoked =>
            rows[i].present /\ ~rows[i].revoked /\ rows'[i].subject = rows[i].subject

\* A request that the step leaves alone stays entitled, when nobody holds more.
LEMMA EntitledStands ==
    ASSUME LessHeld, active' = active, NEW q \in Reqs, req'[q] = req[q], EntitledInv(q)
    PROVE  EntitledInv(q)'
<1>1. \A s : Held(s)' \subseteq Held(s)
  BY DEF LessHeld, Held
<1>2. WithinCap(req[q].subject) => WithinCap(req[q].subject)'
  BY <1>1, CapKept
<1>3. req[q].stage = "store" /\ ~req[q].raced => WithinCap(req[q].subject)'
  BY <1>2 DEF EntitledInv
<1> QED BY <1>3 DEF EntitledInv

\* A finished request works for nobody.
LEMMA DoneIsEntitled ==
    ASSUME CeremonyInv, NEW r \in Reqs, Return(r)
    PROVE  EntitledInv(r)'
<1>1. req'[r] = [Fresh EXCEPT !.stage = "done"]
  BY Given DEF Return
<1>2. req'[r].stage = "done" /\ req'[r].down = {}
  BY <1>1 DEF Fresh
<1> QED BY <1>2 DEF EntitledInv

\* A request that returns leaves the others entitled.
LEMMA ReturnEntitled ==
    ASSUME AllEntitled, NEW r \in Reqs, Return(r), LessHeld, active' = active
    PROVE  \A q \in Reqs : EntitledInv(q)'
<1>1. \A q \in Reqs \ {r} : req'[q] = req[q]
  BY ReturnField, Given DEF AllEntitled
<1> QED BY <1>1, DoneIsEntitled, EntitledStands DEF AllEntitled

\* Nobody holds more when no row is written.
LEMMA QuietHolds ==
    ASSUME UNCHANGED rows
    PROVE  LessHeld
BY DEF LessHeld

\* Requests stay entitled when one of them becomes another record that is.
LEMMA BecomesEntitled ==
    ASSUME AllEntitled, NEW r \in Reqs, NEW new \in Request,
           req' = [req EXCEPT ![r] = new], LessHeld, active' = active,
           new.down \cap active = {},
           new.stage \in {"lookup", "cap", "store", "list", "mark", "touch", "advance"}
             => new.subject \notin new.down,
           new.stage = "consume" /\ new.route # "discoverable" => new.subject \notin new.down,
           new.stage = "store" => WithinCap(new.subject)'
    PROVE  \A q \in Reqs : EntitledInv(q)'
<1>1. req'[r] = new /\ \A q \in Reqs \ {r} : req'[q] = req[q]
  BY Becomes DEF AllEntitled
<1>2. EntitledInv(r)'
  BY <1>1 DEF EntitledInv
<1> QED BY <1>1, <1>2, EntitledStands DEF AllEntitled

\* The steps of a handler before its challenge is answered.
LEMMA EarlyEntitled ==
    ASSUME AllEntitled, NEW r \in Reqs,
           \/ \E route \in Route, s \in Subjects \cup {Nobody}, c \in Challenges :
                Complete(r, route, s, c)
           \/ Consume(r)
    PROVE  \A q \in Reqs : EntitledInv(q)'
<1> CeremonyInv
  BY DEF AllEntitled
<1>1. ASSUME NEW route \in Route, NEW s \in Subjects \cup {Nobody}, NEW c \in Challenges,
             Complete(r, route, s, c)
      PROVE  \A q \in Reqs : EntitledInv(q)'
  <2> DEFINE new == [Fresh EXCEPT !.stage = "consume", !.route = route, !.began = clock,
                                  !.subject = s, !.chal = c, !.down = Subjects \ active]
  <2>1. /\ new \in Request /\ new.stage = "consume" /\ new.route = route
        /\ new.subject = s /\ new.down = Subjects \ active
    BY Given, FreshType DEF Request, Stage, Fresh
  <2>2. req' = [req EXCEPT ![r] = new] /\ LessHeld /\ active' = active
    BY <1>1, QuietHolds DEF Complete
  <2>3. route # "discoverable" => s \in active
    BY <1>1 DEF Complete, Resolves
  <2> HIDE DEF new
  <2> QED BY <2>1, <2>2, <2>3, BecomesEntitled
<1>2. CASE Consume(r)
  <2>1. UNCHANGED rows /\ active' = active
    BY <1>2 DEF Consume
  <2>2. CASE Return(r)
    BY <2>1, <2>2, ReturnEntitled, QuietHolds
  <2>3. CASE ~Return(r)
    <3> DEFINE next == CASE req[r].route = "register" -> "lookup"
                         [] req[r].route = "named" -> "list"
                         [] OTHER -> "find"
    <3>1. req' = [req EXCEPT ![r].stage = next] /\ req[r].stage = "consume"
      BY <1>2, <2>3 DEF Consume
    <3>2. next \in {"lookup", "list", "find"}
      OBVIOUS
    <3>3. req[r].route = "discoverable" => next = "find"
      OBVIOUS
    <3> HIDE DEF next
    <3>4. /\ req'[r].stage = next /\ req'[r].subject = req[r].subject
          /\ req'[r].down = req[r].down
          /\ \A q \in Reqs \ {r} : req'[q] = req[q]
      BY <3>1, <3>2, MovesOn DEF Stage
    <3>5. EntitledInv(r)'
      BY <2>1, <3>1, <3>2, <3>3, <3>4 DEF EntitledInv, AllEntitled
    <3> QED BY <2>1, <3>4, <3>5, EntitledStands, QuietHolds DEF AllEntitled
  <2> QED BY <2>2, <2>3
<1> QED BY <1>1, <1>2

\* The steps of an enrolment that reads.
LEMMA EnrolmentEntitled ==
    ASSUME AllEntitled, NEW r \in Reqs, Lookup(r) \/ Cap(r)
    PROVE  \A q \in Reqs : EntitledInv(q)'
<1> /\ CeremonyInv /\ EntitledInv(r) /\ req[r] \in Request
    /\ req[r].stage \in {"lookup", "cap"} /\ UNCHANGED <<rows, active>>
  BY Given DEF AllEntitled, Lookup, Cap
<1>1. req[r].subject \notin req[r].down /\ req[r].down \cap active = {}
  BY DEF EntitledInv
<1>2. CASE Return(r)
  BY <1>2, ReturnEntitled, QuietHolds
<1>3. ASSUME NEW k \in Creds, NEW n \in Counts,
             req' = [req EXCEPT ![r].stage = "cap", ![r].cred = k, ![r].count = n]
      PROVE  \A q \in Reqs : EntitledInv(q)'
  <2> DEFINE new == [req[r] EXCEPT !.stage = "cap", !.cred = k, !.count = n]
  <2>1. /\ new \in Request /\ new.stage = "cap" /\ new.subject = req[r].subject
        /\ new.down = req[r].down
    BY DEF Request, Stage
  <2>2. req' = [req EXCEPT ![r] = new]
    BY <1>3
  <2> HIDE DEF new
  <2> QED BY <1>1, <2>1, <2>2, BecomesEntitled, QuietHolds
<1>4. CASE WithinCap(req[r].subject) /\ req' = [req EXCEPT ![r].stage = "store", ![r].raced = FALSE]
  <2> DEFINE new == [req[r] EXCEPT !.stage = "store", !.raced = FALSE]
  <2>1. /\ new \in Request /\ new.stage = "store" /\ new.subject = req[r].subject
        /\ new.down = req[r].down
    BY DEF Request, Stage
  <2>2. req' = [req EXCEPT ![r] = new]
    BY <1>4
  <2>3. WithinCap(req[r].subject)'
    <3>1. Held(req[r].subject)' = {i \in RowIds : rows[i].present /\ ~rows[i].revoked
                                                  /\ rows[i].subject = req'[r].subject}
      BY DEF Held
    <3>2. req'[r].subject = req[r].subject
      BY <2>1, <2>2, Becomes
    <3> QED BY <1>4, <3>1, <3>2 DEF WithinCap, Held
  <2> HIDE DEF new
  <2>4. req'[r] = new
    BY <2>1, <2>2, Becomes
  <2> QED BY <1>1, <2>1, <2>2, <2>3, <2>4, BecomesEntitled, QuietHolds
<1> QED BY <1>2, <1>3, <1>4 DEF Lookup, Cap

\* The enrolment that stores a row races those of its subject, and no others.
LEMMA StoreEntitled ==
    ASSUME AllEntitled, NEW r \in Reqs, Store(r)
    PROVE  \A q \in Reqs : EntitledInv(q)'
<1> CeremonyInv /\ active' = active
  BY DEF AllEntitled, Store
<1>1. CASE ~Insertable(r)
  BY <1>1, ReturnEntitled, QuietHolds DEF Store
<1>2. CASE Insertable(r)
  <2> DEFINE row == NewRow(req[r].cred, req[r].subject, req[r].count)
             end == [Fresh EXCEPT !.stage = "done"]
             other(q) == IF req[q].stage = "store" /\ req[q].subject = req[r].subject
                         THEN [req[q] EXCEPT !.raced = TRUE] ELSE req[q]
  <2>1. /\ rows' = [rows EXCEPT ![r] = row]
        /\ req' = [q \in Reqs |-> IF q = r THEN end ELSE other(q)]
    BY <1>2 DEF Store
  <2>2. row.subject = req[r].subject
    <3>1. req[r].cred \in Creds /\ req[r].subject \in Subjects
      BY DEF CeremonyInv, HandlerInv, Store
    <3> QED BY <3>1, RowType, ReqFields, Given
  <2>3. end.stage = "done" /\ end.down = {}
    BY DEF Fresh
  <2>4. ASSUME NEW q \in Reqs
        PROVE  /\ other(q).stage = req[q].stage /\ other(q).route = req[q].route
               /\ other(q).subject = req[q].subject /\ other(q).down = req[q].down
               /\ other(q).raced = req[q].raced \/ other(q).raced
               /\ ~other(q).raced /\ req[q].stage = "store" =>
                    ~req[q].raced /\ req[q].subject # req[r].subject
    <3>1. req[q] \in Request
      BY Given
    <3> QED BY <3>1 DEF Request
  <2> HIDE DEF row, end, other
  <2>5. EntitledInv(r)'
    BY <2>1, <2>3 DEF EntitledInv
  <2>6. ASSUME NEW q \in Reqs \ {r}
        PROVE  EntitledInv(q)'
    <3>1. req'[q] = other(q)
      BY <2>1
    <3>2. /\ req'[q].stage = req[q].stage /\ req'[q].route = req[q].route
          /\ req'[q].subject = req[q].subject /\ req'[q].down = req[q].down
          /\ ~req'[q].raced /\ req[q].stage = "store" =>
               ~req[q].raced /\ req[q].subject # req[r].subject
      BY <2>4, <3>1
    <3>3. req[q].subject # req[r].subject =>
             Held(req[q].subject)' \subseteq Held(req[q].subject)
      <4>1. \A i \in RowIds : rows'[i] = IF i = r THEN row ELSE rows[i]
        BY <2>1, Given
      <4> QED BY <2>2, <3>2, <4>1 DEF Held
    <3>4. WithinCap(req[q].subject) /\ req[q].subject # req[r].subject
             => WithinCap(req[q].subject)'
      <4> DEFINE s == req[q].subject
      <4>1. Held(s)' = {i \in RowIds : rows'[i].present /\ ~rows'[i].revoked
                                        /\ rows'[i].subject = s}
        BY <3>2 DEF Held
      <4> QED BY <3>2, <3>3, CapKept
    <3> QED BY <3>2, <3>4 DEF EntitledInv, AllEntitled
  <2> QED BY <2>5, <2>6
<1> QED BY <1>1, <1>2

\* An assertion works on for the subject it began for, or learns one that is active.
LEMMA AssertionEntitled ==
    ASSUME AllEntitled, NEW r \in Reqs, List(r) \/ Find(r) \/ Subject(r)
    PROVE  \A q \in Reqs : EntitledInv(q)'
<1> /\ CeremonyInv /\ EntitledInv(r) /\ req[r] \in Request /\ UNCHANGED <<rows, active>>
  BY Given DEF AllEntitled, List, Find, Subject
<1>1. CASE Return(r)
  BY <1>1, ReturnEntitled, QuietHolds
<1>2. ASSUME NEW i \in RowIds, NEW n \in Counts, NEW uv \in BOOLEAN, NEW next \in Stage,
             \/ next \in {"touch", "mark", "advance"} /\ req[r].stage = "list"
             \/ next = "subject",
             Validate(r, i, n, uv, next)
      PROVE  \A q \in Reqs : EntitledInv(q)'
  <2> Validate(r, i, n, uv, next)
    BY <1>2
  <2>1. PICK new \in Request :
             /\ req' = [req EXCEPT ![r] = new]
             /\ new.stage = next /\ new.route = req[r].route
             /\ new.chal = req[r].chal /\ new.subject = req[r].subject
             /\ new.row = i /\ new.read = rows[i].count /\ new.count = n
             /\ new.uv = uv /\ new.seen = Len(log) /\ new.down = req[r].down
    BY ValidateFields
  <2> QED BY <1>2, <2>1, BecomesEntitled, QuietHolds DEF EntitledInv
<1>3. CASE List(r) /\ ~Return(r)
  <2>1. PICK i \in RowIds, n \in Counts, uv \in BOOLEAN :
             Validate(r, i, n, uv, Bookkeeping(rows[i].count, n))
    BY <1>3 DEF List, Held
  <2>2. Bookkeeping(rows[i].count, n) \in {"touch", "mark", "advance"}
    BY DEF Bookkeeping
  <2> QED BY <1>2, <1>3, <2>1, <2>2 DEF List, Stage
<1>4. CASE Find(r) /\ ~Return(r)
  <2>1. PICK i \in RowIds, n \in Counts : Validate(r, i, n, TRUE, "subject")
    BY <1>4 DEF Find
  <2>2. "subject" \in Stage /\ TRUE \in BOOLEAN
    BY DEF Stage
  <2> QED BY <1>2, <2>1, <2>2
<1>5. CASE Subject(r) /\ ~Return(r)
  <2> DEFINE s == rows[req[r].row].subject
             next == Bookkeeping(req[r].read, req[r].count)
             new == [req[r] EXCEPT !.subject = s, !.stage = next]
  <2>1. s \in active /\ req' = [req EXCEPT ![r] = new]
    BY <1>5 DEF Subject
  <2>2. next \in {"touch", "mark", "advance"}
    BY DEF Bookkeeping
  <2>3. s \in Subjects
    BY <2>1, Given
  <2> HIDE DEF next, s
  <2>4. /\ new \in Request /\ new.stage = next /\ new.subject = s
        /\ new.down = req[r].down
    BY <2>2, <2>3 DEF Request, Stage
  <2> HIDE DEF new
  <2>5. s \notin req[r].down /\ req[r].down \cap active = {}
    BY <2>1 DEF EntitledInv
  <2> QED BY <2>1, <2>2, <2>4, <2>5, BecomesEntitled, QuietHolds
<1> QED BY <1>1, <1>3, <1>4, <1>5

\* Writing to a row that keeps its owner and is not brought back gives nobody more.
LEMMA WrittenHolds ==
    ASSUME CeremonyInv, NEW i \in RowIds, NEW row \in Row,
           row.present = rows[i].present, row.subject = rows[i].subject,
           rows[i].revoked => row.revoked, rows' = [rows EXCEPT ![i] = row]
    PROVE  LessHeld
BY Given DEF LessHeld

\* The last steps of an assertion.
LEMMA AcceptEntitled ==
    ASSUME AllEntitled, NEW r \in Reqs, Mark(r) \/ Touch(r) \/ Advance(r)
    PROVE  \A q \in Reqs : EntitledInv(q)'
<1> DEFINE i == req[r].row
<1> /\ CeremonyInv /\ EntitledInv(r) /\ req[r] \in Request /\ active' = active
  BY Given DEF AllEntitled, Mark, Touch, Advance
<1>1. i \in RowIds /\ rows[i] \in Row /\ req[r].count \in Counts
  BY Given, ReqFields DEF CeremonyInv, HandlerInv, Verified, Mark, Touch, Advance
<1>2. LessHeld
  <2>1. CASE UNCHANGED rows
    BY <2>1, QuietHolds
  <2>2. CASE rows' = [rows EXCEPT ![i].warned = TRUE]
    <3> DEFINE row == [rows[i] EXCEPT !.warned = TRUE]
    <3>1. /\ row \in Row /\ row.present = rows[i].present
          /\ row.subject = rows[i].subject /\ row.revoked = rows[i].revoked
      BY <1>1 DEF Row
    <3>2. rows' = [rows EXCEPT ![i] = row]
      BY <2>2
    <3> HIDE DEF row
    <3> QED BY <1>1, <3>1, <3>2, WrittenHolds
  <2>3. CASE rows' = [rows EXCEPT ![i].count = req[r].count]
    <3> DEFINE row == [rows[i] EXCEPT !.count = req[r].count]
    <3>1. /\ row \in Row /\ row.present = rows[i].present
          /\ row.subject = rows[i].subject /\ row.revoked = rows[i].revoked
      BY <1>1 DEF Row
    <3>2. rows' = [rows EXCEPT ![i] = row]
      BY <2>3
    <3> HIDE DEF row
    <3> QED BY <1>1, <3>1, <3>2, WrittenHolds
  <2> QED BY <2>1, <2>2, <2>3 DEF Mark, Touch, Advance
<1>3. CASE Return(r)
  BY <1>2, <1>3, ReturnEntitled
<1>4. CASE Mark(r) /\ req' = [req EXCEPT ![r].stage = "touch"]
  <2> DEFINE new == [req[r] EXCEPT !.stage = "touch"]
  <2>1. /\ new \in Request /\ new.stage = "touch" /\ new.subject = req[r].subject
        /\ new.down = req[r].down
    BY DEF Request, Stage
  <2>2. req' = [req EXCEPT ![r] = new]
    BY <1>4
  <2>3. req[r].subject \notin req[r].down /\ req[r].down \cap active = {}
    BY <1>4 DEF Mark, EntitledInv
  <2> HIDE DEF new
  <2> QED BY <1>2, <2>1, <2>2, <2>3, BecomesEntitled
<1> QED BY <1>3, <1>4 DEF Mark, Touch, Advance

\* The steps of a revocation.
LEMMA RevocationEntitled ==
    ASSUME AllEntitled, NEW r \in Reqs,
           \/ \E i \in RowIds, allowLast \in BOOLEAN : RevokeBegin(r, i, allowLast)
           \/ RevokeCount(r) \/ Revoke(r)
    PROVE  \A q \in Reqs : EntitledInv(q)'
<1> /\ CeremonyInv /\ EntitledInv(r) /\ req[r] \in Request /\ active' = active
  BY Given DEF AllEntitled, RevokeBegin, RevokeCount, Revoke
<1>1. ASSUME NEW i \in RowIds, NEW allowLast \in BOOLEAN, RevokeBegin(r, i, allowLast)
      PROVE  \A q \in Reqs : EntitledInv(q)'
  <2> DEFINE new == [Fresh EXCEPT !.stage = "count", !.route = "revoke", !.began = clock,
                                  !.row = i, !.allowLast = allowLast]
  <2>1. /\ new \in Request /\ new.stage = "count" /\ new.down = {}
    <3>1. clock \in Nat /\ Fresh \in Request /\ "revoke" \in Route /\ "count" \in Stage
      BY Given, FreshType DEF Route, Stage
    <3> QED BY <3>1 DEF Request, Fresh
  <2>2. req' = [req EXCEPT ![r] = new] /\ LessHeld
    BY <1>1, QuietHolds DEF RevokeBegin
  <2> HIDE DEF new
  <2> QED BY <2>1, <2>2, BecomesEntitled
<1>2. CASE RevokeCount(r)
  <2>1. CASE Return(r)
    BY <1>2, <2>1, ReturnEntitled, QuietHolds DEF RevokeCount
  <2>2. CASE ~Return(r)
    <3> DEFINE new == [req[r] EXCEPT !.stage = "revoke"]
    <3>1. /\ new \in Request /\ new.stage = "revoke" /\ new.down = req[r].down
      BY DEF Request, Stage
    <3>2. req' = [req EXCEPT ![r] = new] /\ LessHeld
      BY <1>2, <2>2, QuietHolds DEF RevokeCount
    <3>3. req[r].down \cap active = {}
      BY DEF EntitledInv
    <3> HIDE DEF new
    <3> QED BY <3>1, <3>2, <3>3, BecomesEntitled
  <2> QED BY <2>1, <2>2
<1>3. CASE Revoke(r)
  <2> DEFINE i == req[r].row
             row == [rows[i] EXCEPT !.revoked = TRUE]
  <2>1. i \in RowIds /\ rows[i] \in Row
    BY <1>3, Given DEF CeremonyInv, HandlerInv, Revoke
  <2>2. /\ row \in Row /\ row.present = rows[i].present
        /\ row.subject = rows[i].subject /\ row.revoked
    BY <2>1 DEF Row
  <2>3. rows' = [rows EXCEPT ![i] = row]
    BY <1>3 DEF Revoke
  <2> HIDE DEF row
  <2>4. LessHeld
    BY <2>1, <2>2, <2>3, WrittenHolds
  <2> QED BY <1>3, <2>4, ReturnEntitled DEF Revoke
<1> QED BY <1>1, <1>2, <1>3

\* An administrator's bulk revocation and change of status.
LEMMA InterventionEntitled ==
    ASSUME AllEntitled, NEW s \in Subjects, RevokeAll(s) \/ SetStatus(s)
    PROVE  \A q \in Reqs : EntitledInv(q)'
<1> CeremonyInv
  BY DEF AllEntitled
<1>1. CASE RevokeAll(s)
  <2> DEFINE new(i) == IF i \in Held(s) THEN [rows[i] EXCEPT !.revoked = TRUE] ELSE rows[i]
  <2>1. ASSUME NEW i \in RowIds
        PROVE  /\ new(i).present = rows[i].present /\ new(i).subject = rows[i].subject
               /\ rows[i].revoked => new(i).revoked
    <3>1. rows[i] \in Row
      BY Given
    <3> QED BY <3>1 DEF Row
  <2>2. rows' = [i \in RowIds |-> new(i)] /\ UNCHANGED <<active, req>>
    BY <1>1 DEF RevokeAll
  <2> HIDE DEF new
  <2>3. LessHeld
    BY <2>1, <2>2 DEF LessHeld
  <2> QED BY <2>2, <2>3, EntitledStands DEF AllEntitled
<1>2. CASE SetStatus(s)
  <2>1. UNCHANGED rows /\ req' = [q \in Reqs |-> [req[q] EXCEPT !.down = req[q].down \ active']]
    BY <1>2 DEF SetStatus
  <2>2. ASSUME NEW q \in Reqs
        PROVE  EntitledInv(q)'
    <3>1. req[q] \in Request
      BY Given
    <3>2. req'[q] = [req[q] EXCEPT !.down = req[q].down \ active']
      BY <2>1
    <3>3. /\ req'[q].stage = req[q].stage /\ req'[q].route = req[q].route
          /\ req'[q].subject = req[q].subject /\ req'[q].raced = req[q].raced
          /\ req'[q].down = req[q].down \ active'
      BY <3>1, <3>2 DEF Request
    <3>4. WithinCap(req[q].subject) => WithinCap(req[q].subject)'
      BY <2>1, <3>3 DEF WithinCap, Held
    <3> QED BY <3>3, <3>4 DEF EntitledInv, AllEntitled
  <2> QED BY <2>2
<1> QED BY <1>1, <1>2

\* The further invariant holds at the start and every step keeps it.
LEMMA EntitledInvariant ==
    /\ Init => AllEntitled
    /\ AllEntitled /\ [Next]_vars => AllEntitled'
<1>1. Init => AllEntitled
  BY InitCeremony DEF Init, Fresh, EntitledInv, AllEntitled
<1>2. ASSUME AllEntitled, [Next]_vars
      PROVE  \A q \in Reqs : EntitledInv(q)'
  <2>1. CASE UNCHANGED <<active, rows, req>>
    BY <1>2, <2>1, EntitledStands, QuietHolds DEF AllEntitled
  <2>2. ASSUME NEW c \in Challenges,
               \/ \E s \in Subjects : BeginRegistration(c, s) \/ BeginAssertion(c, s)
               \/ BeginDiscoverableAssertion(c)
        PROVE  UNCHANGED <<active, rows, req>>
    BY <2>2 DEF BeginRegistration, BeginAssertion, BeginDiscoverableAssertion, Persist
  <2>3. ASSUME NEW r \in Reqs,
               \/ \E route \in Route, s \in Subjects \cup {Nobody}, c \in Challenges :
                    Complete(r, route, s, c)
               \/ Consume(r)
        PROVE  \A q \in Reqs : EntitledInv(q)'
    BY <1>2, <2>3, EarlyEntitled
  <2>4. ASSUME NEW r \in Reqs, Lookup(r) \/ Cap(r) \/ Store(r)
        PROVE  \A q \in Reqs : EntitledInv(q)'
    BY <1>2, <2>4, EnrolmentEntitled, StoreEntitled
  <2>5. ASSUME NEW r \in Reqs,
               List(r) \/ Find(r) \/ Subject(r) \/ Mark(r) \/ Touch(r) \/ Advance(r)
        PROVE  \A q \in Reqs : EntitledInv(q)'
    BY <1>2, <2>5, AssertionEntitled, AcceptEntitled
  <2>6. ASSUME NEW r \in Reqs,
               \/ \E i \in RowIds, allowLast \in BOOLEAN : RevokeBegin(r, i, allowLast)
               \/ RevokeCount(r) \/ Revoke(r)
        PROVE  \A q \in Reqs : EntitledInv(q)'
    BY <1>2, <2>6, RevocationEntitled
  <2>7. ASSUME NEW s \in Subjects, RevokeAll(s) \/ SetStatus(s)
        PROVE  \A q \in Reqs : EntitledInv(q)'
    BY <1>2, <2>7, InterventionEntitled
  <2>8. Sweep \/ Tick \/ UNCHANGED vars => UNCHANGED <<active, rows, req>>
    BY DEF Sweep, Tick, vars
  <2> QED BY <1>2, <2>1, <2>2, <2>3, <2>4, <2>5, <2>6, <2>7, <2>8 DEF Next
<1> QED BY <1>1, <1>2, NextCeremony DEF AllEntitled

\* The history grows by the ceremony of one request, which inserts its row or accepts
\* an assertion on a row that stands.
Succeeds(r, e) ==
    /\ log' = Append(log, e) /\ e.by = r /\ e.subject = req[r].subject
    /\ e.route = req[r].route /\ e.count = req[r].count /\ e.seen = req[r].seen
    /\ \/ /\ Store(r) /\ Insertable(r) /\ e.row = r /\ e.route = "register"
       \/ /\ Touch(r) /\ Touchable(r) /\ e.row = req[r].row /\ e.route # "register"
       \/ /\ Advance(r) /\ Advanceable(r) /\ e.row = req[r].row /\ e.route # "register"

LEMMA WhoSucceeds ==
    ASSUME CeremonyInv, [Next]_vars, log' # log
    PROVE  \E r \in Reqs, e \in LogEntry : Succeeds(r, e)
<1>1. PICK r \in Reqs : Store(r) \/ Touch(r) \/ Advance(r)
  BY DEF Next, vars, BeginRegistration, BeginAssertion, BeginDiscoverableAssertion,
         Persist, Complete, Consume, Lookup, Cap, List, Find, Subject, Mark,
         RevokeBegin, RevokeCount, Revoke, RevokeAll, SetStatus, Sweep, Tick
<1>2. CASE Store(r)
  <2> DEFINE e == Entry(r, r, req[r].subject)
  <2>1. /\ req[r].stage = "store" /\ req[r].route = "register"
        /\ req[r].subject \in Subjects /\ r \in RowIds
    BY <1>2, Given DEF CeremonyInv, HandlerInv, Store
  <2>2. req[r].count \in Counts /\ req[r].uv \in BOOLEAN /\ req[r].seen \in Nat /\ clock \in Nat
    BY Given, ReqFields
  <2>3. req[r].chal \in Challenges
    BY <2>1 DEF CeremonyInv, SpentInv, Spent
  <2>4. e \in LogEntry /\ e.by = r /\ e.subject = req[r].subject /\ e.row = r
        /\ e.route = "register" /\ e.route = req[r].route /\ e.count = req[r].count
        /\ e.seen = req[r].seen
    BY <2>1, <2>2, <2>3 DEF Entry, LogEntry
  <2>5. Insertable(r) /\ log' = Append(log, e)
    BY <1>2 DEF Store
  <2> HIDE DEF e
  <2> QED BY <1>2, <2>4, <2>5 DEF Succeeds
<1>3. CASE Touch(r) \/ Advance(r)
  <2> DEFINE e == Entry(r, req[r].row, req[r].subject)
  <2>1. /\ e \in LogEntry /\ e.by = r /\ e.subject = req[r].subject
        /\ e.row = req[r].row /\ e.route = req[r].route /\ e.count = req[r].count
        /\ e.seen = req[r].seen
    BY <1>3, AssertionEntry DEF Touch, Advance
  <2>2. req[r].route # "register"
    BY <1>3 DEF CeremonyInv, HandlerInv, Touch, Advance
  <2>3. \/ Touch(r) /\ Touchable(r) /\ log' = Append(log, e)
        \/ Advance(r) /\ Advanceable(r) /\ log' = Append(log, e)
    BY <1>3 DEF Touch, Advance
  <2> HIDE DEF e
  <2> QED BY <2>1, <2>2, <2>3 DEF Succeeds
<1> QED BY <1>1, <1>2, <1>3

\* What one more entry does to the history.
LEMMA LogGrows ==
    ASSUME CeremonyInv, NEW e \in LogEntry, log' = Append(log, e)
    PROVE  /\ Len(log) \in Nat /\ DOMAIN log = 1..Len(log)
           /\ Len(log') = Len(log) + 1 /\ DOMAIN log' = 1..(Len(log) + 1)
           /\ log'[Len(log) + 1] = e
           /\ \A i \in DOMAIN log : log'[i] = log[i] /\ log[i] \in LogEntry
BY Given

\* A row that a success rests on is not revoked when it does.
LEMMA SuccessOnLiveRow ==
    ASSUME CeremonyInv, NEW r \in Reqs, NEW e \in LogEntry, Succeeds(r, e)
    PROVE  ~rows'[e.row].revoked
<1>1. CASE Store(r) /\ Insertable(r) /\ e.row = r
  <2> DEFINE row == NewRow(req[r].cred, req[r].subject, req[r].count)
  <2>1. rows' = [rows EXCEPT ![r] = row] /\ r \in RowIds
    BY <1>1, Given DEF Store
  <2>2. ~row.revoked
    <3>1. req[r].cred \in Creds /\ req[r].subject \in Subjects
      BY <1>1 DEF CeremonyInv, HandlerInv, Store
    <3> QED BY <3>1, RowType, ReqFields, Given
  <2> QED BY <1>1, <2>1, <2>2, Given
<1>2. CASE Touch(r) /\ Touchable(r) /\ e.row = req[r].row
  BY <1>2 DEF Touch, Touchable
<1>3. CASE Advance(r) /\ Advanceable(r) /\ e.row = req[r].row
  <2>1. rows' = [rows EXCEPT ![req[r].row].count = req[r].count] /\ ~rows[req[r].row].revoked
    BY <1>3 DEF Advance, Advanceable
  <2>2. req[r].row \in RowIds /\ rows[req[r].row] \in Row
    BY <1>3, AssertionEntry, Given DEF Advance
  <2> QED BY <1>3, <2>1, <2>2, Given DEF Row
<1> QED BY <1>1, <1>2, <1>3 DEF Succeeds

\* A success is for a subject that was not inactive throughout.
LEMMA SuccessForActive ==
    ASSUME AllEntitled, NEW r \in Reqs, NEW e \in LogEntry, Succeeds(r, e)
    PROVE  e.subject \notin req[e.by].down
BY DEF AllEntitled, Succeeds, EntitledInv, Store, Touch, Advance

\* An enrolment without a race ends within the cap.
LEMMA SuccessWithinCap ==
    ASSUME AllEntitled, NEW r \in Reqs, NEW e \in LogEntry, Succeeds(r, e),
           e.route = "register", ~req[r].raced, NEW s \in Subjects, s = req[r].subject
    PROVE  Cardinality(Held(s)') <= MaxCredentials
<1> CeremonyInv
  BY DEF AllEntitled
<1>1. Store(r) /\ Insertable(r)
  BY DEF Succeeds
<1>2. WithinCap(s)
  BY <1>1 DEF AllEntitled, EntitledInv, Store
<1>3. Held(s)' \subseteq Held(s) \cup {r}
  <2>1. \A i \in RowIds : i # r => rows'[i] = rows[i]
    BY <1>1, Given DEF Store
  <2> QED BY <2>1 DEF Held
<1>4. ASSUME NEW A, NEW B, IsFiniteSet(B), A \subseteq B \cup {r}
      PROVE  /\ Cardinality(A) \in Nat /\ Cardinality(B) \in Nat
             /\ Cardinality(A) <= Cardinality(B) + 1
  <2>1. /\ IsFiniteSet(B \cup {r}) /\ Cardinality(B \cup {r}) \in Nat
        /\ Cardinality(B) \in Nat /\ Cardinality(B \cup {r}) <= Cardinality(B) + 1
    <3>1. Cardinality(B) \in Nat /\ IsFiniteSet(B \cup {r})
      BY <1>4, FS_AddElement, FS_CardinalityType
    <3>2. Cardinality(B \cup {r}) \in {Cardinality(B), Cardinality(B) + 1}
      BY <1>4, FS_AddElement
    <3> QED BY <3>1, <3>2
  <2>2. Cardinality(A) \in Nat /\ Cardinality(A) <= Cardinality(B \cup {r})
    BY <1>4, <2>1, FS_Subset, FS_CardinalityType
  <2> QED BY <2>1, <2>2
<1>5. /\ Cardinality(Held(s)') \in Nat /\ Cardinality(Held(s)) \in Nat
      /\ Cardinality(Held(s)') <= Cardinality(Held(s)) + 1
  BY <1>3, <1>4, HeldIsFinite
<1> QED BY <1>2, <1>5, PasskeyAssumption DEF WithinCap

\* Whatever a request read before, it succeeds only with a credential that stands
\* (TouchCredential, AdvanceSignCount), for a subject that was active at some time
\* since it began, and within the cap unless another enrolment of the subject was
\* stored since checkCredentialCap.
THEOREM OnlyTheEntitled == Spec => OnlyEntitledSucceed
<1> DEFINE Live == \A i \in DOMAIN log' \ DOMAIN log : ~rows'[log'[i].row].revoked
           Unlocked == \A i \in DOMAIN log' \ DOMAIN log :
                         log'[i].subject \notin req[log'[i].by].down
           Capped == \A r \in Reqs :
                       /\ Len(log') > Len(log)
                       /\ log'[Len(log')].by = r
                       /\ log'[Len(log')].route = "register"
                       /\ \E s \in Subjects : s = req[r].subject
                                              /\ Cardinality(Held(s)') > MaxCredentials
                       => req[r].raced
<1>1. AllEntitled /\ [Next]_vars => Live /\ Unlocked /\ Capped
  <2> SUFFICES ASSUME AllEntitled, [Next]_vars
               PROVE  Live /\ Unlocked /\ Capped
    OBVIOUS
  <2> CeremonyInv
    BY DEF AllEntitled
  <2>1. CASE log' = log
    <3>1. Len(log) \in Nat
      BY Given
    <3> QED BY <2>1, <3>1
  <2>2. CASE log' # log
    <3>1. PICK r \in Reqs, e \in LogEntry : Succeeds(r, e)
      BY <2>2, WhoSucceeds
    <3>2. log' = Append(log, e) /\ e.by = r
      BY <3>1 DEF Succeeds
    <3>3. /\ Len(log) \in Nat /\ DOMAIN log = 1..Len(log)
          /\ Len(log') = Len(log) + 1 /\ DOMAIN log' = 1..(Len(log) + 1)
          /\ log'[Len(log) + 1] = e
      BY <3>2, LogGrows
    <3>4. \A i \in DOMAIN log' \ DOMAIN log : log'[i] = e
      BY <3>3
    <3>5. Live /\ Unlocked
      BY <3>1, <3>4, SuccessOnLiveRow, SuccessForActive
    <3>6. Capped
      <4> SUFFICES ASSUME NEW q \in Reqs, e.by = q, e.route = "register", ~req[q].raced,
                          NEW s \in Subjects, s = req[q].subject
                   PROVE  ~(Cardinality(Held(s)') > MaxCredentials)
        BY <3>3
      <4>1. Cardinality(Held(s)') <= MaxCredentials
        BY <3>1, <3>2, SuccessWithinCap
      <4>2. IsFiniteSet(Held(s)')
        <5>1. IsFiniteSet(RowIds) /\ Held(s)' \subseteq RowIds
          BY PasskeyAssumption, FS_Union DEF RowIds, Held
        <5> QED BY <5>1, FS_Subset
      <4>3. Cardinality(Held(s)') \in Nat
        BY <4>2, FS_CardinalityType
      <4> QED BY <4>1, <4>3, PasskeyAssumption
    <3> QED BY <3>5, <3>6
  <2> QED BY <2>1, <2>2
<1> HIDE DEF Live, Unlocked, Capped
<1>2. AllEntitled /\ [Next]_vars => [Live /\ Unlocked /\ Capped]_vars
  BY <1>1
<1>3. Spec => [][Live /\ Unlocked /\ Capped]_vars
  BY <1>2, EntitledInvariant, PTL DEF Spec
<1>4. [][Live /\ Unlocked /\ Capped]_vars
        => [][Live]_vars /\ [][Unlocked]_vars /\ [][Capped]_vars
  BY PTL
<1> QED
  BY <1>3, <1>4 DEF OnlyEntitledSucceed, RevokedAuthenticatesNothing, LockedGetsNothing,
                    CapPassedOnlyByRace, Live, Unlocked, Capped

-----------------------------------------------------------------------------
(* Signature counters.                                                     *)

\* No row's counter goes down and no warning is taken back.
RowsGrow ==
    \A i \in RowIds : rows[i].present =>
        /\ rows[i].count <= rows'[i].count
        /\ rows[i].warned => rows'[i].warned

\* Counters are numbers.
LEMMA CountsAreNumbers ==
    ASSUME CeremonyInv
    PROVE  /\ Counts \subseteq Nat /\ \A i \in RowIds : rows[i].count \in Nat
           /\ \A r \in Reqs : req[r].count \in Nat /\ req[r].read \in Nat
                              /\ req[r].seen \in Nat
           /\ \A i \in DOMAIN log : log[i].count \in Nat /\ log[i].seen \in Nat
                                   /\ log[i].row \in RowIds /\ rows[log[i].row].present
<1>1. Counts \subseteq Nat
  BY PasskeyAssumption DEF Counts
<1>2. \A i \in RowIds : rows[i] \in Row
  BY Given
<1>3. \A i \in DOMAIN log : log[i] \in LogEntry
  BY Given
<1>4. \A i \in DOMAIN log : rows[log[i].row].present
  BY DEF CeremonyInv, LogInv
<1> QED BY <1>1, <1>2, <1>3, <1>4, ReqFields, Given DEF Row, LogEntry

\* At most one ceremony ends in a step.
HistoryExtends == log' = log \/ \E e \in LogEntry : log' = Append(log, e)

LEMMA HistoryLengths ==
    ASSUME CeremonyInv, HistoryExtends
    PROVE  /\ Len(log) \in Nat /\ DOMAIN log = 1..Len(log)
           /\ Len(log') \in Nat /\ DOMAIN log' = 1..Len(log') /\ Len(log) <= Len(log')
           /\ \A i \in DOMAIN log : log'[i] = log[i]
BY Given, LogGrows DEF HistoryExtends

\* What a verified assertion knows stays true while it stands and the history grows.
LEMMA CounterStands ==
    ASSUME CeremonyInv, CeremonyInv', RowsGrow, refuse' = refuse, NEW q \in Reqs, Stands(q),
           CounterInv(q), HistoryExtends
    PROVE  CounterInv(q)'
<1>1. /\ Len(log) \in Nat /\ DOMAIN log = 1..Len(log)
      /\ Len(log') \in Nat /\ DOMAIN log' = 1..Len(log') /\ Len(log) <= Len(log')
      /\ \A i \in DOMAIN log : log'[i] = log[i]
  BY HistoryLengths
<1>2. CASE Verified(q)
  <2>1. req[q].row \in RowIds /\ rows[req[q].row].present
    BY <1>2 DEF CeremonyInv, HandlerInv
  <2>2. /\ req[q].read \in Nat /\ req[q].seen \in Nat /\ rows[req[q].row].count \in Nat
    BY <2>1, CountsAreNumbers
  <2>3. rows'[req[q].row].count \in Nat
    <3>1. rows' \in [RowIds -> Row]
      BY DEF CeremonyInv, Types, TypeOK
    <3> QED BY <2>1, <3>1, CountsAreNumbers DEF Row
  <2>4. /\ req[q].seen <= Len(log) /\ req[q].read <= rows[req[q].row].count
        /\ \A i \in DOMAIN log :
             i <= req[q].seen /\ log[i].row = req[q].row => log[i].count <= req[q].read
    BY <1>2 DEF CounterInv
  <2>5. /\ req[q].seen <= Len(log') /\ req[q].read <= rows'[req[q].row].count
    <3>1. req[q].seen <= Len(log')
      BY <1>1, <2>2, <2>4
    <3>2. rows[req[q].row].count <= rows'[req[q].row].count
      BY <2>1 DEF RowsGrow
    <3> QED BY <2>2, <2>3, <2>4, <3>1, <3>2
  <2>6. ASSUME NEW i \in DOMAIN log', i <= req[q].seen, log'[i].row = req[q].row
        PROVE  log'[i].count <= req[q].read
    <3>1. i \in 1..Len(log')
      BY <1>1
    <3>2. i \in 1..Len(log)
      BY <1>1, <2>2, <2>4, <2>6, <3>1
    <3> QED BY <1>1, <2>4, <2>6, <3>2
  <2>7. rows[req[q].row].warned => rows'[req[q].row].warned
    BY <2>1 DEF RowsGrow
  <2> QED BY <2>5, <2>6, <2>7 DEF CounterInv, Verified, Stands
<1>3. CASE ~Verified(q)
  BY <1>3 DEF CounterInv, Verified, Stands
<1> QED BY <1>2, <1>3

\* The history stays in order while no ceremony ends.
LEMMA HistoryStands ==
    ASSUME AllCounted, RowsGrow, UNCHANGED <<refuse, log>>, rows' \in [RowIds -> Row]
    PROVE  HighestKept' /\ CountersHeeded'
<1> CeremonyInv
  BY DEF AllCounted
<1>1. \A i \in DOMAIN log : /\ log[i].row \in RowIds /\ rows[log[i].row].present
                           /\ log[i].count \in Nat /\ rows[log[i].row].count \in Nat
  BY CountsAreNumbers
<1>2. \A i \in RowIds : rows'[i].count \in Nat
  BY CountsAreNumbers DEF Row
<1>3. HighestKept'
  <2> SUFFICES ASSUME NEW i \in DOMAIN log
               PROVE  log[i].count <= rows'[log[i].row].count
    BY DEF HighestKept
  <2>1. log[i].count <= rows[log[i].row].count
    BY DEF AllCounted, HighestKept
  <2> QED BY <1>1, <1>2, <2>1 DEF RowsGrow
<1>4. CloneIsSignalled'
  <2> SUFFICES ASSUME NEW i \in DOMAIN log, NEW j \in DOMAIN log,
                      SameKey(i, j), log[i].count # 0,
                      \/ log[j].count = log[i].count
                      \/ log[j].count < log[i].count /\ i <= log[j].seen
               PROVE  rows'[log[j].row].warned
    BY DEF CloneIsSignalled, SameKey
  <2>1. rows[log[j].row].warned
    BY DEF AllCounted, CountersHeeded, CloneIsSignalled
  <2> QED BY <1>1, <2>1 DEF RowsGrow
<1>5. RegressionRefused'
  BY DEF AllCounted, CountersHeeded, RegressionRefused, SameKey
<1> QED BY <1>3, <1>4, <1>5 DEF CountersHeeded

\* The history stays in order when an entry is added whose counter is the row's at most,
\* went up or was recorded, and did not go back where that is refused.
LEMMA HistoryGrows ==
    ASSUME AllCounted, RowsGrow, UNCHANGED refuse, rows' \in [RowIds -> Row],
           NEW e \in LogEntry, log' = Append(log, e),
           e.count <= rows'[e.row].count,
           e.route # "register" =>
             \A i \in DOMAIN log : log[i].row = e.row =>
               /\ \/ rows'[e.row].warned
                  \/ log[i].count = 0
                  \/ log[i].count # e.count /\ (i <= e.seen => log[i].count <= e.count)
               /\ refuse /\ i <= e.seen => log[i].count <= e.count
    PROVE  HighestKept' /\ CountersHeeded'
<1> CeremonyInv
  BY DEF AllCounted
<1>1. /\ Len(log) \in Nat /\ DOMAIN log = 1..Len(log)
      /\ DOMAIN log' = 1..(Len(log) + 1) /\ log'[Len(log) + 1] = e
      /\ \A i \in DOMAIN log : log'[i] = log[i]
  BY LogGrows
<1>2. \A i \in DOMAIN log : /\ log[i].row \in RowIds /\ rows[log[i].row].present
                           /\ log[i].count \in Nat /\ rows[log[i].row].count \in Nat
  BY CountsAreNumbers
<1>3. \A i \in RowIds : rows'[i].count \in Nat
  BY CountsAreNumbers DEF Row
<1>4. e.count \in Nat
  BY CountsAreNumbers DEF LogEntry
<1>5. HighestKept'
  <2> SUFFICES ASSUME NEW i \in DOMAIN log'
               PROVE  log'[i].count <= rows'[log'[i].row].count
    BY DEF HighestKept
  <2>1. CASE i \in DOMAIN log
    <3>1. log[i].count <= rows[log[i].row].count
      BY <2>1 DEF AllCounted, HighestKept
    <3> QED BY <1>1, <1>2, <1>3, <2>1, <3>1 DEF RowsGrow
  <2>2. CASE i = Len(log) + 1
    BY <1>1, <2>2
  <2> QED BY <1>1, <2>1, <2>2
<1>6. CloneIsSignalled'
  <2> SUFFICES ASSUME NEW i \in DOMAIN log', NEW j \in DOMAIN log',
                      i < j, log'[i].row = log'[j].row, log'[j].route # "register",
                      log'[i].count # 0,
                      \/ log'[j].count = log'[i].count
                      \/ log'[j].count < log'[i].count /\ i <= log'[j].seen
               PROVE  rows'[log'[j].row].warned
    BY DEF CloneIsSignalled, SameKey
  <2>1. i \in DOMAIN log /\ log'[i] = log[i]
    BY <1>1
  <2>2. CASE j \in DOMAIN log
    <3>1. rows[log[j].row].warned
      BY <1>1, <2>1, <2>2 DEF AllCounted, CountersHeeded, CloneIsSignalled, SameKey
    <3> QED BY <1>1, <1>2, <2>2, <3>1 DEF RowsGrow
  <2>3. CASE j = Len(log) + 1
    <3>1. log'[j] = e
      BY <1>1, <2>3
    <3>2. \/ rows'[e.row].warned \/ log[i].count = 0
          \/ log[i].count # e.count /\ (i <= e.seen => log[i].count <= e.count)
      BY <2>1, <3>1
    <3> QED BY <1>2, <1>4, <2>1, <3>1, <3>2
  <2> QED BY <1>1, <2>2, <2>3
<1>7. RegressionRefused'
  <2> SUFFICES ASSUME refuse, NEW i \in DOMAIN log', NEW j \in DOMAIN log',
                      i < j, log'[i].row = log'[j].row, log'[j].route # "register",
                      i <= log'[j].seen
               PROVE  log'[j].count >= log'[i].count
    BY DEF RegressionRefused, SameKey
  <2>1. i \in DOMAIN log /\ log'[i] = log[i]
    BY <1>1
  <2>2. CASE j \in DOMAIN log
    BY <1>1, <2>1, <2>2 DEF AllCounted, CountersHeeded, RegressionRefused, SameKey
  <2>3. CASE j = Len(log) + 1
    <3>1. log'[j] = e
      BY <1>1, <2>3
    <3> QED BY <1>2, <1>4, <2>1, <3>1
  <2> QED BY <1>1, <2>2, <2>3
<1> QED BY <1>5, <1>6, <1>7 DEF CountersHeeded

\* A step of one request keeps the invariant when that request knows what it must.
LEMMA CountedBy ==
    ASSUME AllCounted, CeremonyInv', RowsGrow, refuse' = refuse, HistoryExtends,
           NEW r \in Reqs, \A q \in Reqs \ {r} : Stands(q), CounterInv(r)',
           HighestKept' /\ CountersHeeded'
    PROVE  AllCounted'
BY CounterStands DEF AllCounted

\* A step that ends no ceremony, likewise.
LEMMA QuietlyCounted ==
    ASSUME AllCounted, CeremonyInv', RowsGrow, UNCHANGED <<refuse, log>>,
           NEW r \in Reqs, \A q \in Reqs \ {r} : Stands(q), CounterInv(r)'
    PROVE  AllCounted'
<1>1. rows' \in [RowIds -> Row]
  BY DEF CeremonyInv, Types, TypeOK
<1> QED BY <1>1, CountedBy, HistoryStands DEF HistoryExtends

\* A request that has verified nothing, or is over, has no counter to know of.
LEMMA KnowsNoCounter ==
    ASSUME NEW r \in Reqs, req'[r].stage \notin {"subject", "mark", "touch", "advance"}
    PROVE  CounterInv(r)'
BY DEF CounterInv, Verified

\* No counter goes down when no row is written.
LEMMA QuietGrows ==
    ASSUME CeremonyInv, UNCHANGED rows
    PROVE  RowsGrow
BY CountsAreNumbers DEF RowsGrow

\* Writing to one row takes back no warning and no counter, if the new record does not.
LEMMA WrittenGrows ==
    ASSUME CeremonyInv, NEW i \in RowIds, NEW row \in Row,
           rows[i].count <= row.count, rows[i].warned => row.warned,
           rows' = [rows EXCEPT ![i] = row]
    PROVE  RowsGrow
<1>1. rows'[i] = row /\ \A j \in RowIds \ {i} : rows'[j] = rows[j]
  BY Given
<1>2. \A j \in RowIds : rows[j].count <= rows[j].count
  BY CountsAreNumbers
<1> QED BY <1>1, <1>2 DEF RowsGrow

\* The steps that read or write no counter.
LEMMA OtherStepsCounted ==
    ASSUME AllCounted, CeremonyInv', NEW r \in Reqs,
           \/ \E route \in Route, s \in Subjects \cup {Nobody}, c \in Challenges :
                Complete(r, route, s, c)
           \/ Consume(r) \/ Lookup(r) \/ Cap(r)
           \/ \E i \in RowIds, allowLast \in BOOLEAN : RevokeBegin(r, i, allowLast)
           \/ RevokeCount(r)
           \/ Return(r) /\ UNCHANGED <<refuse, rows, log>>
    PROVE  AllCounted'
<1> CeremonyInv
  BY DEF AllCounted
<1>1. UNCHANGED <<refuse, rows, log>>
  BY DEF Complete, Consume, Lookup, Cap, RevokeBegin, RevokeCount
<1>2. \A q \in Reqs \ {r} : req'[q] = req[q]
  BY Given DEF Complete, Consume, Lookup, Cap, RevokeBegin, RevokeCount, Return
<1>3. req'[r].stage \notin {"subject", "mark", "touch", "advance"}
  <2>1. CASE Return(r)
    BY <2>1, ReturnField, Given
  <2>2. ASSUME NEW next \in {"lookup", "list", "find", "revoke"},
               req' = [req EXCEPT ![r].stage = next]
        PROVE  req'[r].stage = next
    <3>1. next \in Stage /\ req' = [req EXCEPT ![r].stage = next]
      BY <2>2 DEF Stage
    <3> QED BY <3>1, MovesOn
  <2>3. ASSUME NEW route \in Route, NEW s \in Subjects \cup {Nobody}, NEW c \in Challenges,
               Complete(r, route, s, c)
        PROVE  req'[r].stage = "consume"
    BY <2>3, Given DEF Complete, Fresh
  <2>4. ASSUME NEW i \in RowIds, NEW allowLast \in BOOLEAN, RevokeBegin(r, i, allowLast)
        PROVE  req'[r].stage = "count"
    BY <2>4, Given DEF RevokeBegin, Fresh
  <2>5. CASE Consume(r)
    <3> DEFINE next == CASE req[r].route = "register" -> "lookup"
                         [] req[r].route = "named" -> "list"
                         [] OTHER -> "find"
    <3>1. next \in {"lookup", "list", "find"}
      OBVIOUS
    <3>2. Return(r) \/ req' = [req EXCEPT ![r].stage = next]
      BY <2>5 DEF Consume
    <3> HIDE DEF next
    <3> QED BY <2>1, <2>2, <3>1, <3>2
  <2>6. CASE Lookup(r) \/ Cap(r)
    <3>1. req[r] \in Request
      BY Given
    <3>2. ASSUME NEW k \in Creds, NEW n \in Counts,
                 req' = [req EXCEPT ![r].stage = "cap", ![r].cred = k, ![r].count = n]
          PROVE  req'[r].stage = "cap"
      BY <3>1, <3>2, Given DEF Request
    <3>3. CASE req' = [req EXCEPT ![r].stage = "store", ![r].raced = FALSE]
      <4>1. req'[r].stage = "store"
        BY <3>1, <3>3, Given DEF Request
      <4> QED BY <4>1
    <3> QED BY <2>1, <2>6, <3>2, <3>3 DEF Lookup, Cap
  <2>7. CASE RevokeCount(r)
    BY <2>1, <2>2, <2>7 DEF RevokeCount
  <2> QED BY <2>1, <2>3, <2>4, <2>5, <2>6, <2>7
<1> QED
  BY <1>1, <1>2, <1>3, KnowsNoCounter, QuietGrows, QuietlyCounted DEF Stands

\* A verified assertion knows the counters that were accepted before.
LEMMA ValidateCounted ==
    ASSUME AllCounted, CeremonyInv', NEW r \in Reqs, NEW i \in RowIds, NEW n \in Counts,
           NEW uv \in BOOLEAN, NEW next \in Stage, Validate(r, i, n, uv, next),
           next = "subject" \/ next = Bookkeeping(rows[i].count, n),
           UNCHANGED <<refuse, rows, log>>
    PROVE  AllCounted'
<1> CeremonyInv
  BY DEF AllCounted
<1>1. PICK new \in Request :
             /\ req' = [req EXCEPT ![r] = new]
             /\ new.stage = next /\ new.route = req[r].route
             /\ new.chal = req[r].chal /\ new.subject = req[r].subject
             /\ new.row = i /\ new.read = rows[i].count /\ new.count = n
             /\ new.uv = uv /\ new.seen = Len(log) /\ new.down = req[r].down
  BY ValidateFields
<1>2. req'[r] = new /\ \A q \in Reqs \ {r} : Stands(q)
  BY <1>1, Becomes
<1>3. /\ Len(log) \in Nat /\ rows[i].count \in Nat /\ n \in Nat
  BY Given, CountsAreNumbers
<1>4. \A j \in DOMAIN log : log[j].row = i => log[j].count <= rows[i].count
  BY DEF AllCounted, HighestKept
<1>5. /\ next = "mark" => n <= rows[i].count
      /\ next = "touch" => n = 0 /\ rows[i].count = 0
  BY DEF Bookkeeping
<1>6. CounterInv(r)'
  BY <1>1, <1>2, <1>3, <1>4, <1>5 DEF CounterInv
<1> QED BY <1>2, <1>6, QuietGrows, QuietlyCounted

\* The steps of an assertion that read.
LEMMA AssertionCounted ==
    ASSUME AllCounted, CeremonyInv', NEW r \in Reqs, List(r) \/ Find(r) \/ Subject(r)
    PROVE  AllCounted'
<1> CeremonyInv /\ UNCHANGED <<refuse, rows, log>> /\ req[r] \in Request
  BY Given DEF AllCounted, List, Find, Subject
<1>1. CASE Return(r)
  BY <1>1, OtherStepsCounted
<1>2. CASE List(r) /\ ~Return(r)
  <2>1. PICK i \in RowIds, n \in Counts, uv \in BOOLEAN :
             Validate(r, i, n, uv, Bookkeeping(rows[i].count, n))
    BY <1>2 DEF List, Held
  <2>2. Bookkeeping(rows[i].count, n) \in Stage
    BY DEF Bookkeeping, Stage
  <2> QED BY <2>1, <2>2, ValidateCounted
<1>3. CASE Find(r) /\ ~Return(r)
  <2>1. PICK i \in RowIds, n \in Counts : Validate(r, i, n, TRUE, "subject")
    BY <1>3 DEF Find
  <2>2. "subject" \in Stage /\ TRUE \in BOOLEAN
    BY DEF Stage
  <2> QED BY <2>1, <2>2, ValidateCounted
<1>4. CASE Subject(r) /\ ~Return(r)
  <2> DEFINE s == rows[req[r].row].subject
             next == Bookkeeping(req[r].read, req[r].count)
             new == [req[r] EXCEPT !.subject = s, !.stage = next]
  <2>1. s \in Subjects /\ req' = [req EXCEPT ![r] = new] /\ req[r].stage = "subject"
    BY <1>4, Given DEF Subject
  <2>2. /\ next \in {"touch", "mark", "advance"}
        /\ next = "mark" => req[r].count <= req[r].read
        /\ next = "touch" => req[r].count = 0 /\ req[r].read = 0
    BY DEF Bookkeeping
  <2> HIDE DEF next, s
  <2>3. /\ new \in Request /\ new.stage = next /\ new.row = req[r].row
        /\ new.read = req[r].read /\ new.count = req[r].count /\ new.seen = req[r].seen
    BY <2>1, <2>2 DEF Request, Stage
  <2> HIDE DEF new
  <2>4. req'[r] = new /\ \A q \in Reqs \ {r} : Stands(q)
    BY <2>1, <2>3, Becomes
  <2>5. CounterInv(r)
    BY DEF AllCounted
  <2>6. CounterInv(r)'
    BY <2>1, <2>2, <2>3, <2>4, <2>5, CountsAreNumbers DEF CounterInv, Verified
  <2> QED BY <2>4, <2>6, QuietGrows, QuietlyCounted
<1> QED BY <1>1, <1>2, <1>3, <1>4

\* A counter that did not go up is recorded, and accepted only where it may be.
LEMMA MarkCounted ==
    ASSUME AllCounted, CeremonyInv', NEW r \in Reqs, Mark(r)
    PROVE  AllCounted'
<1> DEFINE i == req[r].row
           row == [rows[i] EXCEPT !.warned = TRUE]
<1> CeremonyInv /\ CounterInv(r)
  BY DEF AllCounted
<1>1. /\ i \in RowIds /\ rows[i] \in Row /\ req[r].stage = "mark"
      /\ req[r].count \in Nat /\ req[r].read \in Nat /\ rows[i].count \in Nat
  BY Given, CountsAreNumbers DEF CeremonyInv, HandlerInv, Verified, Mark
<1>2. row \in Row /\ row.count = rows[i].count /\ row.warned
  BY <1>1 DEF Row
<1>3. rows' = [rows EXCEPT ![i] = row] /\ UNCHANGED <<refuse, log>>
  BY DEF Mark
<1> HIDE DEF row
<1>4. RowsGrow
  <2>1. rows[i].count <= row.count /\ (rows[i].warned => row.warned)
    BY <1>1, <1>2
  <2> QED BY <1>1, <1>2, <1>3, <2>1, WrittenGrows
<1>5. rows'[i].warned /\ rows'[i].count = rows[i].count
  BY <1>1, <1>2, <1>3, Given
<1>6. CASE Return(r)
  BY <1>3, <1>4, <1>6, ReturnField, KnowsNoCounter, QuietlyCounted, Given
<1>7. CASE ~Regressed(r) /\ req' = [req EXCEPT ![r].stage = "touch"]
  <2> DEFINE next == "touch"
  <2> next \in Stage /\ req' = [req EXCEPT ![r].stage = next] /\ next = "touch"
    BY <1>7 DEF Stage
  <2> HIDE DEF next
  <2>1. /\ req'[r].stage = "touch" /\ req'[r].row = i /\ req'[r].read = req[r].read
        /\ req'[r].count = req[r].count /\ req'[r].seen = req[r].seen
        /\ \A q \in Reqs \ {r} : Stands(q)
    BY MovesOn
  <2>2. refuse => req[r].read = 0 \/ req[r].count >= req[r].read
    BY <1>1, <1>7 DEF Regressed
  <2>3. CounterInv(r)'
    BY <1>1, <1>3, <1>5, <2>1, <2>2 DEF CounterInv, Verified
  <2> QED BY <1>3, <1>4, <2>1, <2>3, QuietlyCounted
<1> QED BY <1>6, <1>7 DEF Mark

\* An assertion whose counter did not go up is accepted after it was recorded.
LEMMA TouchCounted ==
    ASSUME AllCounted, CeremonyInv', NEW r \in Reqs, Touch(r)
    PROVE  AllCounted'
<1> CeremonyInv /\ CounterInv(r)
  BY DEF AllCounted
<1>1. CASE ~Touchable(r)
  BY <1>1, OtherStepsCounted DEF Touch
<1>2. CASE Touchable(r)
  <2> DEFINE i == req[r].row
             e == Entry(r, i, req[r].subject)
  <2>1. /\ e \in LogEntry /\ e.route = req[r].route /\ e.row = i
        /\ e.count = req[r].count /\ e.seen = req[r].seen /\ i \in RowIds
    BY AssertionEntry DEF Touch
  <2>2. log' = Append(log, e) /\ UNCHANGED <<refuse, rows>> /\ req[r].stage = "touch"
    BY <1>2 DEF Touch
  <2> HIDE DEF e
  <2>3. /\ req[r].count \in Nat /\ req[r].read \in Nat /\ rows[i].count \in Nat
        /\ \A j \in DOMAIN log : log[j].count \in Nat
    BY <2>1, CountsAreNumbers
  <2>4. /\ req[r].count <= req[r].read /\ req[r].read <= rows[i].count
        /\ req[r].read = 0 \/ rows[i].warned
        /\ refuse => req[r].read = 0 \/ req[r].count >= req[r].read
        /\ \A j \in DOMAIN log :
             j <= req[r].seen /\ log[j].row = i => log[j].count <= req[r].read
    BY <2>2 DEF CounterInv, Verified
  <2>5. RowsGrow
    BY <2>2, QuietGrows
  <2>6. ASSUME NEW j \in DOMAIN log, log[j].row = i
        PROVE  \/ rows[i].warned \/ log[j].count = 0
               \/ log[j].count # e.count /\ (j <= e.seen => log[j].count <= e.count)
    <3>1. CASE rows[i].warned
      BY <3>1
    <3>2. CASE ~rows[i].warned
      <4>1. req[r].read = 0 /\ req[r].count = 0
        BY <2>3, <2>4, <3>2
      <4>2. j <= e.seen => log[j].count <= e.count
        BY <2>1, <2>4, <2>6, <4>1
      <4> QED BY <2>1, <4>1, <4>2
    <3> QED BY <3>1, <3>2
  <2>7. ASSUME NEW j \in DOMAIN log, log[j].row = i, refuse, j <= e.seen
        PROVE  log[j].count <= e.count
    <3>1. log[j].count <= req[r].read
      BY <2>1, <2>4, <2>7
    <3>2. req[r].read <= req[r].count
      BY <2>3, <2>4, <2>7
    <3> QED BY <2>1, <2>3, <3>1, <3>2
  <2>8. e.count <= rows[i].count
    BY <2>1, <2>3, <2>4
  <2>9. HighestKept' /\ CountersHeeded'
    BY <2>1, <2>2, <2>5, <2>6, <2>7, <2>8, HistoryGrows, Given
  <2>10. /\ req'[r].stage = "done" /\ \A q \in Reqs \ {r} : Stands(q)
    BY ReturnField, Given DEF Touch
  <2> QED BY <2>1, <2>2, <2>5, <2>9, <2>10, KnowsNoCounter, CountedBy DEF HistoryExtends
<1> QED BY <1>1, <1>2

\* A counter that goes up passes every one accepted for the row, whatever was read.
LEMMA AdvanceCounted ==
    ASSUME AllCounted, CeremonyInv', NEW r \in Reqs, Advance(r)
    PROVE  AllCounted'
<1> CeremonyInv
  BY DEF AllCounted
<1>1. CASE ~Advanceable(r)
  BY <1>1, OtherStepsCounted DEF Advance
<1>2. CASE Advanceable(r)
  <2> DEFINE i == req[r].row
             row == [rows[i] EXCEPT !.count = req[r].count]
             e == Entry(r, i, req[r].subject)
  <2>1. /\ e \in LogEntry /\ e.row = i /\ e.count = req[r].count /\ i \in RowIds
    BY AssertionEntry DEF Advance
  <2>2. /\ log' = Append(log, e) /\ rows' = [rows EXCEPT ![i] = row] /\ refuse' = refuse
        /\ req[r].count > rows[i].count
    BY <1>2 DEF Advance, Advanceable
  <2>3. /\ req[r].count \in Nat /\ rows[i].count \in Nat /\ rows[i] \in Row
        /\ req[r].count \in Counts /\ \A j \in DOMAIN log : log[j].count \in Nat
    BY <2>1, CountsAreNumbers, ReqFields, Given
  <2>4. row \in Row /\ row.count = req[r].count /\ row.warned = rows[i].warned
    BY <2>3 DEF Row
  <2> HIDE DEF e, row
  <2>5. RowsGrow
    <3>1. rows[i].count <= row.count /\ (rows[i].warned => row.warned)
      BY <2>2, <2>3, <2>4
    <3> QED BY <2>1, <2>2, <2>4, <3>1, WrittenGrows
  <2>6. rows'[i] = row /\ rows' \in [RowIds -> Row]
    BY <2>1, <2>2, <2>4, Given
  <2>7. \A j \in DOMAIN log : log[j].row = i => log[j].count <= rows[i].count
    BY DEF AllCounted, HighestKept
  <2>8. ASSUME NEW j \in DOMAIN log, log[j].row = e.row
        PROVE  log[j].count # e.count /\ log[j].count <= e.count
    BY <2>1, <2>2, <2>3, <2>7, <2>8
  <2>9. e.count <= rows'[e.row].count
    BY <2>1, <2>3, <2>4, <2>6
  <2>10. HighestKept' /\ CountersHeeded'
    BY <2>1, <2>2, <2>5, <2>6, <2>8, <2>9, HistoryGrows
  <2>11. /\ req'[r].stage = "done" /\ \A q \in Reqs \ {r} : Stands(q)
    BY ReturnField, Given DEF Advance
  <2> QED BY <2>1, <2>2, <2>5, <2>10, <2>11, KnowsNoCounter, CountedBy DEF HistoryExtends
<1> QED BY <1>1, <1>2

\* A new row starts with the counter its enrolment presented.
LEMMA StoreCounted ==
    ASSUME AllCounted, CeremonyInv', NEW r \in Reqs, Store(r)
    PROVE  AllCounted'
<1> CeremonyInv
  BY DEF AllCounted
<1>1. CASE ~Insertable(r)
  BY <1>1, OtherStepsCounted DEF Store
<1>2. CASE Insertable(r)
  <2> DEFINE row == NewRow(req[r].cred, req[r].subject, req[r].count)
             end == [Fresh EXCEPT !.stage = "done"]
             other(q) == IF req[q].stage = "store" /\ req[q].subject = req[r].subject
                         THEN [req[q] EXCEPT !.raced = TRUE] ELSE req[q]
  <2>1. /\ rows' = [rows EXCEPT ![r] = row] /\ refuse' = refuse /\ log' # log
        /\ req' = [q \in Reqs |-> IF q = r THEN end ELSE other(q)]
    <3>1. log' # log
      <4>1. log' = Append(log, Entry(r, r, req[r].subject)) /\ log \in Seq(LogEntry)
        BY <1>2, Given DEF Store
      <4>2. ASSUME NEW e, NEW l \in Seq(LogEntry)
            PROVE  Append(l, e) # l
        <5>1. Len(Append(l, e)) = Len(l) + 1 /\ Len(l) \in Nat
          OBVIOUS
        <5> QED BY <5>1
      <4> QED BY <4>1, <4>2
    <3> QED BY <1>2, <3>1 DEF Store
  <2>2. ASSUME NEW q \in Reqs
        PROVE  /\ other(q).stage = req[q].stage
               /\ other(q).route = req[q].route /\ other(q).subject = req[q].subject
               /\ other(q).chal = req[q].chal /\ other(q).cred = req[q].cred
               /\ other(q).row = req[q].row /\ other(q).uv = req[q].uv
               /\ other(q).read = req[q].read /\ other(q).count = req[q].count
               /\ other(q).seen = req[q].seen
    <3>1. req[q] \in Request
      BY Given
    <3> QED BY <3>1 DEF Request
  <2>3. end.stage = "done"
    BY DEF Fresh
  <2> HIDE DEF end, other
  <2>4. req'[r].stage = "done" /\ \A q \in Reqs \ {r} : Stands(q)
    BY <2>1, <2>2, <2>3 DEF Stands
  <2>5. /\ r \in RowIds /\ ~rows[r].present /\ req[r].route = "register"
        /\ req[r].cred \in Creds /\ req[r].subject \in Subjects
    BY Given DEF CeremonyInv, HandlerInv, RowsInv, Store
  <2>6. row \in Row /\ row.count = req[r].count
    BY <2>5, RowType, ReqFields, Given
  <2> HIDE DEF row
  <2>7. rows'[r] = row /\ \A i \in RowIds \ {r} : rows'[i] = rows[i]
    BY <2>1, <2>5, Given
  <2>8. RowsGrow
    BY <2>5, <2>7, CountsAreNumbers DEF RowsGrow
  <2>9. PICK e \in LogEntry :
          log' = Append(log, e) /\ e.row = r /\ e.route = "register" /\ e.count = req[r].count
    <3> DEFINE e == Entry(r, r, req[r].subject)
    <3>1. req[r].count \in Counts /\ req[r].uv \in BOOLEAN /\ req[r].seen \in Nat /\ clock \in Nat
      BY Given, ReqFields
    <3>2. req[r].chal \in Challenges
      BY DEF CeremonyInv, SpentInv, Spent, Store
    <3>3. e \in LogEntry /\ e.row = r /\ e.route = "register" /\ e.count = req[r].count
      BY <2>5, <3>1, <3>2 DEF Entry, LogEntry
    <3>4. log' = Append(log, e)
      BY <1>2 DEF Store
    <3> HIDE DEF e
    <3> QED BY <3>3, <3>4
  <2>10. e.count <= rows'[e.row].count
    BY <2>6, <2>7, <2>9, CountsAreNumbers
  <2>11. rows' \in [RowIds -> Row]
    BY DEF CeremonyInv, Types, TypeOK
  <2>12. HighestKept' /\ CountersHeeded'
    BY <2>1, <2>8, <2>9, <2>10, <2>11, HistoryGrows
  <2> QED BY <2>1, <2>4, <2>8, <2>9, <2>12, KnowsNoCounter, CountedBy DEF HistoryExtends
<1> QED BY <1>1, <1>2

\* Revocations take back no counter and no warning.
LEMMA RevokeCounted ==
    ASSUME AllCounted, CeremonyInv', NEW r \in Reqs, Revoke(r)
    PROVE  AllCounted'
<1> CeremonyInv
  BY DEF AllCounted
<1> DEFINE i == req[r].row
           row == [rows[i] EXCEPT !.revoked = TRUE]
<1>1. i \in RowIds /\ rows[i] \in Row /\ rows[i].count \in Nat
  BY Given, CountsAreNumbers DEF CeremonyInv, HandlerInv, Revoke
<1>2. row \in Row /\ row.count = rows[i].count /\ row.warned = rows[i].warned
  BY <1>1 DEF Row
<1>3. rows' = [rows EXCEPT ![i] = row] /\ UNCHANGED <<refuse, log>>
  BY DEF Revoke
<1> HIDE DEF row
<1>4. RowsGrow
  <2>1. rows[i].count <= row.count /\ (rows[i].warned => row.warned)
    BY <1>1, <1>2
  <2> QED BY <1>1, <1>2, <1>3, <2>1, WrittenGrows
<1> QED BY <1>3, <1>4, ReturnField, KnowsNoCounter, QuietlyCounted, Given DEF Revoke

\* Steps of nobody's handler take back no counter either.
LEMMA OutsideCounted ==
    ASSUME AllCounted, CeremonyInv',
           \/ \E s \in Subjects : RevokeAll(s) \/ SetStatus(s)
           \/ UNCHANGED <<refuse, rows, req, log>>
    PROVE  AllCounted'
<1> CeremonyInv
  BY DEF AllCounted
<1>1. UNCHANGED <<refuse, log>>
  BY DEF RevokeAll, SetStatus
<1>2. RowsGrow
  <2>1. CASE UNCHANGED rows
    BY <2>1, QuietGrows
  <2>2. ASSUME NEW s \in Subjects, RevokeAll(s)
        PROVE  RowsGrow
    <3> DEFINE new(i) == IF i \in Held(s) THEN [rows[i] EXCEPT !.revoked = TRUE] ELSE rows[i]
    <3>1. ASSUME NEW i \in RowIds
          PROVE  new(i).count = rows[i].count /\ new(i).warned = rows[i].warned
      <4>1. rows[i] \in Row
        BY Given
      <4> QED BY <4>1 DEF Row
    <3>2. rows' = [i \in RowIds |-> new(i)]
      BY <2>2 DEF RevokeAll
    <3> HIDE DEF new
    <3>3. \A i \in RowIds : rows[i].count <= rows[i].count
      BY CountsAreNumbers
    <3> QED BY <3>1, <3>2, <3>3 DEF RowsGrow
  <2> QED BY <2>1, <2>2 DEF SetStatus
<1>3. \A q \in Reqs : Stands(q)
  <2>1. ASSUME NEW s \in Subjects, SetStatus(s), NEW q \in Reqs
        PROVE  Stands(q)
    <3>1. req[q] \in Request
      BY Given
    <3>2. req'[q] = [req[q] EXCEPT !.down = req[q].down \ active']
      BY <2>1 DEF SetStatus
    <3> QED BY <3>1, <3>2 DEF Request, Stands
  <2>2. CASE UNCHANGED req
    BY <2>2 DEF Stands
  <2> QED BY <2>1, <2>2 DEF RevokeAll
<1>4. rows' \in [RowIds -> Row]
  BY DEF CeremonyInv, Types, TypeOK
<1>5. HistoryExtends
  BY <1>1 DEF HistoryExtends
<1>6. HighestKept' /\ CountersHeeded'
  BY <1>1, <1>2, <1>4, HistoryStands
<1> QED BY <1>1, <1>2, <1>3, <1>5, <1>6, CounterStands DEF AllCounted

\* The further invariant holds at the start and every step keeps it.
LEMMA CountedInvariant ==
    /\ Init => AllCounted
    /\ AllCounted /\ [Next]_vars => AllCounted'
<1>1. ASSUME Init PROVE AllCounted
  <2>1. DOMAIN log = {}
    BY <1>1 DEF Init
  <2>2. \A r \in Reqs : CounterInv(r)
    BY <1>1 DEF Init, Fresh, CounterInv, Verified
  <2> QED BY <1>1, <2>1, <2>2, InitCeremony
          DEF AllCounted, HighestKept, CountersHeeded, CloneIsSignalled, RegressionRefused
<1>2. ASSUME AllCounted, [Next]_vars
      PROVE  AllCounted'
  <2>1. CeremonyInv'
    BY <1>2, NextCeremony DEF AllCounted
  <2>2. ASSUME NEW c \in Challenges,
               \/ \E s \in Subjects : BeginRegistration(c, s) \/ BeginAssertion(c, s)
               \/ BeginDiscoverableAssertion(c)
        PROVE  UNCHANGED <<refuse, rows, req, log>>
    BY <2>2 DEF BeginRegistration, BeginAssertion, BeginDiscoverableAssertion, Persist
  <2>3. ASSUME NEW r \in Reqs,
               \/ \E route \in Route, s \in Subjects \cup {Nobody}, c \in Challenges :
                    Complete(r, route, s, c)
               \/ Consume(r) \/ Lookup(r) \/ Cap(r)
               \/ \E i \in RowIds, allowLast \in BOOLEAN : RevokeBegin(r, i, allowLast)
               \/ RevokeCount(r)
        PROVE  AllCounted'
    BY <1>2, <2>1, <2>3, OtherStepsCounted
  <2>4. ASSUME NEW r \in Reqs, List(r) \/ Find(r) \/ Subject(r)
        PROVE  AllCounted'
    BY <1>2, <2>1, <2>4, AssertionCounted
  <2>5. ASSUME NEW r \in Reqs, Mark(r) \/ Touch(r) \/ Advance(r) \/ Store(r) \/ Revoke(r)
        PROVE  AllCounted'
    BY <1>2, <2>1, <2>5, MarkCounted, TouchCounted, AdvanceCounted, StoreCounted, RevokeCounted
  <2>6. ASSUME NEW s \in Subjects, RevokeAll(s) \/ SetStatus(s)
        PROVE  AllCounted'
    BY <1>2, <2>1, <2>6, OutsideCounted
  <2>7. Sweep \/ Tick \/ UNCHANGED vars => UNCHANGED <<refuse, rows, req, log>>
    BY DEF Sweep, Tick, vars
  <2>8. UNCHANGED <<refuse, rows, req, log>> => AllCounted'
    BY <1>2, <2>1, OutsideCounted
  <2> QED BY <1>2, <2>2, <2>3, <2>4, <2>5, <2>6, <2>7, <2>8 DEF Next
<1> QED BY <1>1, <1>2

\* However many assertions interleave on one credential, a counter that is presented
\* twice, or goes back below one accepted before the credential was read, is accepted
\* only with the clone warning on record (MarkCloneWarning before TouchCredential, the
\* compare-and-swap of AdvanceSignCount), and one that goes back is refused where the
\* deployment says so.
THEOREM CountersStayHeeded == Spec => []CountersHeeded
<1>1. AllCounted => CountersHeeded
  BY DEF AllCounted
<1> QED BY <1>1, CountedInvariant, PTL DEF Spec
=============================================================================
