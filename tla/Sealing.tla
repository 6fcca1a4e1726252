------------------------------ MODULE Sealing -------------------------------
(***************************************************************************)
(* The secrets sealed under the keyring, subject references and TOTP seeds,*)
(* and a rotation of the key (internal/crypto/kek and envelope,            *)
(* internal/subject, the subject and sealed stores, rewrapAll of           *)
(* internal/api, and the wizard's kek rotate and verify).                  *)
(*                                                                         *)
(* A sealed value is what its header and its authenticated data say: the   *)
(* key version, the row it is bound to, and the call that produced it.     *)
(* The keyring is a file every server reads when it starts.  All           *)
(* references are of one person: a row is named by the call that inserted  *)
(* it, and ids are compared as the walk compares them.                     *)
(***************************************************************************)
EXTENDS Integers, FiniteSets, FiniteSetsExt

CONSTANTS
    SealCalls,     \* requests that seal something; numbers, since rows are walked by id
    SealMixes,     \* what they may be
    KeyServers,    \* the replicas
    RewrapPage,    \* rewrapPageSize
    MaxVersion     \* bound: key versions ever made

ASSUME SealingAssumption ==
    /\ SealCalls \subseteq Nat \ {0}
    /\ SealMixes \subseteq [SealCalls -> {"before", "resolve", "enrol"}]
    /\ RewrapPage \in Nat \ {0}
    /\ MaxVersion \in Nat \ {0}
    /\ IsFiniteSet(SealCalls)

VARIABLES
    ring,      \* the keyring file
    loaded,    \* the keyring each server read
    row,       \* subjects.ref_sealed and totp_secrets.secret_sealed
    sealCall,  \* the requests
    rewrap,    \* the rewrap pass of each server
    rotating,  \* the operator is between the first and the last step of a rotation
    newest     \* history: the call whose value each row was last given

sealVars == <<ring, loaded, row, sealCall, rewrap, rotating, newest>>

Gone == [kind |-> "none"]
NoValue == [version |-> 0]
NoPass == [stage |-> "none"]

\* A value in the format that predates binding contexts opens in any row.
Legacy(c) == [version |-> 1, bound |-> 0, content |-> c]

SealingInit ==
    /\ ring = [keys |-> {1}, current |-> 1]
    /\ loaded = [s \in KeyServers |-> ring]
    /\ \E mix \in SealMixes :
          /\ sealCall = [c \in SealCalls |->
                           [kind |-> mix[c], value |-> NoValue, server |-> "none",
                            stage |-> IF mix[c] = "before" THEN "done" ELSE "idle"]]
          /\ row = [c \in SealCalls |-> IF mix[c] # "before" THEN Gone
                                        ELSE [kind |-> "secret", state |-> "live",
                                              value |-> Legacy(c)]]
    /\ rewrap = [s \in KeyServers |-> NoPass]
    /\ rotating = FALSE
    /\ newest = [c \in SealCalls |-> c]

Rows(kind) == {r \in SealCalls : row[r].kind = kind}

Operator == <<ring, loaded, rewrap, rotating>>

-----------------------------------------------------------------------------
(* The envelope.                                                           *)

\* Seal, under the version the server's keyring says is current.
SealedBy(s, id, content) ==
    [version |-> loaded[s].current, bound |-> id, content |-> content]

\* Unseal, with the key if the keyring retains it, in the row it is read from.
Opens(keyring, value, id) ==
    value.version \in keyring.keys /\ value.bound \in {0, id}

\* Rewrap of a value that opens: the current version, and bound to its row.
Rewrapped(keyring, value, id) ==
    [version |-> keyring.current, bound |-> id, content |-> value.content]

-----------------------------------------------------------------------------
(* Requests that seal.                                                     *)

\* GetSubjectByRef of Resolve, which does not see a deleted subject.
LookUpRef(c, s) ==
    /\ sealCall[c].kind = "resolve" /\ sealCall[c].stage = "idle"
    /\ sealCall' = [sealCall EXCEPT ![c].server = s,
          ![c].stage = IF \E r \in Rows("ref") : row[r].state = "live" THEN "done" ELSE "seal"]
    /\ UNCHANGED Operator /\ UNCHANGED <<row, newest>>

\* Resolve's Seal, for a subject under the id it has just made up.
SealRef(c) ==
    /\ sealCall[c].kind = "resolve" /\ sealCall[c].stage = "seal"
    /\ sealCall' = [sealCall EXCEPT ![c].value = SealedBy(sealCall[c].server, c, c),
                                    ![c].stage = "write"]
    /\ UNCHANGED Operator /\ UNCHANGED <<row, newest>>

\* UpsertSubject: a row of the same reference keeps its id and takes the value.
UpsertSubject(c) ==
    LET existing == Rows("ref")
        id == IF existing = {} THEN c ELSE CHOOSE r \in existing : TRUE
    IN  /\ sealCall[c].kind = "resolve" /\ sealCall[c].stage = "write"
        /\ row' = [row EXCEPT ![id] =
                     [kind |-> "ref", value |-> sealCall[c].value,
                      state |-> IF existing = {} THEN "live" ELSE row[id].state]]
        /\ newest' = [newest EXCEPT ![id] = c]
        /\ sealCall' = [sealCall EXCEPT ![c].stage = "done"]
        /\ UNCHANGED Operator

\* The seed of a TOTP enrolment is sealed for the row it will be.
SealSecret(c, s) ==
    /\ sealCall[c].kind = "enrol" /\ sealCall[c].stage = "idle"
    /\ sealCall' = [sealCall EXCEPT ![c].server = s, ![c].value = SealedBy(s, c, c),
                                    ![c].stage = "write"]
    /\ UNCHANGED Operator /\ UNCHANGED <<row, newest>>

CreateSealed(c) ==
    /\ sealCall[c].kind = "enrol" /\ sealCall[c].stage = "write"
    /\ row' = [row EXCEPT ![c] = [kind |-> "secret", state |-> "live",
                                  value |-> sealCall[c].value]]
    /\ sealCall' = [sealCall EXCEPT ![c].stage = "done"]
    /\ UNCHANGED Operator /\ UNCHANGED newest

\* A secret is revoked for good; a subject is soft-deleted and restored.
SetState(r, before, after, kind) ==
    /\ row[r].kind = kind
    /\ row[r].state = before
    /\ row' = [row EXCEPT ![r].state = after]
    /\ UNCHANGED Operator /\ UNCHANGED <<sealCall, newest>>

RevokeSecret(r) == SetState(r, "live", "revoked", "secret")

DeleteSubject(r) == SetState(r, "live", "deleted", "ref")

RestoreSubject(r) == SetState(r, "deleted", "live", "ref")

\* PurgeSubject: the row goes, and the subject's secrets with it.
PurgeSubject(r) ==
    /\ row[r].kind = "ref"
    /\ row[r].state = "deleted"
    /\ row' = [x \in SealCalls |-> Gone]
    /\ UNCHANGED Operator /\ UNCHANGED <<sealCall, newest>>

-----------------------------------------------------------------------------
(* The rewrap pass.                                                        *)

AllRestarted == \A s \in KeyServers : loaded[s] = ring

\* handleAdminRewrapKEK, once the service has been restarted, as the guide says.
BeginPass(s) ==
    /\ rotating
    /\ AllRestarted
    /\ rewrap[s].stage \in {"none", "reported"}
    /\ rewrap' = [rewrap EXCEPT ![s] =
                    [stage |-> "list", kind |-> "secret", after |-> 0, page |-> {},
                     full |-> FALSE, failed |-> FALSE, inUse |-> {}, cut |-> FALSE,
                     current |-> loaded[s].current]]
    /\ UNCHANGED <<ring, loaded, row, sealCall, rotating, newest>>

\* Mutant of Listed: subjects pending deletion are left out of the walk.
ListedUndeleted(kind) ==
    {r \in Rows(kind) : row[r].state = "live"}

\* The rows of a kind the walk and the wizard's verify read.
Listed(kind) ==
    {r \in Rows(kind) : kind = "ref" \/ row[r].state # "revoked"}

\* The first rows past the cursor.
PageAfter(kind, after) ==
    LET later == {r \in Listed(kind) : r > after}
    IN  {r \in later : Cardinality({x \in later : x <= r}) <= RewrapPage}

\* ListSealed; the pass holds copies.
ListSealed(s) ==
    LET found == PageAfter(rewrap[s].kind, rewrap[s].after)
    IN  /\ rewrap[s].stage = "list"
        /\ rewrap' = [rewrap EXCEPT ![s].stage = "each",
             ![s].page = {[id |-> r, value |-> row[r].value] : r \in found},
             ![s].after = IF found = {} THEN @ ELSE Max(found),
             ![s].full = Cardinality(found) = RewrapPage]
        /\ UNCHANGED <<ring, loaded, row, sealCall, rotating, newest>>

\* Mutant of Unchanged: the row is replaced whatever it holds by now.
UnchangedAssumed(rec) == row[rec.id] # Gone

\* ReplaceSealed compares with the bytes that were read, in the update.
Unchanged(rec) == row[rec.id] # Gone /\ row[rec.id].value = rec.value

\* Mutant of Counted: a value that was not written back counts as rewrapped.
CountedWritten(s, rec, outcome) ==
    [rewrap EXCEPT ![s].page = @ \ {rec},
                   ![s].inUse = @ \cup {IF outcome \in {"current", "failed"} THEN loaded[s].current
                                        ELSE rec.value.version}]

\* The report: a failure keeps the version the record was read under in use, and
\* a row that has gone belongs in no count.
Counted(s, rec, outcome) ==
    [rewrap EXCEPT ![s].page = @ \ {rec},
                   ![s].failed = @ \/ outcome = "failed",
                   ![s].inUse = CASE outcome = "current" -> @ \cup {loaded[s].current}
                                  [] outcome = "failed" -> @ \cup {rec.value.version}
                                  [] outcome = "gone" -> @]

\* rewrapOne: open, seal again, write back; the write may fail.
RewrapOne(s, rec) ==
    LET better == Rewrapped(loaded[s], rec.value, rec.id)
    IN  /\ rewrap[s].stage = "each"
        /\ rec \in rewrap[s].page
        /\ \/ /\ ~Opens(loaded[s], rec.value, rec.id)
              /\ rewrap' = Counted(s, rec, "failed")
              /\ UNCHANGED row
           \/ /\ Opens(loaded[s], rec.value, rec.id)
              /\ better = rec.value
              /\ rewrap' = Counted(s, rec, "current")
              /\ UNCHANGED row
           \/ /\ Opens(loaded[s], rec.value, rec.id)
              /\ better # rec.value
              /\ IF Unchanged(rec)
                 THEN /\ row' = [row EXCEPT ![rec.id].value = better]
                      /\ rewrap' = Counted(s, rec, "current")
                 ELSE /\ rewrap' = Counted(s, rec, IF row[rec.id] = Gone THEN "gone"
                                                   ELSE "failed")
                      /\ UNCHANGED row
           \/ /\ Opens(loaded[s], rec.value, rec.id)
              /\ better # rec.value
              /\ rewrap' = Counted(s, rec, "failed")
              /\ UNCHANGED row
        /\ UNCHANGED <<ring, loaded, sealCall, rotating, newest>>

\* A full page is followed by another, secrets by references.
NextPage(s) ==
    /\ rewrap[s].stage = "each"
    /\ rewrap[s].page = {}
    /\ rewrap' = [rewrap EXCEPT ![s] =
         IF @.full THEN [@ EXCEPT !.stage = "list"]
         ELSE IF @.kind = "secret" THEN [@ EXCEPT !.stage = "list", !.kind = "ref", !.after = 0]
         ELSE [@ EXCEPT !.stage = "reported"]]
    /\ UNCHANGED <<ring, loaded, row, sealCall, rotating, newest>>

\* The caller has gone, or a page cannot be read: a report that is no statement
\* about the rest.
CutShort(s) ==
    /\ rewrap[s].stage = "list"
    /\ rewrap' = [rewrap EXCEPT ![s].stage = "reported", ![s].cut = TRUE]
    /\ UNCHANGED <<ring, loaded, row, sealCall, rotating, newest>>

-----------------------------------------------------------------------------
(* The operator.                                                           *)

\* kek rotate: one past every version in the file; the others stay.
Rotate ==
    /\ ~rotating
    /\ Max(ring.keys) < MaxVersion
    /\ ring' = [keys |-> ring.keys \cup {Max(ring.keys) + 1}, current |-> Max(ring.keys) + 1]
    /\ rotating' = TRUE
    /\ UNCHANGED <<loaded, row, sealCall, rewrap, newest>>

\* A server reads the file, and the requests and the pass it served are gone.
RestartServer(s) ==
    /\ loaded' = [loaded EXCEPT ![s] = ring]
    /\ sealCall' = [c \in SealCalls |->
                      IF sealCall[c].server = s THEN [sealCall[c] EXCEPT !.stage = "done"]
                      ELSE sealCall[c]]
    /\ rewrap' = [rewrap EXCEPT ![s] = NoPass]
    /\ UNCHANGED <<ring, row, rotating, newest>>

\* The older versions are deleted from the file when the numbers of a report on its
\* current version allow it.
RetireOld(s) ==
    /\ rotating
    /\ rewrap[s].stage = "reported"
    /\ ~rewrap[s].cut
    /\ ~rewrap[s].failed
    /\ rewrap[s].current = ring.current
    /\ rewrap[s].inUse \subseteq {ring.current}
    /\ ring' = [ring EXCEPT !.keys = {ring.current}]
    /\ rotating' = FALSE
    /\ rewrap' = [rewrap EXCEPT ![s] = NoPass]
    /\ UNCHANGED <<loaded, row, sealCall, newest>>

SealingNext ==
    \/ \E c \in SealCalls :
          \/ SealRef(c) \/ UpsertSubject(c) \/ CreateSealed(c)
          \/ RevokeSecret(c) \/ DeleteSubject(c) \/ RestoreSubject(c) \/ PurgeSubject(c)
          \/ \E s \in KeyServers : LookUpRef(c, s) \/ SealSecret(c, s)
    \/ \E s \in KeyServers :
          \/ BeginPass(s) \/ ListSealed(s) \/ NextPage(s) \/ CutShort(s)
          \/ \E rec \in (IF rewrap[s].stage = "each" THEN rewrap[s].page ELSE {}) :
                RewrapOne(s, rec)
          \/ RestartServer(s) \/ RetireOld(s)
    \/ Rotate

SealingSpec == SealingInit /\ [][SealingNext]_sealVars

-----------------------------------------------------------------------------
(* Properties.                                                             *)

\* Every record the service may still read is sealed under a key of the keyring
\* file: a version retired on the word of a rewrap report was in use no more,
\* although records were inserted, resealed, revoked, soft-deleted and restored
\* around the walk (rewrapAll, and the wizard's verify, which counts the same rows).
NothingLost ==
    \A r \in Listed("secret") \cup Listed("ref") : row[r].value.version \in ring.keys

\* A rewrap never puts an older value back over one written since the page was
\* read (ReplaceSealed).
NewestIsKept == \A r \in Rows("secret") \cup Rows("ref") : row[r].value.content = newest[r]

\* A rotation of the key encryption key loses no value: each opens under a key that is
\* left, and is the one written last (rewrapAll, ReplaceSealed).
SealedValuesKept == NothingLost /\ NewestIsKept

\* "The identifier is generated above and never changes, so the same context is
\* available to every later read of the row" (Resolve): a subject's reference opens
\* in its own row.
ReferencesOpen == \A r \in Rows("ref") : row[r].value.bound \in {0, r}
=============================================================================
