------------------------------ MODULE Erasure -------------------------------
(***************************************************************************)
(* The life of one subject: lock, erasure request, cancellation and purge  *)
(* (handleAdminRequestErasure, handleAdminCancelErasure and                *)
(* changeSubjectStatus of internal/api, the erasure and subject stores),   *)
(* and the janitor of every replica, which purges under a sweep lock       *)
(* (internal/janitor, the two stores' TryAcquireJanitorLock).              *)
(*                                                                         *)
(* A handler is a process that runs once; a step is a store call.  A       *)
(* request is named by the handler that files it.  Every transaction of    *)
(* the stores involved writes one row conditionally or, in PurgeSubject,   *)
(* reads it under a lock first, so both engines take them in one step.     *)
(* The approval gate before a request is module Approval.                  *)
(***************************************************************************)
EXTENDS Integers, FiniteSets

CONSTANTS
    Handlers,    \* administrative requests
    Replicas,    \* processes running a janitor
    MaxFaults    \* bound: crashes of replicas and passes cut short

None == "none"

ASSUME ErasureAssumption == None \notin Replicas

VARIABLES
    subject,    \* the subject's row: "active", "locked", "deleted" or "absent"
    erasure,    \* erasure_requests, by the handler that filed each
    dueNow,     \* requests whose purge_after has passed
    deferred,   \* features.deferred_erasure
    handler,    \* the handlers
    trail,      \* handlers whose audit entries still name the subject
    lockKind,   \* "lease", "session", or "unpinned": no lock can be held
    sweepLock,  \* the replica the sweep lock belongs to
    sweeper,    \* the janitors
    purges,     \* history: [request, subject's row before] of each purge
    recorded,   \* history: requests with an erasure.purged entry, one per entry
    lockWanted, \* history: the last operator decision was to lock
    faults      \* history: crashes and deadlines so far

erasureVars == <<subject, erasure, dueNow, deferred, handler, trail, lockKind,
                 sweepLock, sweeper, purges, recorded, lockWanted, faults>>

HandlerKinds == {"erase", "cancel", "lock", "unlock"}

IdleSweeper == [stage |-> "idle", list |-> {}, at |-> None]

ErasureInit ==
    /\ subject = "active"
    /\ erasure = [h \in Handlers |-> None]
    /\ dueNow = {}
    /\ deferred \in BOOLEAN
    /\ handler \in [Handlers -> [stage : {"idle"}, kind : HandlerKinds, found : {None}]]
    /\ trail = {}
    /\ lockKind \in {"lease", "session", "unpinned"}
    /\ sweepLock = None
    /\ sweeper = [p \in Replicas |-> IdleSweeper]
    /\ purges = {}
    /\ recorded = {}
    /\ lockWanted = FALSE
    /\ faults = 0

Pending == {h \in Handlers : erasure[h] = "pending"}

Move(h, stage) == handler' = [handler EXCEPT ![h].stage = stage]

Janitors == <<lockKind, sweepLock, sweeper, purges, recorded, faults>>

-----------------------------------------------------------------------------
(* The handlers.                                                           *)

\* changeSubjectStatus: SetSubjectStatus leaves a deleted subject alone, and an
\* entry naming the subject follows.
ChangeStatus(h) ==
    /\ handler[h].stage = "idle"
    /\ handler[h].kind \in {"lock", "unlock"}
    /\ LET status == IF handler[h].kind = "lock" THEN "locked" ELSE "active"
       IN  IF subject \in {"active", "locked"}
           THEN /\ subject' = status
                /\ lockWanted' = (status = "locked")
                /\ Move(h, "audit")
           ELSE Move(h, "done") /\ UNCHANGED <<subject, lockWanted>>
    /\ UNCHANGED <<erasure, dueNow, deferred, trail>> /\ UNCHANGED Janitors

\* GetSubject, which does not find a deleted one.
FindSubject(h) ==
    /\ handler[h].stage = "idle"
    /\ handler[h].kind = "erase"
    /\ Move(h, IF subject \in {"active", "locked"} THEN "create" ELSE "done")
    /\ UNCHANGED <<subject, erasure, dueNow, deferred, trail, lockWanted>>
    /\ UNCHANGED Janitors

\* er_subject_uq.
Creatable == Pending = {}

\* CreateErasure.  With no retention the request is due at once.
Create(h) ==
    /\ handler[h].stage = "create"
    /\ IF Creatable
       THEN /\ erasure' = [erasure EXCEPT ![h] = "pending"]
            /\ dueNow' = IF deferred THEN dueNow ELSE dueNow \cup {h}
            /\ Move(h, "soft delete")
       ELSE Move(h, "done") /\ UNCHANGED <<erasure, dueNow>>
    /\ UNCHANGED <<subject, deferred, trail, lockWanted>> /\ UNCHANGED Janitors

\* SoftDeleteSubject: nothing to do on a deleted subject, an error on a missing
\* one, and the store may fail.
SoftDelete(h) ==
    /\ handler[h].stage = "soft delete"
    /\ \/ /\ subject' = IF subject = "absent" THEN "absent" ELSE "deleted"
          /\ Move(h, IF subject = "absent" THEN "done" ELSE "audit")
       \/ UNCHANGED subject /\ Move(h, "done")
    /\ UNCHANGED <<erasure, dueNow, deferred, trail, lockWanted>> /\ UNCHANGED Janitors

\* GetErasureBySubject prefers the pending request.
FindErasure(h) ==
    /\ handler[h].stage = "idle"
    /\ handler[h].kind = "cancel"
    /\ handler' = [handler EXCEPT
         ![h] = IF Pending = {} THEN [@ EXCEPT !.stage = "done"]
                ELSE [@ EXCEPT !.stage = "cancel", !.found = CHOOSE e \in Pending : TRUE]]
    /\ UNCHANGED <<subject, erasure, dueNow, deferred, trail, lockWanted>>
    /\ UNCHANGED Janitors

\* CancelErasure, conditional on the request being pending still.
Cancel(h) ==
    /\ handler[h].stage = "cancel"
    /\ IF erasure[handler[h].found] = "pending"
       THEN /\ erasure' = [erasure EXCEPT ![handler[h].found] = "cancelled"]
            /\ Move(h, "restore")
       ELSE Move(h, "done") /\ UNCHANGED erasure
    /\ UNCHANGED <<subject, dueNow, deferred, trail, lockWanted>> /\ UNCHANGED Janitors

\* RestoreSubject, conditional on the subject being pending deletion.
Restore(h) ==
    /\ handler[h].stage = "restore"
    /\ IF subject = "deleted" THEN subject' = "active" /\ Move(h, "audit")
       ELSE Move(h, "done") /\ UNCHANGED subject
    /\ UNCHANGED <<erasure, dueNow, deferred, trail, lockWanted>> /\ UNCHANGED Janitors

\* audited: the entry names the subject.
Audit(h) ==
    /\ handler[h].stage = "audit"
    /\ trail' = trail \cup {h}
    /\ Move(h, "done")
    /\ UNCHANGED <<subject, erasure, dueNow, deferred, lockWanted>> /\ UNCHANGED Janitors

\* A retention window closes.  It outlasts every handler under way.
Elapse(e) ==
    /\ e \in Pending \ dueNow
    /\ \A h \in Handlers : handler[h].stage \in {"idle", "done"}
    /\ dueNow' = dueNow \cup {e}
    /\ UNCHANGED <<subject, erasure, deferred, handler, trail, lockWanted>>
    /\ UNCHANGED Janitors

-----------------------------------------------------------------------------
(* The janitors.                                                           *)

Handling == <<deferred, handler, dueNow, lockWanted>>

\* Sweep takes the lock, or skips the interval when another replica holds it.
\* A connection that is no session grants every pass.
Granted == lockKind = "unpinned" \/ sweepLock = None

Acquire(p) ==
    /\ sweeper[p].stage = "idle"
    /\ Granted
    /\ sweepLock' = IF lockKind = "unpinned" THEN None ELSE p
    /\ sweeper' = [sweeper EXCEPT ![p].stage = "list"]
    /\ UNCHANGED Handling
    /\ UNCHANGED <<subject, erasure, trail, lockKind, purges, recorded, faults>>

\* ListDueErasures.
ListDue(p) ==
    /\ sweeper[p].stage = "list"
    /\ sweeper' = [sweeper EXCEPT ![p] = [IdleSweeper EXCEPT !.stage = "next",
                                            !.list = Pending \cap dueNow]]
    /\ UNCHANGED Handling
    /\ UNCHANGED <<subject, erasure, trail, lockKind, sweepLock, purges, recorded, faults>>

\* The next listed request, or the end of the pass.  The other sweeps of the pass
\* touch none of this state.
NextDue(p) ==
    /\ sweeper[p].stage = "next"
    /\ \/ \E e \in sweeper[p].list :
            sweeper' = [sweeper EXCEPT ![p] = [stage |-> "erase", at |-> e,
                                               list |-> sweeper[p].list \ {e}]]
       \/ /\ sweeper[p].list = {}
          /\ sweeper' = [sweeper EXCEPT ![p].stage = "release"]
    /\ UNCHANGED Handling
    /\ UNCHANGED <<subject, erasure, trail, lockKind, sweepLock, purges, recorded, faults>>

\* EraseSubjectAuditEntries: no entry written so far names the subject any more.
EraseTrail(p) ==
    /\ sweeper[p].stage = "erase"
    /\ trail' = {}
    /\ sweeper' = [sweeper EXCEPT ![p].stage = "purge"]
    /\ UNCHANGED Handling
    /\ UNCHANGED <<subject, erasure, lockKind, sweepLock, purges, recorded, faults>>

\* Mutant of Purge: the row is deleted without asking what state it is in.
PurgeUnchecked(p) ==
    /\ sweeper[p].stage = "purge"
    /\ subject' = "absent"
    /\ purges' = purges \cup {[request |-> sweeper[p].at, row |-> subject]}
    /\ sweeper' = [sweeper EXCEPT ![p].stage = "mark"]
    /\ UNCHANGED Handling
    /\ UNCHANGED <<erasure, trail, lockKind, sweepLock, recorded, faults>>

\* Mutant of Purge: a stale request is marked purged like a missing subject.
PurgeMarksStale(p) ==
    /\ sweeper[p].stage = "purge"
    /\ subject' = IF subject = "deleted" THEN "absent" ELSE subject
    /\ purges' = IF subject # "deleted" THEN purges
                 ELSE purges \cup {[request |-> sweeper[p].at, row |-> subject]}
    /\ sweeper' = [sweeper EXCEPT ![p].stage = "mark"]
    /\ UNCHANGED Handling
    /\ UNCHANGED <<erasure, trail, lockKind, sweepLock, recorded, faults>>

\* Mutant of Purge: a subject that is gone is an error, and the request is left.
PurgeMissingFails(p) ==
    /\ sweeper[p].stage = "purge"
    /\ subject' = IF subject = "deleted" THEN "absent" ELSE subject
    /\ purges' = IF subject # "deleted" THEN purges
                 ELSE purges \cup {[request |-> sweeper[p].at, row |-> subject]}
    /\ sweeper' = [sweeper EXCEPT ![p].stage = IF subject = "deleted" THEN "mark" ELSE "next"]
    /\ UNCHANGED Handling
    /\ UNCHANGED <<erasure, trail, lockKind, sweepLock, recorded, faults>>

\* PurgeSubject: the row and all that hangs on it, if the subject is pending
\* deletion.  One that is not is skipped; one already gone counts as purged.
Purge(p) ==
    /\ sweeper[p].stage = "purge"
    /\ subject' = IF subject = "deleted" THEN "absent" ELSE subject
    /\ purges' = IF subject # "deleted" THEN purges
                 ELSE purges \cup {[request |-> sweeper[p].at, row |-> subject]}
    /\ sweeper' = [sweeper EXCEPT
                     ![p].stage = IF subject \in {"deleted", "absent"} THEN "mark" ELSE "next"]
    /\ UNCHANGED Handling
    /\ UNCHANGED <<erasure, trail, lockKind, sweepLock, recorded, faults>>

\* Mutant of Mark: the update does not ask whether the request is still pending.
MarkAny(p) ==
    /\ sweeper[p].stage = "mark"
    /\ erasure' = [erasure EXCEPT ![sweeper[p].at] = "purged"]
    /\ sweeper' = [sweeper EXCEPT ![p].stage = "record"]
    /\ UNCHANGED Handling
    /\ UNCHANGED <<subject, trail, lockKind, sweepLock, purges, recorded, faults>>

\* MarkErasurePurged, conditional on the request being pending still.
Mark(p) ==
    /\ sweeper[p].stage = "mark"
    /\ IF erasure[sweeper[p].at] = "pending"
       THEN /\ erasure' = [erasure EXCEPT ![sweeper[p].at] = "purged"]
            /\ sweeper' = [sweeper EXCEPT ![p].stage = "record"]
       ELSE /\ sweeper' = [sweeper EXCEPT ![p].stage = "next"]
            /\ UNCHANGED erasure
    /\ UNCHANGED Handling
    /\ UNCHANGED <<subject, trail, lockKind, sweepLock, purges, recorded, faults>>

\* The erasure.purged entry, which names the request and not the subject.
RecordPurge(p) ==
    /\ sweeper[p].stage = "record"
    /\ recorded' = recorded \cup {[request |-> sweeper[p].at, by |-> p]}
    /\ sweeper' = [sweeper EXCEPT ![p].stage = "next"]
    /\ UNCHANGED Handling
    /\ UNCHANGED <<subject, erasure, trail, lockKind, sweepLock, purges, faults>>

\* Mutant of Release: the lease is deleted whoever wrote it.
ReleaseAny(p) ==
    /\ sweeper[p].stage = "release"
    /\ sweepLock' = None
    /\ sweeper' = [sweeper EXCEPT ![p] = IdleSweeper]
    /\ UNCHANGED Handling
    /\ UNCHANGED <<subject, erasure, trail, lockKind, purges, recorded, faults>>

\* releaseLock: a lease is given back only by the replica that wrote it, since it
\* may have run out and been taken over.
Release(p) ==
    /\ sweeper[p].stage = "release"
    /\ sweepLock' = IF sweepLock = p THEN None ELSE sweepLock
    /\ sweeper' = [sweeper EXCEPT ![p] = IdleSweeper]
    /\ UNCHANGED Handling
    /\ UNCHANGED <<subject, erasure, trail, lockKind, purges, recorded, faults>>

Sweeping(p) == sweeper[p].stage \notin {"idle", "release"}

\* The lease runs out.  It was asked for as long as a pass may run, and the
\* engine counts it from after the pass began, so the pass is over by then.
Expire ==
    /\ lockKind = "lease"
    /\ sweepLock # None
    /\ ~Sweeping(sweepLock)
    /\ sweepLock' = None
    /\ UNCHANGED Handling
    /\ UNCHANGED <<subject, erasure, trail, lockKind, sweeper, purges, recorded, faults>>

\* The pass runs into its deadline between two store calls.
TimeOut(p) ==
    /\ Sweeping(p)
    /\ faults < MaxFaults
    /\ faults' = faults + 1
    /\ sweeper' = [sweeper EXCEPT ![p] = [IdleSweeper EXCEPT !.stage = "release"]]
    /\ UNCHANGED Handling
    /\ UNCHANGED <<subject, erasure, trail, lockKind, sweepLock, purges, recorded>>

\* The replica dies and is started again.  The server ends the session and drops
\* its lock; a lease stays behind.
CrashReplica(p) ==
    /\ sweeper[p].stage # "idle"
    /\ faults < MaxFaults
    /\ faults' = faults + 1
    /\ sweeper' = [sweeper EXCEPT ![p] = IdleSweeper]
    /\ sweepLock' = IF lockKind = "session" /\ sweepLock = p THEN None ELSE sweepLock
    /\ UNCHANGED Handling
    /\ UNCHANGED <<subject, erasure, trail, lockKind, purges, recorded>>

Handle(h) ==
    \/ ChangeStatus(h) \/ FindSubject(h) \/ Create(h) \/ SoftDelete(h)
    \/ FindErasure(h) \/ Cancel(h) \/ Restore(h) \/ Audit(h)

Pass(p) ==
    \/ ListDue(p) \/ NextDue(p) \/ EraseTrail(p) \/ Purge(p) \/ Mark(p)
    \/ RecordPurge(p) \/ Release(p)

ErasureNext ==
    \/ \E h \in Handlers : Handle(h) \/ Elapse(h)
    \/ \E p \in Replicas : Acquire(p) \/ Pass(p) \/ TimeOut(p) \/ CrashReplica(p)
    \/ Expire

\* A pass goes on, the interval comes round on some replica, and leases run out.
ErasureFairness ==
    /\ \A p \in Replicas : WF_erasureVars(Pass(p))
    /\ WF_erasureVars(\E p \in Replicas : Acquire(p))
    /\ WF_erasureVars(Expire)

ErasureSpec == ErasureInit /\ [][ErasureNext]_erasureVars

FairErasureSpec == ErasureSpec /\ ErasureFairness

-----------------------------------------------------------------------------
(* Properties.                                                             *)

\* Nothing but a subject pending deletion is ever purged, although the sweep works
\* from a list that cancellations overtake and several replicas may sweep at once
\* (PurgeSubject).
OnlyDeletedIsPurged == \A x \in purges : x.row = "deleted"

\* A request marked purged is true: the subject is gone, and in a deployment with
\* a retention window no audit entry of a handler names it (purgeDueErasures).
PurgedIsGone ==
    \A e \in Handlers : erasure[e] = "purged" =>
        subject = "absent" /\ (deferred => trail = {})

\* What is purged was to be purged, and what is called purged is (PurgeSubject,
\* purgeDueErasures).
PurgesAreSound == OnlyDeletedIsPurged /\ PurgedIsGone

\* An erasure is reported complete by one entry, however many replicas sweep it
\* and wherever they die (MarkErasurePurged).
RecordedOnce == \A x, y \in recorded : x.request = y.request => x = y

\* Where the sweep lock can be held, one replica sweeps at a time, through crashes,
\* deadlines and leases that run out and are taken over (TryAcquireJanitorLock,
\* Release).
OneSweeper ==
    lockKind # "unpinned" =>
        \A p, q \in Replicas : Sweeping(p) /\ Sweeping(q) => p = q

\* Several replicas do the work of one (TryAcquireJanitorLock, MarkErasurePurged).
SweepsOnce == OneSweeper /\ RecordedOnce

\* There is always again a moment with no due request left on a subject that is
\* pending deletion, or already gone, although replicas die in the middle of a pass
\* (Sweep, purgeDueErasures).
DueIsCompleted ==
    []<>(\A e \in dueNow : erasure[e] = "pending" => subject \in {"active", "locked"})

\* RestoreSubject: "it cannot be used to reactivate a subject an operator locked: a
\* lock and an erasure are different decisions, and cancelling one must not undo
\* the other."
LockSurvivesCancel == subject = "active" => ~lockWanted

\* PurgeSubject: "a subject restored in between was purged all the same, factors and
\* all, under a request marked cancelled.  Checked here, in the transaction that
\* deletes", so no purge is left under a request marked cancelled.
NotPurgedUnderCancelled == \A x \in purges : erasure[x.request] # "cancelled"
=============================================================================
