---------------------------- MODULE MCAuditTrim -----------------------------
(***************************************************************************)
(* Retention on PostgreSQL while entries are appended: two writers, nobody *)
(* reading.                                                                *)
(***************************************************************************)
EXTENDS AuditChain

Writing == engine = "postgres" /\ walk.stage = "idle" /\ pager.cursor = 0
=============================================================================
