----------------------------- MODULE MCAuditLog -----------------------------
(***************************************************************************)
(* The instance of AuditLog for TLC: the threads are named in AuditLog.cfg.*)
(***************************************************************************)
EXTENDS AuditLog
=============================================================================
