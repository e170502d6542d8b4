---------------------------- MODULE MCAuditTrail ----------------------------
(* Small instance of AuditTrail.                                            *)
EXTENDS AuditTrail, TLC
=============================================================================
