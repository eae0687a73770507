--------------------------- MODULE MCTransactions ---------------------------
(* A small instance of AuditTrail, with the seeds of MCCompliance.         *)
EXTENDS MCCompliance, AuditTrail
=============================================================================
