----------------------------- MODULE MCAuditRun -----------------------------
(* Small instances of AuditRun for TLC.                                    *)
EXTENDS AuditRun

CONSTANTS open, secret, local

\* A public repository, a private one, and one with a local checkout.
MCInventory == <<open, secret, local>>
=============================================================================
