----------------------------- MODULE MCInboxScan -----------------------------
(* InboxScan for TLC. *)
EXTENDS InboxScan
=============================================================================
