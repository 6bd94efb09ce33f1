----------------------------- MODULE MCMailbox -----------------------------
(* Mailbox and its retries on a small instance; the constants are in the cfg. *)
EXTENDS MailboxRetries
=============================================================================
