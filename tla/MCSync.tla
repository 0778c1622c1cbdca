--------------------------------- MODULE MCSync --------------------------------
(***************************************************************************)
(* TLC instances of SyncCursor: small mailboxes with self-addressed mail.  *)
(***************************************************************************)
EXTENDS SyncCursor
================================================================================
