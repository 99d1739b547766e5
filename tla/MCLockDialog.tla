---------------------------- MODULE MCLockDialog ----------------------------
(***************************************************************************)
(* Instances of LockDialog, and of it with its window, for TLC.            *)
(***************************************************************************)
EXTENDS UnlockConversation

\* One back-end with a thread, the two that differ without one (the helper and
\* BSD authentication only ask; the password file may have no entry).
MCBackends == {"pam", "pwent", "helper"}
=============================================================================
