---------------------------- MODULE MCInboxReview ----------------------------
(* Small instances of InboxReview for TLC.                                 *)
EXTENDS InboxReview

CONSTANTS d1, d2

\* A destination is suggested for one document only.
MCFolders == {<<d1, "folder">>}
=============================================================================
