---------------------------- MODULE MCPreflight ----------------------------
(* Small instances of Preflight for TLC.                                   *)
EXTENDS Preflight, TLC

\* One document is added, of either kind; n requests, none of them twice.
AtMost(n, ops) ==
  [op \in Requests |->
     CASE op = "any" -> n
       [] op \in ops \cup {"ingest"} -> 1
       [] OTHER -> 0]

MCRetries ==
  AtMost(2, {"retry_preflight", "retry_ocr", "process",
             "reprocess_suggestions", "cancel"})
MCMoves == AtMost(3, {"move", "trash", "restore"})
=============================================================================
