----------------------------- MODULE MCJobQueue -----------------------------
(* Small instances of JobQueue for TLC.                                    *)
EXTENDS JobQueue, TLC

\* A job that may take the OCR section, and a job of another document that asks
\* a provider and may be delayed.
MCNewJob2 ==
  (1 :> NewRow("ocr", 1, 45, 0)) @@
  (2 :> NewRow("metadata_suggestion", 2, 60, 1))

\* A job that takes the OCR section, and a backup.
MCNewJobOcrBackup ==
  (1 :> NewRow("ocr", 1, 40, 1)) @@
  (2 :> NewRow("backup", NoDoc, 50, 0))

\* Two inbox documents in preparation, added in the order of their names.
MCInitDoc ==
  [d \in {1, 2} |-> [exists |-> TRUE, inbox |-> TRUE, is_trashed |-> FALSE,
                     processing_status |-> "processing"]]

\* The first one lies in the trash and may be restored.
MCInitDocTrash ==
  [MCInitDoc EXCEPT ![1].inbox = FALSE, ![1].is_trashed = TRUE]
=============================================================================
