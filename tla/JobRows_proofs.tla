--------------------------- MODULE JobRows_proofs ---------------------------
(***************************************************************************)
(* Lemmas about the row operators of JobRows: each takes rows to rows, and *)
(* what it does to the status column.                                      *)
(***************************************************************************)
EXTENDS JobRows, TLAPS

\* What each row operator returns is a row again.
LEMMA RowTypes ==
  ASSUME NEW D, NEW row \in Row(D), NEW delayed \in BOOLEAN
  PROVE  /\ ClaimRow(row) \in Row(D)
         /\ CompleteRow(row) \in Row(D)
         /\ FailRow(row, delayed) \in Row(D)
         /\ CancelRow(row) \in Row(D)
         /\ RequeueRow(row) \in Row(D)
         /\ CancelTrashedRow(row) \in Row(D)
         /\ TouchRow(row) \in Row(D)
         /\ DeleteRow(row) \in Row(D)
<1> USE DEF Row, JobStatus, Missing
<1>1. ClaimRow(row) \in Row(D)
  BY DEF ClaimRow
<1>2. CompleteRow(row) \in Row(D)
  BY DEF CompleteRow
<1>3. FailRow(row, delayed) \in Row(D)
  <2>1. AddPriority(row.priority) \in Nat
    BY DEF AddPriority, MaxPriority
  <2>2. row.retry_count + 1 \in Nat
    OBVIOUS
  <2>3. CASE row.retry_count + 1 <= row.max_retries
    <3> DEFINE avail == IF delayed THEN "future" ELSE "null"
    <3>1. avail \in {"null", "future", "past"}
      OBVIOUS
    <3>2. FailRow(row, delayed) =
            [row EXCEPT !.retry_count = row.retry_count + 1,
                        !.status = "queued", !.locked_by = FALSE,
                        !.locked_at = "null",
                        !.priority = AddPriority(row.priority),
                        !.available_at = avail]
      BY <2>3 DEF FailRow
    <3> HIDE DEF avail
    <3> QED
      BY <2>1, <2>2, <3>1, <3>2
  <2>4. CASE ~(row.retry_count + 1 <= row.max_retries)
    BY <2>2, <2>4 DEF FailRow
  <2> QED
    BY <2>3, <2>4
<1>4. CancelRow(row) \in Row(D)
  BY DEF CancelRow
<1>5. RequeueRow(row) \in Row(D) /\ CancelTrashedRow(row) \in Row(D)
  BY DEF RequeueRow, CancelTrashedRow
<1>6. TouchRow(row) \in Row(D)
  BY DEF TouchRow
<1>7. DeleteRow(row) \in Row(D)
  BY DEF DeleteRow, NewRow
<1> QED
  BY <1>1, <1>2, <1>3, <1>4, <1>5, <1>6, <1>7

\* A flush keeps the type, and changes a column only if the session did.
LEMMA FlushType ==
  ASSUME NEW D, NEW db \in Row(D), NEW loaded \in Row(D), NEW new \in Row(D)
  PROVE  /\ Flush(db, loaded, new) \in Row(D)
         /\ Flush(db, loaded, new).type = db.type
         /\ Flush(db, loaded, new).doc = db.doc
         /\ Flush(db, loaded, new).status =
              Column(loaded.status, new.status, db.status)
         /\ Flush(db, loaded, new).locked_at =
              Column(loaded.locked_at, new.locked_at, db.locked_at)
<1>1. \A S, a, b, c : a \in S /\ b \in S /\ c \in S => Column(a, b, c) \in S
  BY DEF Column
<1> DEFINE c1 == Column(loaded.status, new.status, db.status)
           c2 == Column(loaded.priority, new.priority, db.priority)
           c3 == Column(loaded.retry_count, new.retry_count, db.retry_count)
           c4 == Column(loaded.locked_by, new.locked_by, db.locked_by)
           c5 == Column(loaded.locked_at, new.locked_at, db.locked_at)
           c6 == Column(loaded.available_at, new.available_at, db.available_at)
<1>2. /\ c1 \in JobStatus \cup Missing /\ c2 \in Nat /\ c3 \in Nat
      /\ c4 \in BOOLEAN /\ c5 \in {"null", "fresh", "stale"}
      /\ c6 \in {"null", "future", "past"}
  BY <1>1 DEF Row
<1>3. Flush(db, loaded, new) =
        [db EXCEPT !.status = c1, !.priority = c2, !.retry_count = c3,
                   !.locked_by = c4, !.locked_at = c5, !.available_at = c6]
  BY DEF Flush
<1> HIDE DEF c1, c2, c3, c4, c5, c6
<1>4. /\ Flush(db, loaded, new) \in Row(D)
      /\ Flush(db, loaded, new).type = db.type
      /\ Flush(db, loaded, new).doc = db.doc
      /\ Flush(db, loaded, new).status = c1
      /\ Flush(db, loaded, new).locked_at = c5
  BY <1>2, <1>3 DEF Row
<1> QED
  BY <1>4 DEF c1, c5

\* The types and statuses of the rows the operators return.
LEMMA RowStatus ==
  ASSUME NEW D, NEW row \in Row(D)
  PROVE  /\ ClaimRow(row).type = row.type /\ ClaimRow(row).status = "running"
         /\ ClaimRow(row).locked_at = "fresh"
         /\ RequeueRow(row).type = row.type
         /\ RequeueRow(row).status = "queued"
         /\ CancelTrashedRow(row).type = row.type
         /\ CancelTrashedRow(row).status = "cancelled"
         /\ TouchRow(row).type = row.type
         /\ TouchRow(row).status = row.status
         /\ TouchRow(row).locked_at \in {row.locked_at, "fresh"}
         /\ DeleteRow(row).type = row.type /\ DeleteRow(row).status = "gone"
  BY DEF Row, ClaimRow, RequeueRow, CancelTrashedRow, TouchRow, DeleteRow,
         NewRow

\* complete_job, flushed from a session that loaded the row as running or
\* cancelled: in the second case the row keeps its status.
LEMMA CompleteFlush ==
  ASSUME NEW D, NEW db \in Row(D), NEW seen \in Row(D),
         seen.status \in {"running", "cancelled"}
  PROVE  LET new == Flush(db, seen, CompleteRow(seen)) IN
         /\ new.type = db.type
         /\ new.status = IF seen.status = "cancelled" THEN db.status
                                                      ELSE "completed"
<1>1. CompleteRow(seen) \in Row(D)
  BY RowTypes
<1>2. CompleteRow(seen).status =
        IF seen.status = "cancelled" THEN seen.status ELSE "completed"
  BY DEF CompleteRow, Row
<1> QED
  BY <1>1, <1>2, FlushType DEF Column

\* fail_job, flushed from such a session, closes or reopens the row.
LEMMA FailFlush ==
  ASSUME NEW D, NEW db \in Row(D), NEW seen \in Row(D), NEW delayed \in BOOLEAN,
         seen.status \in {"running", "cancelled"}
  PROVE  LET new == Flush(db, seen, FailRow(seen, delayed)) IN
         new.type = db.type /\ new.status \in {"queued", "failed"}
<1>1. FailRow(seen, delayed) \in Row(D)
  BY RowTypes
<1>2. FailRow(seen, delayed).status \in {"queued", "failed"}
  BY DEF FailRow, Row
<1> QED
  BY <1>1, <1>2, FlushType DEF Column

\* cancel_job, flushed from a session that loaded the row at any time.
LEMMA CancelFlush ==
  ASSUME NEW D, NEW db \in Row(D), NEW seen \in Row(D)
  PROVE  LET new == Flush(db, seen, CancelRow(seen)) IN
         /\ new.type = db.type
         /\ new.status \in {db.status, "cancelled"}
         /\ new.locked_at = db.locked_at
<1>1. CancelRow(seen) \in Row(D)
  BY RowTypes
<1>2. CancelRow(seen).status \in {seen.status, "cancelled"}
      /\ CancelRow(seen).locked_at = seen.locked_at
  BY DEF CancelRow, Row
<1> QED
  BY <1>1, <1>2, FlushType DEF Column
=============================================================================
