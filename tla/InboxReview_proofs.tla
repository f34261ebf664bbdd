------------------------- MODULE InboxReview_proofs -------------------------
(***************************************************************************)
(* Theorems about InboxReview, for every finite set of documents, whatever *)
(* is suggested for them and however many loops run at a time.             *)
(***************************************************************************)
EXTENDS InboxReview, FiniteSetTheorems, SequenceTheorems, TLAPS

-----------------------------------------------------------------------------
(* Type correctness.                                                       *)

\* The sequence of a finite set's elements that a loop goes through.
LEMMA LoopType ==
  ASSUME NEW S, IsFiniteSet(S)
  PROVE  SetToSeq(S) \in Seq(S)
<1>1. Cardinality(S) \in Nat /\ ExistsBijection(1..Cardinality(S), S)
  BY FS_CardinalityType
<1>2. PICK f \in [1..Cardinality(S) -> S] : IsInjective(f)
  BY <1>1 DEF ExistsBijection, Bijection, Injection, IsInjective
<1>3. SetToSeq(S) \in [1..Cardinality(S) -> S]
  BY <1>2 DEF SetToSeq
<1> QED
  BY <1>1, <1>3

LEMMA LoopsAreFinite ==
  /\ \A S \in SUBSET Docs : IsFiniteSet(S)
  /\ \A S \in SUBSET Suggestions : IsFiniteSet(S)
<1>1. IsFiniteSet(Docs) /\ Suggestions \subseteq Docs \X {"folder", "title"}
  BY InboxAssumption
<1>2. IsFiniteSet({"folder", "title"})
  <2>1. IsFiniteSet({"folder"}) /\ IsFiniteSet({"title"})
    BY FS_Singleton
  <2>2. {"folder", "title"} = {"folder"} \cup {"title"}
    OBVIOUS
  <2> QED
    BY <2>1, <2>2, FS_Union
<1>3. IsFiniteSet(Docs \X {"folder", "title"})
  BY <1>1, <1>2, FS_Product
<1> QED
  BY <1>1, <1>3, FS_Subset

\* What the work view shows of a document is a row.
LEMMA ListType ==
  ASSUME doc \in [Docs -> DocType]
  PROVE  /\ \A t : Listed(t) \in [Docs -> RowType]
         /\ [d \in Docs |-> NoRow] \in [Docs -> RowType]
<1>1. NoRow \in RowType
  BY DEF NoRow, RowType
<1>2. ASSUME NEW d \in Docs
      PROVE  RowOf(doc[d]) \in RowType
  <2>1. doc[d] \in DocType
    OBVIOUS
  <2> QED
    BY <2>1 DEF RowOf, RowType, InboxStatus, HasTarget, DocType
<1> QED
  BY <1>1, <1>2 DEF Listed

\* What the actions make of a document's row.
LEMMA RowsWritten ==
  ASSUME NEW r \in DocType
  PROVE  /\ Assigned(r) \in DocType /\ AssignedPath(r) \in DocType
         /\ Cleared(r) \in DocType
         /\ \A how : SuggestFolder(r, how) \in DocType
         /\ \A b \in BOOLEAN : [r EXCEPT !.review = b] \in DocType
         /\ \A st \in {"preparing", "ready", "failed"} :
              [r EXCEPT !.status = st] \in DocType
         /\ [NewDoc EXCEPT !.place = "deleted"] \in DocType
  BY DEF DocType, Assigned, AssignedPath, Cleared, SuggestFolder, NewDoc,
     Setters

\* A document as it is filed.
Filed(r) ==
  [r EXCEPT !.place = "library", !.review = FALSE, !.pending = "none",
            !.folder = IF r.pending # "none" THEN r.pending ELSE @]

LEMMA FiledRow ==
  ASSUME NEW r \in DocType
  PROVE  /\ Filed(r) \in DocType /\ Filed(r).place = "library"
         /\ Filed(r).pending = "none"
         /\ Filed(r).folder = IF r.pending # "none" THEN r.pending ELSE r.folder
  BY DEF DocType, Filed, Setters

\* The steps that write documents, and what they write.
Files(ok) ==
  \A d \in Docs : doc'[d] = IF d \in ok THEN Filed(doc[d]) ELSE doc[d]

LEMMA FileWrites ==
  ASSUME doc \in [Docs -> DocType], NEW ids, NEW ok \in FiledOf(ids), File(ok)
  PROVE  /\ doc' \in [Docs -> DocType] /\ Files(ok)
         /\ \A d \in ok : CanFile(doc[d])
<1>1. doc' = [d \in Docs |-> IF d \notin ok THEN doc[d] ELSE Filed(doc[d])]
  BY DEF File, Filed
<1>2. \A d \in Docs : Filed(doc[d]) \in DocType
  BY FiledRow
<1> QED
  BY <1>1, <1>2 DEF Files, FiledOf

\* A loop or request has been written.
SaveFits == save.step # "none" => save.doc \in Docs

TypeInv == TypeOK /\ SaveFits

LEMMA TypeInit == Init => TypeInv
<1> SUFFICES ASSUME Init PROVE TypeInv
  OBVIOUS
<1>1. doc \in [Docs -> DocType]
  BY DEF Init, DocType, NewDoc, Setters
<1>2. rows \in [Docs -> RowType]
  BY DEF Init, NoRow, RowType
<1>3. edits \in 0..MaxEdits /\ retries \in 0..MaxRetries
  BY InboxAssumption DEF Init
<1>4. /\ accept \in [on : BOOLEAN, todo : Seq(Suggestions), targets : SUBSET Docs]
      /\ retry \in [on : BOOLEAN, todo : Seq(Docs)]
  BY EmptySeq DEF Init, NoAccept, NoRetry
<1> QED
  BY <1>1, <1>2, <1>3, <1>4 DEF Init, TypeInv, TypeOK, SaveFits, NoSave

DocTyped == doc \in [Docs -> DocType]

\* What an action of the server may do to documents and suggestions.
LEMMA ServerTypes ==
  ASSUME TypeInv
  PROVE  /\ \A s \in Suggestions : Accepted(s) =>
              /\ doc' \in [Docs -> DocType]
              /\ sugg' \in [Suggestions ->
                              {"none", "pending", "accepted", "rejected"}]
         /\ \A d, r : Suggested(d, r) \/ Skipped(d, r) =>
              sugg' \in [Suggestions ->
                              {"none", "pending", "accepted", "rejected"}]
<1>1. ASSUME NEW s \in Suggestions, Accepted(s)
      PROVE  /\ doc' \in [Docs -> DocType]
             /\ sugg' \in [Suggestions ->
                             {"none", "pending", "accepted", "rejected"}]
  <2>1. s[1] \in Docs
    BY InboxAssumption
  <2>2. sugg' = [sugg EXCEPT ![s] = "accepted"]
    BY <1>1 DEF Accepted
  <2>3. doc' = doc \/ \E how : doc' = [doc EXCEPT ![s[1]] =
                                         SuggestFolder(doc[s[1]], how)]
    BY <1>1 DEF Accepted
  <2>4. \A how : SuggestFolder(doc[s[1]], how) \in DocType
    BY <2>1, RowsWritten DEF TypeInv, TypeOK
  <2> QED
    BY <2>1, <2>2, <2>3, <2>4 DEF TypeInv, TypeOK
<1>2. ASSUME NEW d, NEW r, Suggested(d, r) \/ Skipped(d, r)
      PROVE  sugg' \in [Suggestions ->
                          {"none", "pending", "accepted", "rejected"}]
  BY <1>2 DEF Suggested, Skipped, TypeInv, TypeOK
<1> QED
  BY <1>1, <1>2

\* What the worker makes of a document keeps its place and its destination.
Reworked(d) ==
  \E r \in DocType :
    /\ doc' = [doc EXCEPT ![d] = r]
    /\ r.place = doc[d].place
    /\ r.folder = doc[d].folder /\ r.pending = doc[d].pending

LEMMA WorkerReworks ==
  ASSUME TypeInv, NEW d \in Docs,
         RetryPreflight(d) \/ Prepared(d) \/ Requested(d)
  PROVE  Reworked(d)
<1>1. doc \in [Docs -> DocType] /\ doc[d] \in DocType
  BY DEF TypeInv, TypeOK
<1>2. ASSUME NEW st \in {"preparing", "ready", "failed"}, NEW b \in BOOLEAN
      PROVE  LET r == [[doc[d] EXCEPT !.status = st] EXCEPT !.review = b]
             IN  /\ r \in DocType /\ r.place = doc[d].place
                 /\ r.folder = doc[d].folder /\ r.pending = doc[d].pending
  BY <1>1 DEF DocType
<1>3. ASSUME NEW st \in {"preparing", "ready", "failed"}, NEW b \in BOOLEAN,
             doc' = [doc EXCEPT ![d] =
                       [[doc[d] EXCEPT !.status = st] EXCEPT !.review = b]]
      PROVE  Reworked(d)
  BY <1>2, <1>3 DEF Reworked
<1>4. doc[d].review \in BOOLEAN /\ doc[d].status \in {"preparing", "ready", "failed"}
  BY <1>1 DEF DocType
<1>5. ASSUME NEW st \in {"preparing", "ready", "failed"}
      PROVE  /\ [doc[d] EXCEPT !.status = st].review = doc[d].review
             /\ [doc[d] EXCEPT !.status = st]
                  = [[doc[d] EXCEPT !.status = st] EXCEPT !.review = doc[d].review]
  BY <1>1 DEF DocType
<1>6. ASSUME NEW st \in {"preparing", "ready", "failed"},
             LET r == [doc[d] EXCEPT !.status = st]
             IN  Suggested(d, r) \/ Skipped(d, r)
      PROVE  Reworked(d)
  <2>1. \E b \in BOOLEAN :
          doc' = [doc EXCEPT ![d] =
                    [[doc[d] EXCEPT !.status = st] EXCEPT !.review = b]]
    BY <1>4, <1>5, <1>6 DEF Suggested, Skipped
  <2> QED
    BY <1>3, <2>1
<1>7. CASE RetryPreflight(d)
  <2>1. doc' = [doc EXCEPT ![d] = [doc[d] EXCEPT !.status = "preparing"]]
    BY <1>7 DEF RetryPreflight
  <2> QED
    BY <1>3, <1>4, <1>5, <2>1
<1>8. CASE Prepared(d)
  <2>1. CASE doc' = [doc EXCEPT ![d] = [doc[d] EXCEPT !.status = "failed"]]
    BY <1>3, <1>4, <1>5, <2>1
  <2> QED
    BY <1>6, <1>8, <2>1 DEF Prepared
<1>9. CASE Requested(d)
  <2>1. doc[d] = [doc[d] EXCEPT !.status = doc[d].status]
    BY <1>1 DEF DocType
  <2>2. CASE doc' = doc
    <3>1. doc' = [doc EXCEPT ![d] = doc[d]]
      BY <1>1, <2>2
    <3> QED
      BY <1>1, <3>1 DEF Reworked
  <2>3. CASE Suggested(d, doc[d])
    BY <1>4, <1>6, <2>1, <2>3
  <2> QED
    BY <1>9, <2>2, <2>3 DEF Requested
<1> QED
  BY <1>7, <1>8, <1>9

LEMMA ReworkedType ==
  ASSUME TypeInv, NEW d \in Docs, Reworked(d)
  PROVE  doc' \in [Docs -> DocType]
  BY DEF Reworked, TypeInv, TypeOK

\* The type invariant in three parts.
ServerOK ==
  /\ doc \in [Docs -> DocType]
  /\ sugg \in [Suggestions -> {"none", "pending", "accepted", "rejected"}]
  /\ chosen \subseteq Docs
  /\ edits \in 0..MaxEdits /\ retries \in 0..MaxRetries

PageOK ==
  /\ view \in {"work", "overview"}
  /\ tab \in {"all", "ready"}
  /\ rows \in [Docs -> RowType]
  /\ offered \subseteq Suggestions
  /\ selected \subseteq Docs

RequestsOK ==
  /\ process \subseteq Docs /\ remove \subseteq Docs
  /\ save \in [step : {"none", "update", "process"},
               doc : Docs \cup {"none"}, target : BOOLEAN]
  /\ accept \in [on : BOOLEAN, todo : Seq(Suggestions), targets : SUBSET Docs]
  /\ retry \in [on : BOOLEAN, todo : Seq(Docs)]
  /\ SaveFits

LEMMA TypeParts == TypeInv <=> ServerOK /\ PageOK /\ RequestsOK
  BY DEF TypeInv, TypeOK, ServerOK, PageOK, RequestsOK

LEMMA PartsStay ==
  /\ ServerOK /\ UNCHANGED server => ServerOK'
  /\ PageOK /\ UNCHANGED page => PageOK'
  /\ RequestsOK /\ UNCHANGED requests => RequestsOK'
  BY DEF ServerOK, PageOK, RequestsOK, SaveFits, server, page, requests

\* The list and what is selected of it.
LEMMA PageSteps ==
  ASSUME ServerOK, PageOK, RequestsOK,
         \/ Refetch \/ PollSuggestions \/ SelectAll \/ EnterWork \/ GoBack
         \/ \E t \in {"all", "ready"} : SetTab(t)
         \/ \E d \in Docs : Select(d)
  PROVE  ServerOK' /\ PageOK' /\ RequestsOK'
<1>1. UNCHANGED server
  BY DEF Refetch, PollSuggestions, SelectAll, EnterWork, GoBack, SetTab, Select
<1>2. RequestsOK'
  <2>1. CASE GoBack
    BY <2>1 DEF GoBack, RequestsOK, SaveFits
  <2>2. CASE UNCHANGED requests
    BY <2>2, PartsStay
  <2> QED
    BY <2>1, <2>2 DEF Refetch, PollSuggestions, SelectAll, EnterWork, SetTab,
       Select
<1>3. /\ \A t : Listed(t) \in [Docs -> RowType]
      /\ [d \in Docs |-> NoRow] \in [Docs -> RowType]
      /\ Visible \subseteq Docs
  BY ListType DEF ServerOK, Visible
<1>4. PageOK'
  BY <1>3 DEF PageOK, Refetch, PollSuggestions, SelectAll, EnterWork, GoBack,
     SetTab, Select, Mounted
<1> QED
  BY <1>1, <1>2, <1>4, PartsStay

\* Destinations by hand, chips, retries and the worker: only the server's
\* documents and suggestions change.
LEMMA ServerSteps ==
  ASSUME ServerOK, PageOK, RequestsOK,
         \/ \E d \in Docs : \/ AssignFolder(d) \/ AssignNewPath(d)
                            \/ ClearDestination(d) \/ RetrySuggestions(d)
                            \/ RetryPreflight(d) \/ Prepared(d)
         \/ \E s \in Suggestions : AcceptChip(s) \/ RejectChip(s)
  PROVE  ServerOK' /\ PageOK' /\ RequestsOK'
<1>1. UNCHANGED <<page, requests>>
  BY DEF AssignFolder, AssignNewPath, ClearDestination, RetrySuggestions,
     RetryPreflight, Prepared, AcceptChip, RejectChip, Edit
<1>2. TypeInv
  BY TypeParts
<1>3. \A r \in DocType :
        /\ Assigned(r) \in DocType /\ AssignedPath(r) \in DocType
        /\ Cleared(r) \in DocType
        /\ \A st \in {"preparing", "ready", "failed"} :
             [r EXCEPT !.status = st] \in DocType
  BY RowsWritten
<1>4. ASSUME NEW d \in Docs,
             AssignFolder(d) \/ AssignNewPath(d) \/ ClearDestination(d)
      PROVE  ServerOK'
  <2>1. PICK r \in DocType : doc' = [doc EXCEPT ![d] = r]
    BY <1>3, <1>4
    DEF AssignFolder, AssignNewPath, ClearDestination, Edit, ServerOK
  <2>2. edits' \in 0..MaxEdits /\ sugg' = sugg /\ retries' = retries
    BY <1>4, InboxAssumption
    DEF AssignFolder, AssignNewPath, ClearDestination, Edit, ServerOK
  <2>3. chosen' \subseteq Docs
    BY <1>4 DEF AssignFolder, AssignNewPath, ClearDestination, ServerOK
  <2> QED
    BY <2>1, <2>2, <2>3 DEF ServerOK
<1>5. ASSUME NEW d \in Docs, RetryPreflight(d) \/ Prepared(d)
      PROVE  ServerOK'
  <2>3. doc' \in [Docs -> DocType]
    BY <1>2, <1>5, WorkerReworks, ReworkedType
  <2>4. sugg' \in [Suggestions -> {"none", "pending", "accepted", "rejected"}]
    BY <1>2, <1>5, ServerTypes DEF RetryPreflight, Prepared, ServerOK
  <2>5. /\ chosen' = chosen /\ edits' = edits
        /\ retries' \in 0..MaxRetries
    BY <1>5, InboxAssumption DEF RetryPreflight, Prepared, ServerOK
  <2> QED
    BY <2>3, <2>4, <2>5 DEF ServerOK
<1>6. ASSUME NEW d \in Docs, RetrySuggestions(d)
      PROVE  ServerOK'
  <2>1. Requested(d) /\ chosen' = chosen /\ edits' = edits
    BY <1>6 DEF RetrySuggestions
  <2>2. doc' \in [Docs -> DocType]
    BY <1>2, <2>1, WorkerReworks, ReworkedType
  <2>3. /\ sugg' \in [Suggestions -> {"none", "pending", "accepted", "rejected"}]
        /\ retries' \in 0..MaxRetries
    BY <1>2, <2>1, ServerTypes, InboxAssumption DEF Requested, ServerOK
  <2> QED
    BY <2>1, <2>2, <2>3 DEF ServerOK
<1>7. ASSUME NEW s \in Suggestions, AcceptChip(s)
      PROVE  ServerOK'
  BY <1>2, <1>7, ServerTypes DEF AcceptChip, ServerOK
<1>8. ASSUME NEW s \in Suggestions, RejectChip(s)
      PROVE  ServerOK'
  BY <1>8 DEF RejectChip, ServerOK
<1> QED
  BY <1>1, <1>4, <1>5, <1>6, <1>7, <1>8, PartsStay

\* The requests and loops begin.
LEMMA StartSteps ==
  ASSUME ServerOK, PageOK, RequestsOK,
         \/ StartProcess \/ StartRetryBatch \/ CancelRemove
         \/ \E d \in Docs : StartSave(d)
         \/ \E ids \in SUBSET Docs : StartAcceptAll(ids) \/ OpenRemove(ids)
  PROVE  ServerOK' /\ PageOK' /\ RequestsOK'
<1>1. UNCHANGED <<server, page>>
  BY DEF StartProcess, StartRetryBatch, CancelRemove, StartSave,
     StartAcceptAll, OpenRemove
<1>2. Visible \subseteq Docs /\ Scope \subseteq Docs /\ RetryTargets \subseteq Docs
      /\ \A ids : PendingIn(ids) \subseteq Suggestions
  BY DEF Visible, Scope, VisibleSelected, RetryTargets, PendingIn, PageOK
<1>3. CASE StartProcess
  <2>1. process' \subseteq Docs /\ UNCHANGED <<save, accept, retry, remove>>
    BY <1>2, <1>3 DEF StartProcess, ProcessTargets
  <2> QED
    BY <1>1, <2>1, PartsStay DEF RequestsOK, SaveFits
<1>4. CASE StartRetryBatch
  <2>1. SetToSeq(RetryTargets) \in Seq(RetryTargets)
    BY <1>2, LoopsAreFinite, LoopType
  <2>2. SetToSeq(RetryTargets) \in Seq(Docs)
    BY <1>2, <2>1, SeqMonotonic
  <2> QED
    BY <1>1, <1>4, <2>2, PartsStay DEF StartRetryBatch, RequestsOK, SaveFits
<1>5. CASE CancelRemove
  BY <1>1, <1>5, PartsStay DEF CancelRemove, RequestsOK, SaveFits
<1>6. ASSUME NEW d \in Docs, StartSave(d)
      PROVE  RequestsOK'
  <2>1. rows[d].target \in BOOLEAN
    BY DEF PageOK, RowType
  <2> QED
    BY <1>6, <2>1 DEF StartSave, RequestsOK, SaveFits
<1>7. ASSUME NEW ids \in SUBSET Docs, StartAcceptAll(ids)
      PROVE  RequestsOK'
  <2>1. SetToSeq(PendingIn(ids)) \in Seq(PendingIn(ids))
    BY <1>2, LoopsAreFinite, LoopType
  <2>2. SetToSeq(PendingIn(ids)) \in Seq(Suggestions)
    BY <1>2, <2>1, SeqMonotonic
  <2>3. {d \in Visible : rows[d].target} \in SUBSET Docs
    BY <1>2
  <2> QED
    BY <1>7, <2>2, <2>3 DEF StartAcceptAll, RequestsOK, SaveFits
<1>8. ASSUME NEW ids \in SUBSET Docs, OpenRemove(ids)
      PROVE  RequestsOK'
  BY <1>8 DEF OpenRemove, RequestsOK, SaveFits
<1> QED
  BY <1>1, <1>3, <1>4, <1>5, <1>6, <1>7, <1>8, PartsStay

\* ... and go on.
LEMMA LoopSteps ==
  ASSUME ServerOK, PageOK, RequestsOK,
         \/ SaveUpdates \/ SaveProcesses \/ FinishProcess \/ AcceptNext
         \/ EndAcceptAll \/ RetryNext \/ EndRetryBatch \/ ConfirmRemove
  PROVE  ServerOK' /\ PageOK' /\ RequestsOK'
<1>1. TypeInv
  BY TypeParts
<1>2. CASE SaveUpdates
  <2>1. save.doc \in Docs /\ save.target \in BOOLEAN
    BY <1>2 DEF SaveUpdates, RequestsOK, SaveFits
  <2>2. /\ UNCHANGED <<page, sugg, chosen, edits, retries>>
        /\ UNCHANGED <<process, accept, retry, remove>>
        /\ \/ doc' = doc
           \/ doc' = [doc EXCEPT ![save.doc] =
                        [doc[save.doc] EXCEPT !.review = ~save.target]]
        /\ save' \in {NoSave, [save EXCEPT !.step = "process"]}
    BY <1>2 DEF SaveUpdates
  <2>3. doc' \in [Docs -> DocType]
    <3>1. [doc[save.doc] EXCEPT !.review = ~save.target] \in DocType
      BY <2>1, RowsWritten DEF ServerOK
    <3> QED
      BY <2>1, <2>2, <3>1 DEF ServerOK
  <2>4. RequestsOK'
    <3>1. /\ save' \in [step : {"none", "update", "process"},
                        doc : Docs \cup {"none"}, target : BOOLEAN]
          /\ save'.step # "none" => save'.doc \in Docs
      <4>1. /\ NoSave.step = "none"
            /\ NoSave \in [step : {"none", "update", "process"},
                           doc : Docs \cup {"none"}, target : BOOLEAN]
        BY DEF NoSave
      <4> DEFINE next == [save EXCEPT !.step = "process"]
      <4>2. /\ next.doc \in Docs
            /\ next \in [step : {"none", "update", "process"},
                         doc : Docs \cup {"none"}, target : BOOLEAN]
        BY <2>1 DEF RequestsOK
      <4>3. save' = NoSave \/ save' = next
        BY <2>2
      <4> HIDE DEF next
      <4> QED
        BY <4>1, <4>2, <4>3
    <3> QED
      BY <2>2, <3>1 DEF RequestsOK, SaveFits
  <2> QED
    BY <2>2, <2>3, <2>4, PartsStay DEF ServerOK
<1>3. CASE SaveProcesses
  <2>1. PICK ok \in FiledOf({save.doc}) : File(ok)
    BY <1>3 DEF SaveProcesses
  <2>2. doc' \in [Docs -> DocType]
    BY <2>1, FileWrites DEF ServerOK
  <2>3. /\ UNCHANGED <<page, sugg, chosen, edits, retries>>
        /\ UNCHANGED <<process, accept, retry, remove>> /\ save' = NoSave
    BY <1>3 DEF SaveProcesses
  <2> QED
    BY <2>2, <2>3, PartsStay DEF ServerOK, RequestsOK, SaveFits, NoSave
<1>4. CASE FinishProcess
  <2>1. doc' \in [Docs -> DocType]
    BY <1>4, FileWrites DEF FinishProcess, ServerOK
  <2>2. UNCHANGED <<sugg, chosen, edits, retries, offered, save, accept, retry>>
    BY <1>4 DEF FinishProcess
  <2>3. process' = {} /\ (remove' = {} \/ remove' = remove)
    BY <1>4 DEF FinishProcess
  <2>4. /\ view' \in {"work", "overview"} /\ tab' \in {"all", "ready"}
        /\ rows' \in [Docs -> RowType] /\ selected' \subseteq Docs
    BY <1>4, ListType DEF FinishProcess, Mounted, PageOK, ServerOK
  <2> QED
    BY <2>1, <2>2, <2>3, <2>4 DEF ServerOK, PageOK, RequestsOK, SaveFits
<1>5. CASE AcceptNext
  <2>1. accept.todo \in Seq(Suggestions) /\ accept.todo # <<>>
    BY <1>5 DEF AcceptNext, RequestsOK
  <2>2. Head(accept.todo) \in Suggestions /\ Tail(accept.todo) \in Seq(Suggestions)
    BY <2>1, HeadTailProperties
  <2>3. /\ doc' \in [Docs -> DocType]
        /\ sugg' \in [Suggestions ->
                        {"none", "pending", "accepted", "rejected"}]
    BY <1>1, <1>5, <2>2, ServerTypes DEF AcceptNext, ServerOK
  <2>4. /\ UNCHANGED <<chosen, edits, retries, page, process, save, retry,
                       remove>>
        /\ accept' = [accept EXCEPT !.todo = Tail(accept.todo)]
    BY <1>5 DEF AcceptNext
  <2> QED
    BY <2>2, <2>3, <2>4, PartsStay DEF ServerOK, RequestsOK, SaveFits
<1>6. CASE EndAcceptAll
  <2>1. rows' \in [Docs -> RowType] /\ offered' \subseteq Suggestions
    BY <1>6, ListType DEF EndAcceptAll, PageOK, ServerOK
  <2>2. /\ UNCHANGED <<server, view, tab, selected, process, save, retry, remove>>
        /\ accept' = NoAccept
    BY <1>6 DEF EndAcceptAll
  <2>3. NoAccept \in [on : BOOLEAN, todo : Seq(Suggestions), targets : SUBSET Docs]
    BY EmptySeq DEF NoAccept
  <2> QED
    BY <2>1, <2>2, <2>3, PartsStay DEF PageOK, RequestsOK, SaveFits
<1>7. CASE RetryNext
  <2>1. retry.todo \in Seq(Docs) /\ retry.todo # <<>>
    BY <1>7 DEF RetryNext, RequestsOK
  <2>2. Tail(retry.todo) \in Seq(Docs)
    BY <2>1, HeadTailProperties
  <2>3. /\ sugg' \in [Suggestions ->
                        {"none", "pending", "accepted", "rejected"}]
        /\ retries' \in 0..MaxRetries
    BY <1>1, <1>7, ServerTypes, InboxAssumption
    DEF RetryNext, Requested, ServerOK
  <2>5. doc' \in [Docs -> DocType]
    <3>1. Head(retry.todo) \in Docs
      BY <2>1, HeadTailProperties
    <3>2. CASE Requested(Head(retry.todo))
      BY <1>1, <3>1, <3>2, WorkerReworks, ReworkedType
    <3>3. CASE doc' = doc
      BY <3>3 DEF ServerOK
    <3> QED
      BY <1>7, <3>2, <3>3 DEF RetryNext
  <2>4. /\ UNCHANGED <<chosen, edits, page, process, save, accept, remove>>
        /\ retry' = [retry EXCEPT !.todo = Tail(retry.todo)]
    BY <1>7 DEF RetryNext
  <2> QED
    BY <2>2, <2>3, <2>4, <2>5, PartsStay DEF ServerOK, RequestsOK, SaveFits
<1>8. CASE EndRetryBatch
  <2>1. rows' \in [Docs -> RowType]
    BY <1>8, ListType DEF EndRetryBatch, PageOK, ServerOK
  <2>2. /\ UNCHANGED <<server, view, tab, offered, selected>>
        /\ UNCHANGED <<process, save, accept, remove>> /\ retry' = NoRetry
    BY <1>8 DEF EndRetryBatch
  <2>3. NoRetry \in [on : BOOLEAN, todo : Seq(Docs)]
    BY EmptySeq DEF NoRetry
  <2> QED
    BY <2>1, <2>2, <2>3, PartsStay DEF PageOK, RequestsOK, SaveFits
<1>9. CASE ConfirmRemove
  <2>1. doc' \in [Docs -> DocType]
    <3>1. /\ [NewDoc EXCEPT !.place = "deleted"] \in DocType
      BY DEF DocType, NewDoc, Setters
    <3> QED
      BY <1>9, <3>1 DEF ConfirmRemove, ServerOK
  <2>2. /\ sugg' \in [Suggestions ->
                        {"none", "pending", "accepted", "rejected"}]
        /\ chosen' \subseteq Docs /\ selected' \subseteq Docs /\ remove' = {}
    BY <1>9 DEF ConfirmRemove, ServerOK, PageOK
  <2>3. UNCHANGED <<edits, retries, view, tab, rows, offered, process, save,
                    accept, retry>>
    BY <1>9 DEF ConfirmRemove
  <2> QED
    BY <2>1, <2>2, <2>3 DEF ServerOK, PageOK, RequestsOK, SaveFits
<1> QED
  BY <1>2, <1>3, <1>4, <1>5, <1>6, <1>7, <1>8, <1>9

LEMMA TypeStep == TypeInv /\ [Next]_vars => TypeInv'
<1> SUFFICES ASSUME ServerOK, PageOK, RequestsOK, [Next]_vars
             PROVE  ServerOK' /\ PageOK' /\ RequestsOK'
  BY TypeParts, PTL
<1>1. CASE UNCHANGED vars
  BY <1>1, PartsStay DEF vars
<1>2. CASE \E d \in Docs : OnDoc(d)
  BY <1>2, PageSteps, ServerSteps, StartSteps DEF OnDoc
<1>3. CASE StartAcceptAll(Scope)
  <2>1. Scope \in SUBSET Docs
    BY DEF Scope, Visible, VisibleSelected, PageOK
  <2> QED
    BY <1>3, <2>1, StartSteps
<1>4. CASE Worker \/ Poll \/ Refetch \/ PollSuggestions
  BY <1>4, PageSteps, ServerSteps DEF Worker, Poll
<1>5. CASE Loops
  BY <1>5, LoopSteps DEF Loops
<1>6. CASE User /\ ~(\E d \in Docs : OnDoc(d)) /\ ~StartAcceptAll(Scope)
  BY <1>6, PageSteps, ServerSteps, StartSteps, LoopSteps DEF User
<1> QED
  BY <1>1, <1>2, <1>3, <1>4, <1>5, <1>6 DEF Next, User

\* Every reachable state of the inbox is type correct; the loops and requests
\* that are under way have documents to go on with.
THEOREM InboxTypeCorrect == Spec => []TypeOK
<1>1. TypeInv => TypeOK
  BY DEF TypeInv
<1> QED
  BY <1>1, TypeInit, TypeStep, PTL DEF Spec

-----------------------------------------------------------------------------
(* Destinations.                                                           *)

\* Where a document with this row goes was said by the user.
ByUser(r) == IF r.pending # "none" THEN r.pending = "user" ELSE r.folder = "user"

\* A suggestion leaves such a row alone, and filing keeps the destination.
LEMMA UserStays ==
  ASSUME NEW r \in DocType, ByUser(r)
  PROVE  /\ \A how : SuggestFolder(r, how) = r
         /\ ByUser(Filed(r))
         /\ \A b \in BOOLEAN : ByUser([r EXCEPT !.review = b])
         /\ \A st \in {"preparing", "ready", "failed"} :
              ByUser([r EXCEPT !.status = st])
<1>1. \A how : SuggestFolder(r, how) = r
  BY DEF ByUser, SuggestFolder, HasTarget
<1>2. ByUser(Filed(r))
  BY FiledRow DEF ByUser
<1>3. \A b \in BOOLEAN : ByUser([r EXCEPT !.review = b])
  BY DEF ByUser, DocType
<1>4. \A st \in {"preparing", "ready", "failed"} : ByUser([r EXCEPT !.status = st])
  BY DEF ByUser, DocType
<1> QED
  BY <1>1, <1>2, <1>3, <1>4

\* A step that leaves what users have chosen.
ChoiceKept == \A d \in chosen' : d \in chosen /\ (ByUser(doc[d]) => ByUser(doc'[d]))

LEMMA AcceptedKeeps ==
  ASSUME TypeInv, NEW s \in Suggestions, Accepted(s), NEW d \in Docs,
         ByUser(doc[d])
  PROVE  ByUser(doc'[d])
<1>1. s[1] \in Docs
  BY InboxAssumption
<1>2. doc' = doc \/ \E how : doc' = [doc EXCEPT ![s[1]] =
                                       SuggestFolder(doc[s[1]], how)]
  BY DEF Accepted
<1>3. doc[d] \in DocType /\ doc \in [Docs -> DocType]
  BY DEF TypeInv, TypeOK
<1>4. d = s[1] => \A how : SuggestFolder(doc[s[1]], how) = doc[d]
  BY <1>3, UserStays
<1> QED
  BY <1>1, <1>2, <1>3, <1>4

LEMMA FileKeeps ==
  ASSUME TypeInv, NEW ids, NEW ok \in FiledOf(ids), File(ok), NEW d \in Docs,
         ByUser(doc[d])
  PROVE  ByUser(doc'[d])
<1>1. Files(ok) /\ doc[d] \in DocType
  BY FileWrites DEF TypeInv, TypeOK
<1> QED
  BY <1>1, UserStays DEF Files

\* A step is the user's own choice, or keeps what was chosen.
LEMMA ChoiceStep ==
  ASSUME TypeInv, [Next]_vars
  PROVE  \/ \E d \in Docs : /\ chosen' = chosen \cup {d}
                            /\ \E r \in DocType : /\ ByUser(r)
                                                  /\ doc' = [doc EXCEPT ![d] = r]
         \/ ChoiceKept
<1>1. /\ doc \in [Docs -> DocType] /\ chosen \subseteq Docs
      /\ \A d \in Docs : doc[d] \in DocType
  BY DEF TypeInv, TypeOK
<1>2. ASSUME UNCHANGED <<doc, chosen>>
      PROVE  ChoiceKept
  BY <1>2 DEF ChoiceKept
<1>3. ASSUME NEW d \in Docs, AssignFolder(d) \/ AssignNewPath(d)
      PROVE  \E e \in Docs : /\ chosen' = chosen \cup {e}
                             /\ \E r \in DocType :
                                  ByUser(r) /\ doc' = [doc EXCEPT ![e] = r]
  <2>1. /\ Assigned(doc[d]) \in DocType /\ AssignedPath(doc[d]) \in DocType
        /\ ByUser(Assigned(doc[d])) /\ ByUser(AssignedPath(doc[d]))
    <3>1. doc[d] \in DocType
      BY <1>1
    <3> QED
      BY <3>1, RowsWritten DEF ByUser, Assigned, AssignedPath, DocType
  <2>2. \E r \in {Assigned(doc[d]), AssignedPath(doc[d])} :
          doc' = [doc EXCEPT ![d] = r]
    BY <1>3 DEF AssignFolder, AssignNewPath, Edit
  <2>3. chosen' = chosen \cup {d}
    BY <1>3 DEF AssignFolder, AssignNewPath
  <2> QED
    BY <2>1, <2>2, <2>3
<1>4. ASSUME NEW d \in Docs, ClearDestination(d)
      PROVE  ChoiceKept
  <2>1. chosen' = chosen \ {d} /\ doc' = [doc EXCEPT ![d] = Cleared(doc[d])]
    BY <1>4 DEF ClearDestination, Edit
  <2> QED
    BY <1>1, <2>1 DEF ChoiceKept
<1>5. ASSUME NEW d \in Docs, Reworked(d), chosen' = chosen
      PROVE  ChoiceKept
  <2>1. PICK r \in DocType : /\ doc' = [doc EXCEPT ![d] = r]
                             /\ r.folder = doc[d].folder
                             /\ r.pending = doc[d].pending
    BY <1>5 DEF Reworked
  <2>2. ByUser(doc[d]) => ByUser(r)
    BY <2>1 DEF ByUser
  <2> QED
    BY <1>1, <1>5, <2>1, <2>2 DEF ChoiceKept
<1>6. ASSUME NEW d \in Docs,
             RetryPreflight(d) \/ Prepared(d) \/ RetrySuggestions(d)
      PROVE  ChoiceKept
  BY <1>5, <1>6, WorkerReworks
  DEF RetryPreflight, Prepared, RetrySuggestions
<1>7. CASE RetryNext
  <2>1. retry.todo \in Seq(Docs) /\ retry.todo # <<>>
    BY <1>7 DEF RetryNext, TypeInv, TypeOK
  <2>2. Head(retry.todo) \in Docs
    BY <2>1, HeadTailProperties
  <2> QED
    BY <1>2, <1>5, <1>7, <2>2, WorkerReworks DEF RetryNext
<1>8. ASSUME NEW s \in Suggestions, Accepted(s), chosen' = chosen
      PROVE  ChoiceKept
  BY <1>1, <1>8, AcceptedKeeps DEF ChoiceKept
<1>9. ASSUME NEW ids, NEW ok \in FiledOf(ids), File(ok), chosen' = chosen
      PROVE  ChoiceKept
  BY <1>1, <1>9, FileKeeps DEF ChoiceKept
<1>10. CASE SaveUpdates
  <2>1. save.doc \in Docs /\ save.target \in BOOLEAN
    BY <1>10 DEF SaveUpdates, TypeInv, TypeOK, SaveFits
  <2>2. /\ chosen' = chosen
        /\ \/ doc' = doc
           \/ doc' = [doc EXCEPT ![save.doc] =
                        [doc[save.doc] EXCEPT !.review = ~save.target]]
    BY <1>10 DEF SaveUpdates
  <2>3. ByUser(doc[save.doc])
          => ByUser([doc[save.doc] EXCEPT !.review = ~save.target])
    BY <1>1, <2>1, UserStays
  <2> QED
    BY <1>1, <2>1, <2>2, <2>3 DEF ChoiceKept
<1>11. CASE AcceptNext
  <2>1. accept.todo \in Seq(Suggestions) /\ accept.todo # <<>>
    BY <1>11 DEF AcceptNext, TypeInv, TypeOK
  <2>2. Head(accept.todo) \in Suggestions
    BY <2>1, HeadTailProperties
  <2> QED
    BY <1>2, <1>8, <1>11, <2>2 DEF AcceptNext
<1>12. CASE ConfirmRemove
  <2>1. /\ chosen' = chosen \ remove
        /\ \A d \in Docs : d \notin remove => doc'[d] = doc[d]
    BY <1>12 DEF ConfirmRemove
  <2> QED
    BY <1>1, <2>1 DEF ChoiceKept
<1>13. CASE SaveProcesses
  BY <1>9, <1>13 DEF SaveProcesses
<1>14. CASE FinishProcess
  BY <1>2, <1>9, <1>14 DEF FinishProcess
<1>15. ASSUME NEW s \in Suggestions, AcceptChip(s) \/ RejectChip(s)
       PROVE  ChoiceKept
  BY <1>2, <1>8, <1>15 DEF AcceptChip, RejectChip
<1>16. CASE EndAcceptAll \/ EndRetryBatch
  BY <1>2, <1>16 DEF EndAcceptAll, EndRetryBatch, server
<1>17. CASE Poll \/ Refetch \/ PollSuggestions \/ UNCHANGED vars
  BY <1>2, <1>17 DEF Poll, Refetch, PollSuggestions, vars, server
<1>18. CASE \E d \in Docs : OnDoc(d)
  <2>1. PICK d \in Docs : OnDoc(d)
    BY <1>18
  <2>2. CASE Select(d) \/ StartSave(d) \/ StartAcceptAll({d})
    BY <1>2, <2>2 DEF Select, StartSave, StartAcceptAll, server
  <2> QED
    BY <1>3, <1>4, <1>6, <2>1, <2>2 DEF OnDoc
<1>19. CASE \/ SelectAll \/ EnterWork \/ GoBack \/ StartProcess
            \/ StartAcceptAll(Scope) \/ StartRetryBatch \/ CancelRemove
            \/ \E ids \in SUBSET Docs : OpenRemove(ids)
            \/ \E t \in {"all", "ready"} : SetTab(t)
  BY <1>2, <1>19 DEF SelectAll, EnterWork, GoBack, StartProcess,
     StartAcceptAll, StartRetryBatch, CancelRemove, OpenRemove, SetTab, server
<1> QED
  BY <1>6, <1>7, <1>10, <1>11, <1>12, <1>13, <1>14, <1>15, <1>16, <1>17,
     <1>18, <1>19
  DEF Next, User, Loops, Worker

\* Wherever the user sends a document, it goes: suggestions that are accepted
\* late, by a chip or by a loop, never replace the destination, and filing the
\* document keeps it.
THEOREM DestinationsStay == Spec => []ChosenDestinationStays
<1> DEFINE ChoiceInv == TypeInv /\ \A d \in chosen : ByUser(doc[d])
<1>1. Init => ChoiceInv
  BY TypeInit DEF Init
<1>2. ChoiceInv /\ [Next]_vars => ChoiceInv'
  <2> SUFFICES ASSUME ChoiceInv, [Next]_vars, NEW d \in chosen'
               PROVE  ByUser(doc'[d])
    BY TypeStep
  <2>1. doc \in [Docs -> DocType] /\ chosen \subseteq Docs
    BY DEF TypeInv, TypeOK
  <2>2. CASE ChoiceKept
    BY <2>2 DEF ChoiceKept
  <2>3. ASSUME NEW e \in Docs, chosen' = chosen \cup {e}, NEW r \in DocType,
               ByUser(r), doc' = [doc EXCEPT ![e] = r]
        PROVE  ByUser(doc'[d])
    BY <2>1, <2>3
  <2> QED
    BY <2>2, <2>3, ChoiceStep
<1>3. ChoiceInv => ChosenDestinationStays
  BY DEF ChosenDestinationStays, ByUser
<1> QED
  BY <1>1, <1>2, <1>3, PTL DEF Spec

-----------------------------------------------------------------------------
(* Filing.                                                                 *)

\* What a step may do to where a document is.
Moves(d) ==
  IF doc[d].place = "library" THEN doc'[d].place = "library"
  ELSE doc'[d].place = "library" =>
         /\ doc[d].place = "queue" /\ doc[d].status = "ready"
         /\ doc'[d].folder # "none"

LEMMA FilingStep ==
  ASSUME TypeInv, [Next]_vars, NEW d \in Docs
  PROVE  Moves(d)
<1>1. doc \in [Docs -> DocType] /\ \A e \in Docs : doc[e] \in DocType
  BY DEF TypeInv, TypeOK
<1>2. ASSUME doc'[d].place = doc[d].place
      PROVE  Moves(d)
  BY <1>2 DEF Moves
<1>3. ASSUME NEW e \in Docs, NEW r,
             doc' = [doc EXCEPT ![e] = r], r.place = doc[e].place
      PROVE  Moves(d)
  BY <1>1, <1>2, <1>3
<1>4. ASSUME NEW s \in Suggestions, Accepted(s)
      PROVE  Moves(d)
  <2>1. s[1] \in Docs
    BY InboxAssumption
  <2>2. doc' = doc \/ \E how : doc' = [doc EXCEPT ![s[1]] =
                                         SuggestFolder(doc[s[1]], how)]
    BY <1>4 DEF Accepted
  <2>3. \A how : SuggestFolder(doc[s[1]], how).place = doc[s[1]].place
    BY <1>1, <2>1 DEF SuggestFolder, DocType
  <2> QED
    BY <1>2, <1>3, <2>1, <2>2, <2>3
<1>5. ASSUME NEW ids, NEW ok \in FiledOf(ids), File(ok)
      PROVE  Moves(d)
  <2>1. Files(ok) /\ \A e \in ok : CanFile(doc[e])
    BY <1>1, <1>5, FileWrites
  <2>2. CASE d \in ok
    <3>1. doc'[d] = Filed(doc[d]) /\ CanFile(doc[d])
      BY <2>1, <2>2 DEF Files
    <3> QED
      BY <1>1, <3>1, FiledRow DEF Moves, CanFile, HasTarget
  <2>3. CASE d \notin ok
    BY <1>2, <2>1, <2>3 DEF Files
  <2> QED
    BY <2>2, <2>3
<1>6. ASSUME NEW e \in Docs,
             AssignFolder(e) \/ AssignNewPath(e) \/ ClearDestination(e)
      PROVE  Moves(d)
  <2>1. \E r \in {Assigned(doc[e]), AssignedPath(doc[e]), Cleared(doc[e])} :
          doc' = [doc EXCEPT ![e] = r]
    BY <1>6 DEF AssignFolder, AssignNewPath, ClearDestination, Edit
  <2>2. \A r \in {Assigned(doc[e]), AssignedPath(doc[e]), Cleared(doc[e])} :
          r.place = doc[e].place
    BY <1>1 DEF Assigned, AssignedPath, Cleared, DocType
  <2> QED
    BY <1>3, <2>1, <2>2
<1>7. ASSUME NEW e \in Docs,
             RetryPreflight(e) \/ Prepared(e) \/ Requested(e)
      PROVE  Moves(d)
  BY <1>3, <1>7, WorkerReworks DEF Reworked
<1>18. CASE RetryNext
  <2>1. retry.todo \in Seq(Docs) /\ retry.todo # <<>>
    BY <1>18 DEF RetryNext, TypeInv, TypeOK
  <2>2. Head(retry.todo) \in Docs
    BY <2>1, HeadTailProperties
  <2> QED
    BY <1>2, <1>7, <1>18, <2>2 DEF RetryNext
<1>8. CASE SaveUpdates
  <2>1. save.doc \in Docs
    BY <1>8 DEF SaveUpdates, TypeInv, TypeOK, SaveFits
  <2>2. \/ doc' = doc
        \/ doc' = [doc EXCEPT ![save.doc] =
                     [doc[save.doc] EXCEPT !.review = ~save.target]]
    BY <1>8 DEF SaveUpdates
  <2>3. [doc[save.doc] EXCEPT !.review = ~save.target].place
          = doc[save.doc].place
    BY <1>1, <2>1 DEF DocType
  <2> QED
    BY <1>2, <1>3, <2>1, <2>2, <2>3
<1>9. CASE AcceptNext
  <2>1. accept.todo \in Seq(Suggestions) /\ accept.todo # <<>>
    BY <1>9 DEF AcceptNext, TypeInv, TypeOK
  <2>2. Head(accept.todo) \in Suggestions
    BY <2>1, HeadTailProperties
  <2> QED
    BY <1>2, <1>4, <1>9, <2>2 DEF AcceptNext
<1>10. CASE ConfirmRemove
  <2>1. /\ d \in remove => doc'[d].place = "deleted" /\ doc[d].place = "queue"
        /\ d \notin remove => doc'[d] = doc[d]
    BY <1>10 DEF ConfirmRemove, Removable, NewDoc
  <2> QED
    BY <2>1 DEF Moves
<1>11. CASE SaveProcesses
  BY <1>5, <1>11 DEF SaveProcesses
<1>12. CASE FinishProcess
  BY <1>2, <1>5, <1>12 DEF FinishProcess
<1>13. ASSUME NEW s \in Suggestions, AcceptChip(s) \/ RejectChip(s)
       PROVE  Moves(d)
  BY <1>2, <1>4, <1>13 DEF AcceptChip, RejectChip
<1>14. CASE EndAcceptAll \/ EndRetryBatch
  BY <1>2, <1>14 DEF EndAcceptAll, EndRetryBatch, server
<1>15. CASE Poll \/ Refetch \/ PollSuggestions \/ UNCHANGED vars
  BY <1>2, <1>15 DEF Poll, Refetch, PollSuggestions, vars, server
<1>16. CASE \E e \in Docs : OnDoc(e)
  <2>1. PICK e \in Docs : OnDoc(e)
    BY <1>16
  <2>2. CASE Select(e) \/ StartSave(e) \/ StartAcceptAll({e})
    BY <1>2, <2>2 DEF Select, StartSave, StartAcceptAll, server
  <2> QED
    BY <1>6, <1>7, <2>1, <2>2 DEF OnDoc, RetrySuggestions
<1>17. CASE \/ SelectAll \/ EnterWork \/ GoBack \/ StartProcess
            \/ StartAcceptAll(Scope) \/ StartRetryBatch \/ CancelRemove
            \/ \E ids \in SUBSET Docs : OpenRemove(ids)
            \/ \E t \in {"all", "ready"} : SetTab(t)
  BY <1>2, <1>17 DEF SelectAll, EnterWork, GoBack, StartProcess,
     StartAcceptAll, StartRetryBatch, CancelRemove, OpenRemove, SetTab, server
<1> QED
  BY <1>7, <1>8, <1>9, <1>10, <1>11, <1>12, <1>13, <1>14, <1>15, <1>16, <1>17,
     <1>18
  DEF Next, User, Loops, Worker

\* Whatever snapshots the page goes by, only documents that are prepared and
\* have a destination get into the library, and no dialog that was opened while
\* they were in the queue deletes them there.
THEOREM FilingStaysMeant == Spec => FilingIsMeant
<1>1. TypeInv /\ [Next]_vars => [\A d \in Docs : Moves(d)]_vars
  BY FilingStep
<1>2. FilingIsMeant <=> [][\A d \in Docs : Moves(d)]_vars
  BY DEF FilingIsMeant, Moves
<1> QED
  BY <1>1, <1>2, TypeInit, TypeStep, PTL DEF Spec
=============================================================================
