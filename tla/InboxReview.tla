----------------------------- MODULE InboxReview -----------------------------
(***************************************************************************)
(* The inbox of the web client (features/inbox): documents that were       *)
(* uploaded are prepared by the server, given a destination by hand or by  *)
(* suggestions, and processed into the library.                            *)
(*                                                                         *)
(* The page works on snapshots.  Rows and suggestions are what the last    *)
(* poll brought; loops over many documents decide by the snapshot of the   *)
(* click that began them, wait for one request after the other, and go on  *)
(* when the work view is left.  Server and worker are modelled as far as   *)
(* the page can tell: what each request does to the document, whose        *)
(* preparation ends some time later.                                       *)
(***************************************************************************)
EXTENDS Naturals, Sequences, FiniteSets, SequencesExt

CONSTANTS
  Docs,         \* the documents that were uploaded
  Unprepared,   \* those that are still in preparation at the start
  Suggestions,  \* pairs of a document and a field that the AI may suggest
  MaxEdits,     \* bound: how often the user sets or clears a destination
  MaxRetries,   \* bound: how often preparation or suggestions are retried
  MaxAtOnce     \* bound: how many dialogs, requests and loops at a time

ASSUME InboxAssumption ==
  /\ IsFiniteSet(Docs)
  /\ Suggestions \subseteq Docs \X {"folder", "title"}
  /\ Unprepared \subseteq Docs
  /\ MaxEdits \in Nat /\ MaxRetries \in Nat /\ MaxAtOnce \in Nat \ {0}

VARIABLES
  doc,        \* the documents of the server
  sugg,       \* the suggestions of the server
  chosen,     \* history: the documents whose destination the user has set
  edits, retries,
  view,       \* InboxPage: the work view or the overview
  tab,        \* the status the list is filtered by
  rows,       \* useDocuments: the list as last loaded
  offered,    \* usePendingSuggestions as last loaded
  selected,   \* selectedIds
  process,    \* handleProcess: the documents of its request
  save,       \* saveAndProcess: the document, its destination, the step
  accept,     \* acceptAllSuggestions: those to come, and who has a destination
  retry,      \* handleRetrySuggestionsBatch: the documents to come
  remove      \* removeIds: the documents of the dialog

server == <<doc, sugg, chosen, edits, retries>>
page == <<view, tab, rows, offered, selected>>
requests == <<process, save, accept, retry, remove>>
vars == <<server, page, requests>>

-----------------------------------------------------------------------------
(* A document: where it is, its folder and the path that Process would     *)
(* create, each with who set it, its flag and its preparation.             *)

Setters == {"none", "user", "ai"}
NewDoc == [place |-> "queue", folder |-> "none", pending |-> "none",
           review |-> FALSE, status |-> "preparing"]

HasTarget(r) == r.pending # "none" \/ r.folder # "none"

\* compute_inbox_status.
InboxStatus(r) ==
  IF r.status # "ready" THEN r.status
  ELSE IF r.review \/ ~HasTarget(r) THEN "needs_review" ELSE "ready"

\* Mutant: a status that the page does not know.
RowMisnamed(r) ==
  [status |-> IF InboxStatus(r) = "needs_review" THEN "review"
              ELSE InboxStatus(r), target |-> HasTarget(r)]

\* What a row of the list shows of it: hasManualDestination goes by the same
\* folder and path as the status.
RowOf(r) == [status |-> InboxStatus(r), target |-> HasTarget(r)]
NoRow == [status |-> "none", target |-> FALSE]

Matches(r, t) == r.place = "queue" /\ (t = "all" \/ InboxStatus(r) = t)
Listed(t) ==
  [d \in Docs |-> IF Matches(doc[d], t) THEN RowOf(doc[d]) ELSE NoRow]

Visible == {d \in Docs : rows[d] # NoRow}
VisibleSelected == selected \cap Visible
Scope == IF VisibleSelected # {} THEN VisibleSelected ELSE Visible

\* isDocSettled, canRetrySuggestions and isProcessable, of a row.
Settled(row) == row.status \notin {"none", "preparing"}
CanRetry(row) == row.status \in {"ready", "needs_review"}
Processable(row) == CanRetry(row) /\ row.target

-----------------------------------------------------------------------------
(* What the work view offers.                                              *)

\* How many dialogs, requests and loops there are.
AtOnce ==
  Cardinality({x \in {<<"process", process # {}>>,
                      <<"save", save.doc # "none">>,
                      <<"accept", accept.on>>, <<"retry", retry.on>>,
                      <<"remove", remove # {}>>} : x[2]})
Free == AtOnce < MaxAtOnce

ProcessTargets == {d \in Scope : Processable(rows[d])}
ProcessOffered == view = "work" /\ process = {} /\ ProcessTargets # {}

PendingIn(ids) == {s \in offered : s[1] \in ids}
AcceptAllOffered(ids) ==
  view = "work" /\ ~accept.on /\ PendingIn(ids) # {}

RetryTargets == {d \in VisibleSelected : CanRetry(rows[d])}
RetryBatchOffered == view = "work" /\ ~retry.on /\ RetryTargets # {}
RetryOffered(d) == view = "work" /\ ~retry.on /\ CanRetry(rows[d])

\* The expanded card of a settled document: the panel of suggestions with its
\* chips, or the one for filing by hand when there is no AI or it has failed.
PanelOffered(d) == view = "work" /\ Settled(rows[d])
ChipOffered(s) == PanelOffered(s[1]) /\ s \in offered
ManualOffered(d) == PanelOffered(d)

-----------------------------------------------------------------------------
(* What the requests do at the server.                                     *)

\* Mutant: what is in preparation, or has failed, is filed.
CanFileUnprepared(r) == r.place = "queue" /\ HasTarget(r)

CanFile(r) == r.place = "queue" /\ r.status = "ready" /\ HasTarget(r)

\* process_inbox_documents files the documents of ok.
File(ok) ==
  doc' = [d \in Docs |->
    IF d \notin ok THEN doc[d]
    ELSE [doc[d] EXCEPT !.place = "library", !.review = FALSE,
                        !.pending = "none",
                        !.folder = IF doc[d].pending # "none"
                                   THEN doc[d].pending ELSE @]]

\* Those of ids that can be filed, less those whose path cannot be created.
FiledOf(ids) ==
  {ok \in SUBSET {d \in ids : CanFile(doc[d])} :
     \A d \in ids \ ok : CanFile(doc[d]) => doc[d].pending # "none"}

\* Mutant: a suggestion replaces whatever destination there is.
SuggestFolderAnyway(r, how) ==
  IF how = "path" THEN [r EXCEPT !.pending = "ai", !.review = FALSE]
  ELSE [r EXCEPT !.folder = "ai", !.pending = "none", !.review = FALSE]

\* _apply_suggestion of a folder: one that exists, or a path to create.
SuggestFolder(r, how) ==
  IF HasTarget(r) THEN r
  ELSE IF how = "path" THEN [r EXCEPT !.pending = "ai", !.review = FALSE]
  ELSE [r EXCEPT !.folder = "ai", !.review = FALSE]

\* accept_suggestion: it is applied, whatever its status is.
Accepted(s) ==
  /\ doc[s[1]].place \in {"queue", "library"}
  /\ sugg' = [sugg EXCEPT ![s] = "accepted"]
  /\ IF s[2] = "folder"
     THEN \E how \in {"folder", "path"} :
            doc' = [doc EXCEPT ![s[1]] = SuggestFolder(@, how)]
     ELSE UNCHANGED doc

\* The job of the worker suggests anew, also what was accepted or rejected
\* before (each field stands for its latest suggestion), and writes the flag:
\* r is the document's row before.
Suggested(d, r) ==
  /\ \E b \in BOOLEAN : doc' = [doc EXCEPT ![d] = [r EXCEPT !.review = b]]
  /\ \E made \in SUBSET {s \in Suggestions : s[1] = d} :
       sugg' = [s \in Suggestions |->
                  IF s \in made THEN "pending"
                  ELSE IF s[1] = d /\ sugg[s] = "pending" THEN "none"
                  ELSE sugg[s]]

\* It has no model, too little text or a model that fails: no suggestions, and
\* the flag is set or left.
Skipped(d, r) ==
  /\ \E b \in {TRUE, r.review} :
       doc' = [doc EXCEPT ![d] = [r EXCEPT !.review = b]]
  /\ UNCHANGED sugg

\* reprocess_suggestions: the job it queues is as good as done, or has failed,
\* when the page polls again.
Requested(d) ==
  /\ retries < MaxRetries
  /\ doc[d].place \in {"queue", "library"}
  /\ retries' = retries + 1
  /\ Suggested(d, doc[d]) \/ UNCHANGED <<doc, sugg>>

-----------------------------------------------------------------------------
(* The list.                                                               *)

Refetch ==
  /\ view = "work"
  /\ rows' = Listed(tab)
  /\ UNCHANGED <<server, view, tab, offered, selected, requests>>

\* pollWhilePreparing.
PollsList == \E d \in Visible : rows[d].status = "preparing"
Poll == PollsList /\ Refetch

PollSuggestions ==
  /\ view = "work"
  /\ offered' = {s \in Suggestions : sugg[s] = "pending"}
  /\ UNCHANGED <<server, view, tab, rows, selected, requests>>

\* Another tab is another query: nothing is listed before it is loaded.
SetTab(t) ==
  /\ view = "work" /\ t # tab
  /\ tab' = t
  /\ rows' \in {Listed(t), [d \in Docs |-> NoRow]}
  /\ UNCHANGED <<server, view, offered, selected, requests>>

Select(d) ==
  /\ view = "work" /\ d \in Visible
  /\ selected' = IF d \in selected THEN selected \ {d} ELSE selected \cup {d}
  /\ UNCHANGED <<server, view, tab, rows, offered, requests>>

SelectAll ==
  /\ view = "work" /\ Visible # {}
  /\ selected' = IF Visible \subseteq selected THEN {} ELSE Visible
  /\ UNCHANGED <<server, view, tab, rows, offered, requests>>

\* The work view is mounted, or left for the overview: its state is gone.
Mounted(v) ==
  /\ view' = v /\ tab' = "all" /\ selected' = {}
  /\ rows' = IF v = "work" THEN Listed("all") ELSE [d \in Docs |-> NoRow]

EnterWork ==
  /\ view = "overview"
  /\ Mounted("work")
  /\ UNCHANGED <<server, offered, requests>>

GoBack ==
  /\ view = "work"
  /\ Mounted("overview")
  /\ remove' = {}
  /\ UNCHANGED <<server, offered, process, save, accept, retry>>

-----------------------------------------------------------------------------
(* Destinations by hand: InboxFolderControl, on the card or in the preview. *)

Assigned(r) ==
  [r EXCEPT !.folder = "user", !.pending = "none", !.review = FALSE]
AssignedPath(r) == [r EXCEPT !.pending = "user", !.review = FALSE]
Cleared(r) == [r EXCEPT !.pending = "none", !.review = TRUE]

Edit(d, r) ==
  /\ edits < MaxEdits
  /\ edits' = edits + 1
  /\ doc' = [doc EXCEPT ![d] = r]
  /\ UNCHANGED <<sugg, retries, page, requests>>

\* The card of a settled document, or the preview of any row of the list.
ControlOffered(d) ==
  view = "work" /\ d \in Visible /\ doc[d].place = "queue"

AssignFolder(d) ==
  /\ ControlOffered(d) /\ Edit(d, Assigned(doc[d]))
  /\ chosen' = chosen \cup {d}

AssignNewPath(d) ==
  /\ ControlOffered(d) /\ Edit(d, AssignedPath(doc[d]))
  /\ chosen' = chosen \cup {d}

ClearDestination(d) ==
  /\ ControlOffered(d) /\ rows[d].target /\ Edit(d, Cleared(doc[d]))
  /\ chosen' = chosen \ {d}

-----------------------------------------------------------------------------
(* saveAndProcess: the flag, and whether to go on, by the row of the click. *)

NoSave == [step |-> "none", doc |-> "none", target |-> FALSE]

StartSave(d) ==
  /\ Free
  /\ ManualOffered(d) /\ save = NoSave
  /\ save' = [step |-> "update", doc |-> d, target |-> rows[d].target]
  /\ UNCHANGED <<server, page, process, accept, retry, remove>>

SaveUpdates ==
  /\ save.step = "update"
  /\ \/ /\ doc[save.doc].place \in {"queue", "library"}
        /\ doc' = [doc EXCEPT ![save.doc].review = ~save.target]
        /\ save' = IF save.target THEN [save EXCEPT !.step = "process"]
                   ELSE NoSave
     \/ save' = NoSave /\ UNCHANGED doc
  /\ UNCHANGED <<sugg, chosen, edits, retries, page, process, accept, retry,
                 remove>>

SaveProcesses ==
  /\ save.step = "process"
  /\ save' = NoSave
  /\ \E ok \in FiledOf({save.doc}) : File(ok)
  /\ UNCHANGED <<sugg, chosen, edits, retries, page, process, accept, retry,
                 remove>>

-----------------------------------------------------------------------------
(* Process.                                                                *)

StartProcess ==
  /\ Free
  /\ ProcessOffered
  /\ process' = ProcessTargets
  /\ UNCHANGED <<server, page, save, accept, retry, remove>>

\* The request ends: the selection is emptied, and the overview is shown if
\* any document was filed.
FinishProcess ==
  /\ process # {}
  /\ process' = {}
  /\ \/ \E ok \in FiledOf(process) :
          /\ File(ok)
          /\ IF ok # {}
             THEN Mounted("overview") /\ remove' = {}
             ELSE selected' = {} /\ UNCHANGED <<view, tab, rows, remove>>
     \/ UNCHANGED <<doc, view, tab, rows, selected, remove>>
  /\ UNCHANGED <<sugg, chosen, edits, retries, offered, save, accept, retry>>

-----------------------------------------------------------------------------
(* Suggestions.                                                            *)

NoAccept == [on |-> FALSE, todo |-> <<>>, targets |-> {}]

\* handleAcceptAll and handleAcceptAllForDoc (bound: one loop at a time).
StartAcceptAll(ids) ==
  /\ Free
  /\ AcceptAllOffered(ids)
  /\ accept' = [on |-> TRUE, todo |-> SetToSeq(PendingIn(ids)),
                targets |-> {d \in Visible : rows[d].target}]
  /\ UNCHANGED <<server, page, process, save, retry, remove>>

\* shouldAcceptSuggestion.
ShouldAccept(s) == s[2] # "folder" \/ s[1] \notin accept.targets

\* Mutant: a request that fails ends the loop, and the button stays busy.
AcceptNextGivesUp ==
  /\ accept.todo # <<>>
  /\ \/ /\ accept' = [accept EXCEPT !.todo = Tail(@)]
        /\ Accepted(Head(accept.todo))
     \/ UNCHANGED <<accept, doc, sugg>>
  /\ UNCHANGED <<chosen, edits, retries, page, process, save, retry, remove>>

\* The next suggestion is skipped, accepted, or its request fails.
AcceptNext ==
  /\ accept.todo # <<>>
  /\ accept' = [accept EXCEPT !.todo = Tail(@)]
  /\ \/ ShouldAccept(Head(accept.todo)) /\ Accepted(Head(accept.todo))
     \/ UNCHANGED <<doc, sugg>>
  /\ UNCHANGED <<chosen, edits, retries, page, process, save, retry, remove>>

\* It has been through all: the queries are invalidated.
EndAcceptAll ==
  /\ accept.on /\ accept.todo = <<>>
  /\ accept' = NoAccept
  /\ rows' = IF view = "work" THEN Listed(tab) ELSE rows
  /\ offered' = {s \in Suggestions : sugg[s] = "pending"}
  /\ UNCHANGED <<server, view, tab, selected, process, save, retry, remove>>

\* The chip of a suggestion.
AcceptChip(s) ==
  /\ ChipOffered(s)
  /\ Accepted(s)
  /\ UNCHANGED <<chosen, edits, retries, page, requests>>

RejectChip(s) ==
  /\ ChipOffered(s) /\ doc[s[1]].place \in {"queue", "library"}
  /\ sugg' = [sugg EXCEPT ![s] = "rejected"]
  /\ UNCHANGED <<doc, chosen, edits, retries, page, requests>>

NoRetry == [on |-> FALSE, todo |-> <<>>]

StartRetryBatch ==
  /\ Free
  /\ RetryBatchOffered
  /\ retry' = [on |-> TRUE, todo |-> SetToSeq(RetryTargets)]
  /\ UNCHANGED <<server, page, process, save, accept, remove>>

RetryNext ==
  /\ retry.todo # <<>>
  /\ retry' = [retry EXCEPT !.todo = Tail(@)]
  /\ Requested(Head(retry.todo)) \/ UNCHANGED <<doc, sugg, retries>>
  /\ UNCHANGED <<chosen, edits, page, process, save, accept, remove>>

EndRetryBatch ==
  /\ retry.on /\ retry.todo = <<>>
  /\ retry' = NoRetry
  /\ rows' = IF view = "work" THEN Listed(tab) ELSE rows
  /\ UNCHANGED <<server, view, tab, offered, selected, process, save, accept,
                 remove>>

RetrySuggestions(d) ==
  /\ RetryOffered(d)
  /\ Requested(d)
  /\ UNCHANGED <<chosen, edits, page, requests>>

\* The card of a failed document.
RetryPreflight(d) ==
  /\ view = "work" /\ rows[d].status = "failed" /\ doc[d].place = "queue"
  /\ retries < MaxRetries
  /\ retries' = retries + 1
  /\ doc' = [doc EXCEPT ![d].status = "preparing"]
  /\ UNCHANGED <<sugg, chosen, edits, page, requests>>

-----------------------------------------------------------------------------
(* Removal from the queue, by a dialog that keeps the ids it was opened for. *)

OpenRemove(ids) ==
  /\ Free
  /\ view = "work" /\ remove = {} /\ ids # {}
  /\ ids = VisibleSelected \/ \E d \in Visible : ids = {d}
  /\ remove' = ids
  /\ UNCHANGED <<server, page, process, save, accept, retry>>

CancelRemove ==
  /\ remove # {}
  /\ remove' = {}
  /\ UNCHANGED <<server, page, process, save, accept, retry>>

\* remove_from_queue: all of them or, if one is not in the inbox, none.
Removable(ids) == \A d \in ids : doc[d].place = "queue"

ConfirmRemove ==
  /\ remove # {} /\ Removable(remove)
  /\ doc' = [d \in Docs |-> IF d \in remove
                            THEN [NewDoc EXCEPT !.place = "deleted"]
                            ELSE doc[d]]
  /\ sugg' = [s \in Suggestions |-> IF s[1] \in remove THEN "none" ELSE sugg[s]]
  /\ chosen' = chosen \ remove
  /\ selected' = selected \ remove
  /\ remove' = {}
  /\ UNCHANGED <<edits, retries, view, tab, rows, offered, process, save,
                 accept, retry>>

-----------------------------------------------------------------------------
(* The worker.                                                             *)

\* The preparation ends: suggestions are its last job.
Prepared(d) ==
  /\ doc[d].place = "queue" /\ doc[d].status = "preparing"
  /\ \/ Suggested(d, [doc[d] EXCEPT !.status = "ready"])
     \/ Skipped(d, [doc[d] EXCEPT !.status = "ready"])
     \/ doc' = [doc EXCEPT ![d].status = "failed"] /\ UNCHANGED sugg
  /\ UNCHANGED <<chosen, edits, retries, page, requests>>

-----------------------------------------------------------------------------
Init ==
  /\ doc = [d \in Docs |->
              IF d \in Unprepared THEN NewDoc
              ELSE [NewDoc EXCEPT !.status = "ready"]]
  /\ sugg = [s \in Suggestions |->
               IF s[1] \in Unprepared THEN "none" ELSE "pending"]
  /\ chosen = {} /\ edits = 0 /\ retries = 0
  /\ view = "work" /\ tab = "all"
  /\ rows = [d \in Docs |-> NoRow] /\ offered = {}
  /\ selected = {}
  /\ process = {} /\ save = NoSave
  /\ accept = NoAccept /\ retry = NoRetry /\ remove = {}

OnDoc(d) ==
  \/ Select(d)
  \/ AssignFolder(d) \/ AssignNewPath(d) \/ ClearDestination(d)
  \/ StartSave(d) \/ RetrySuggestions(d) \/ RetryPreflight(d)
  \/ StartAcceptAll({d})

User ==
  \/ \E d \in Docs : OnDoc(d)
  \/ \E ids \in SUBSET Docs : OpenRemove(ids)
  \/ \E s \in Suggestions : AcceptChip(s) \/ RejectChip(s)
  \/ \E t \in {"all", "ready"} : SetTab(t)
  \/ SelectAll \/ EnterWork \/ GoBack
  \/ StartProcess \/ StartAcceptAll(Scope) \/ StartRetryBatch
  \/ CancelRemove \/ ConfirmRemove

Loops ==
  \/ SaveUpdates \/ SaveProcesses \/ FinishProcess
  \/ AcceptNext \/ EndAcceptAll \/ RetryNext \/ EndRetryBatch

Worker == \E d \in Docs : Prepared(d)

Next ==
  User \/ Loops \/ Worker \/ Poll \/ Refetch \/ PollSuggestions

Spec == Init /\ [][Next]_vars

\* What NothingHangs needs: requests of Accept all are answered, timers fire and
\* the worker prepares.  Nothing is asked of the other loops and requests.
Fairness ==
  /\ WF_vars(AcceptNext \/ EndAcceptAll)
  /\ WF_vars(Poll)
  /\ \A d \in Docs : WF_vars(Prepared(d))

FairSpec == Spec /\ Fairness

-----------------------------------------------------------------------------
(* Properties.                                                             *)

\* Every variable keeps its type.
RowType == [status : {"none", "preparing", "failed", "needs_review", "ready"},
            target : BOOLEAN]
DocType == [place : {"queue", "library", "deleted"},
            folder : Setters, pending : Setters, review : BOOLEAN,
            status : {"preparing", "ready", "failed"}]
TypeOK ==
  /\ doc \in [Docs -> DocType]
  /\ sugg \in [Suggestions -> {"none", "pending", "accepted", "rejected"}]
  /\ chosen \subseteq Docs
  /\ edits \in 0..MaxEdits /\ retries \in 0..MaxRetries
  /\ view \in {"work", "overview"}
  /\ tab \in {"all", "ready"}
  /\ rows \in [Docs -> RowType]
  /\ offered \subseteq Suggestions
  /\ selected \subseteq Docs
  /\ process \subseteq Docs /\ remove \subseteq Docs
  /\ save \in [step : {"none", "update", "process"},
               doc : Docs \cup {"none"}, target : BOOLEAN]
  /\ accept \in [on : BOOLEAN, todo : Seq(Suggestions), targets : SUBSET Docs]
  /\ retry \in [on : BOOLEAN, todo : Seq(Docs)]

\* A destination the user has chosen is where the document goes: neither a
\* suggestion accepted by a loop that began before, nor one of an old snapshot,
\* replaces it (suggestionAcceptFilter.ts and _apply_suggestion).
ChosenDestinationStays ==
  \A d \in chosen :
    IF doc[d].pending # "none" THEN doc[d].pending = "user"
    ELSE doc[d].folder = "user"

\* A document gets into the library only if it is prepared and has a destination,
\* whatever rows the page goes by and however often it is processed; and once
\* there it is not deleted by a dialog opened while it was in the queue.
FilingIsMeant ==
  [][\A d \in Docs :
       IF doc[d].place = "library" THEN doc'[d].place = "library"
       ELSE doc'[d].place = "library" =>
              /\ doc[d].place = "queue" /\ doc[d].status = "ready"
              /\ doc'[d].folder # "none"]_vars

\* Accept all ends, with whatever answers, so that its button is offered again;
\* and a row that is shown in preparation is not shown so for ever.
NothingHangs ==
  /\ accept.on ~> ~accept.on
  /\ \A d \in Docs :
       rows[d].status = "preparing" /\ view = "work" ~>
         rows[d].status # "preparing" \/ view # "work"
=============================================================================
