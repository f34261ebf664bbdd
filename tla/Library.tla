-------------------------------- MODULE Library --------------------------------
(***************************************************************************)
(* The library page (features/documents/DocumentsPage.tsx): the view that  *)
(* its address names (useDocumentsLibraryState.ts), the list of that view, *)
(* the documents selected in it by mouse and keyboard                      *)
(* (useDocumentSelectionModel.ts) and the actions on all that are selected *)
(* (DocumentBulkToolbar.tsx, and api/documents.py:bulk_action).            *)
(*                                                                         *)
(* A list is empty until its first load, and polls later.  Somebody else,  *)
(* in another window, moves and trashes documents as well.                 *)
(***************************************************************************)
EXTENDS Naturals, Sequences, FiniteSets, SequencesExt

CONSTANTS
  NumDocs,     \* documents are numbers, in the order of their dates
  PageSize,    \* how many of them a page shows
  Unindexed,   \* those in folders that are not processed to the end
  MaxVisits,   \* bound: how often the address changes
  MaxBulks,    \* bound: how many actions on selected documents
  MaxOthers    \* bound: how many changes somebody else makes

LibDocs == 1..NumDocs
LibFolders == {"f1", "f2"}

ASSUME LibraryAssumption ==
  /\ NumDocs \in Nat \ {0} /\ PageSize \in Nat \ {0}
  /\ Unindexed \subseteq LibDocs
  /\ MaxVisits \in Nat /\ MaxBulks \in Nat /\ MaxOthers \in Nat

VARIABLES
  places,     \* where the server keeps each document
  address,    \* the state that the search parameters hold
  visits,     \* how often it has changed
  libRows,    \* the list that is shown
  selected,   \* selectedIds
  focus,      \* focusedIndex and anchorIndex, from 1
  bulks,      \* the requests of useBulkAction that run
  bulkCount,  \* how many so far
  others,     \* how many changes of somebody else
  drifted     \* history: documents went elsewhere, or the order was changed,
              \* since a list was loaded with nothing selected

libVars == <<places, address, visits, libRows, selected, focus, bulks,
             bulkCount, others, drifted>>

-----------------------------------------------------------------------------
(* The address.                                                            *)

LibraryViews == {"all", "recent", "unprocessed"}
Orders == {"asc", "desc"}
NoFolder == "any"

AddressType ==
  [view : LibraryViews, folder : LibFolders \cup {NoFolder}, q : BOOLEAN,
   order : Orders, page : 1..NumDocs]

\* DEFAULTS: a parameter that is missing or makes no sense is read as these.
DefaultAddress ==
  [view |-> "all", folder |-> NoFolder, q |-> FALSE, order |-> "desc",
   page |-> 1]

\* patch: whatever changes but the page itself goes back to the first page.
Patched(a) == [a EXCEPT !.page = 1]

\* What the effect of the page that clears the selection depends on: not the
\* order of the list.
ViewOf(a) == [view |-> a.view, folder |-> a.folder, q |-> a.q,
              page |-> a.page]

EvidenceSearch == address.q

-----------------------------------------------------------------------------
(* The list.                                                               *)

\* libraryStateToListParams, and list_documents behind it.
InView(a, d) ==
  /\ places[d] # "trash"
  /\ IF a.view = "unprocessed" THEN places[d] = "inbox" \/ d \in Unindexed
     ELSE places[d] # "inbox"
  /\ a.folder # NoFolder => places[d] = a.folder

Ascending(S) ==
  CHOOSE s \in [1..Cardinality(S) -> S] :
    \A i, j \in 1..Cardinality(S) : i < j => s[i] < s[j]
Sorted(a, S) ==
  LET up == Ascending(S)
  IN  IF a.order = "asc" /\ a.view # "recent" THEN up ELSE Reverse(up)

PageOf(a, s) ==
  SubSeq(s, (a.page - 1) * PageSize + 1,
            IF a.page * PageSize < Len(s) THEN a.page * PageSize ELSE Len(s))

NoList == [loaded |-> FALSE, ids |-> <<>>, total |-> 0]

ListOf(a) ==
  LET all == Sorted(a, {d \in LibDocs : InView(a, d)})
  IN  [loaded |-> TRUE, ids |-> PageOf(a, all), total |-> Len(all)]

Ids == libRows.ids
TotalPages ==
  IF libRows.total = 0 THEN 1 ELSE (libRows.total + PageSize - 1) \div PageSize

\* The table, its pages and the toolbar: not shown for a search for evidence.
TableShown == ~EvidenceSearch /\ Ids # <<>>
PagesShown == TableShown /\ TotalPages > 1
ToolbarShown == ~EvidenceSearch /\ selected # {}

\* The effect of useDocumentSelectionModel on a new list.
FocusWithin(f, n) ==
  LET within(i) == IF n = 0 THEN 1 ELSE IF i < n THEN i ELSE n
  IN  [focused |-> within(f.focused), anchor |-> within(f.anchor)]

ShowList(l) ==
  /\ libRows' = l
  /\ focus' = FocusWithin(focus, Len(l.ids))

\* A first load, a poll, a refetch.
FetchList ==
  /\ ~EvidenceSearch
  /\ ShowList(ListOf(address))
  /\ drifted' = (drifted /\ selected # {})
  /\ UNCHANGED <<places, address, visits, selected, bulks, bulkCount, others>>

-----------------------------------------------------------------------------
(* What changes the address.                                               *)

\* Mutant: a selection is kept when the view changes.
SelectionAfter(a) == selected

\* The effect of DocumentsPage that clears the selection.
SelectionIn(a) == IF ViewOf(a) = ViewOf(address) THEN selected ELSE {}

GoToAddress(a) ==
  /\ a # address /\ visits < MaxVisits
  /\ visits' = visits + 1
  /\ address' = a
  /\ ShowList(NoList)
  /\ selected' = SelectionIn(a)
  /\ drifted' = (selected' # {} /\ (drifted \/ a.order # address.order))
  /\ UNCHANGED <<places, bulks, bulkCount, others>>

\* The tabs above the list keep the folder, the entries beside it do not.
SelectTab(view) == GoToAddress(Patched([address EXCEPT !.view = view]))
SelectQuickAccess(view) ==
  GoToAddress(Patched([address EXCEPT !.view = view, !.folder = NoFolder]))

\* A folder of the tree, or of the path above the list.
SelectLibFolder(f) ==
  GoToAddress(Patched([address EXCEPT
    !.folder = f, !.view = IF f = NoFolder THEN @ ELSE "all"]))

SelectOrder(order) ==
  /\ ~EvidenceSearch
  /\ GoToAddress(Patched([address EXCEPT !.order = order]))

\* The chips that take the search or the folder away; a folder that becomes
\* undefined does not count as a change for patch, and the page stays.
ClearChip ==
  \/ EvidenceSearch /\ GoToAddress(Patched([address EXCEPT !.q = FALSE]))
  \/ address.folder # NoFolder
     /\ GoToAddress([address EXCEPT !.folder = NoFolder])

\* A link or a bookmark, of any page of a folder or of the whole library.
FollowLink(q, f, p) ==
  GoToAddress([DefaultAddress EXCEPT !.q = q, !.folder = f, !.page = p])

TurnPage(p) ==
  /\ PagesShown
  /\ p \in {address.page - 1, address.page + 1} /\ p \in 1..TotalPages
  /\ GoToAddress([address EXCEPT !.page = p])

-----------------------------------------------------------------------------
(* The selection.                                                          *)

Select(S) ==
  /\ selected' = S
  /\ UNCHANGED <<places, address, visits, libRows, bulks, bulkCount, others,
                 drifted>>

FocusOn(i) == focus' = [focused |-> i, anchor |-> i]

\* selectRangeIds, from the anchor.
RangeTo(i) ==
  {Ids[j] : j \in {k \in 1..Len(Ids) : \/ focus.anchor <= k /\ k <= i
                                       \/ i <= k /\ k <= focus.anchor}}

\* handleCheckbox, toggleAt: the box of a row, a click with Ctrl, the space bar.
Toggle(i) ==
  /\ Select(IF Ids[i] \in selected THEN selected \ {Ids[i]}
            ELSE selected \cup {Ids[i]})
  /\ FocusOn(i)

\* selectRangeTo: a click with Shift, or an arrow with it.
SelectRange(i) ==
  /\ Select(RangeTo(i))
  /\ focus' = [focus EXCEPT !.focused = i]

\* handleItemPointer.
PointAt(i) == TableShown /\ i \in 1..Len(Ids) /\ (Toggle(i) \/ SelectRange(i))

\* Where the arrows, Home and End go in the list.
NextFocus(i) ==
  i \in {IF focus.focused < Len(Ids) THEN focus.focused + 1 ELSE Len(Ids),
         IF focus.focused > 1 THEN focus.focused - 1 ELSE 1, 1, Len(Ids)}

\* handleKeyDown.
MoveFocus(i) ==
  /\ TableShown /\ NextFocus(i)
  /\ focus' = [focus EXCEPT !.focused = i]
  /\ UNCHANGED <<places, address, visits, libRows, selected, bulks, bulkCount,
                 others, drifted>>
MoveFocusSelecting(i) == TableShown /\ NextFocus(i) /\ SelectRange(i)
PressSpace == TableShown /\ Toggle(focus.focused)
SelectAllKey == TableShown /\ Select(ToSet(Ids)) /\ FocusOn(1)

\* The box in the head of the table.
ToggleAll ==
  /\ TableShown
  /\ Select(ToSet(Ids)) \/ Select({})
  /\ UNCHANGED focus

ClearSelection == ToolbarShown /\ Select({}) /\ UNCHANGED focus

-----------------------------------------------------------------------------
(* The actions on what is selected.                                        *)

BulkActions == {"move", "tag", "trash"}
NewBulk(n, action, S, f) == [n |-> n, action |-> action, docs |-> S,
                             folder |-> f, step |-> "sent"]

\* A tag is assigned even while another request runs; isPending knows only the
\* last one that was sent.
BulkOffered(action) ==
  ToolbarShown /\ (action = "tag" \/ \A b \in bulks : b.n # bulkCount)

SendBulk(action, S, f) ==
  /\ bulkCount < MaxBulks
  /\ bulkCount' = bulkCount + 1
  /\ bulks' = bulks \cup {NewBulk(bulkCount + 1, action, S, f)}
  /\ UNCHANGED <<places, address, visits, libRows, selected, focus, others,
                 drifted>>

\* handleBulkAction.
HandleBulkAction(action, f) ==
  /\ BulkOffered(action) /\ (action = "move" <=> f # NoFolder)
  /\ SendBulk(action, selected, f)

\* handleDragStart of a row, and handleDropDocuments on a folder of the tree:
\* the whole selection if the row is part of it.
DropDocuments(i, f) ==
  /\ TableShown /\ i \in 1..Len(Ids)
  /\ SendBulk("move", IF Ids[i] \in selected THEN selected ELSE {Ids[i]}, f)

\* move_document: out of the trash too, but not out of the inbox.
Moved(f, p) == IF p = "inbox" THEN p ELSE f

\* bulk_action: all of them in one transaction, or none.
ServeBulk(b) ==
  /\ b.step = "sent"
  /\ \/ /\ places' = [d \in LibDocs |->
             IF d \notin b.docs \/ b.action = "tag" THEN places[d]
             ELSE IF b.action = "move" THEN Moved(b.folder, places[d])
             ELSE "trash"]
        /\ bulks' = (bulks \ {b}) \cup {[b EXCEPT !.step = "done"]}
     \/ bulks' = bulks \ {b} /\ UNCHANGED places
  /\ drifted' = (drifted \/ places' # places)
  /\ UNCHANGED <<address, visits, libRows, selected, focus, bulkCount, others>>

\* The end of handleBulkAction, whatever is selected by now; the list is
\* fetched anew by FetchList.
ArriveBulk(b) ==
  /\ b.step = "done"
  /\ bulks' = bulks \ {b}
  /\ selected' = {}
  /\ UNCHANGED <<places, address, visits, libRows, focus, bulkCount, others,
                 drifted>>

SomebodyElse(d, p) ==
  /\ others < MaxOthers /\ others' = others + 1
  /\ places[d] # p
  /\ places' = [places EXCEPT ![d] = p]
  /\ drifted' = TRUE
  /\ UNCHANGED <<address, visits, libRows, selected, focus, bulks, bulkCount>>

-----------------------------------------------------------------------------
LibraryInit ==
  /\ places \in [LibDocs -> {"f1", "inbox"}]
  /\ address = DefaultAddress /\ visits = 0
  /\ libRows = NoList /\ selected = {} /\ focus = [focused |-> 1, anchor |-> 1]
  /\ bulks = {} /\ bulkCount = 0 /\ others = 0
  /\ drifted = FALSE

LibraryNext ==
  \/ FetchList \/ ClearChip
  \/ \E q \in BOOLEAN, f \in LibFolders \cup {NoFolder}, p \in LibDocs :
       FollowLink(q, f, p)
  \/ \E v \in LibraryViews : SelectTab(v) \/ SelectQuickAccess(v)
  \/ \E f \in LibFolders \cup {NoFolder} : SelectLibFolder(f)
  \/ \E o \in Orders : SelectOrder(o)
  \/ \E p \in LibDocs : TurnPage(p)
  \/ \E i \in LibDocs :
       \/ PointAt(i) \/ MoveFocus(i) \/ MoveFocusSelecting(i)
       \/ \E f \in LibFolders : DropDocuments(i, f)
  \/ PressSpace \/ SelectAllKey \/ ToggleAll \/ ClearSelection
  \/ \E act \in BulkActions, f \in LibFolders \cup {NoFolder} :
       HandleBulkAction(act, f)
  \/ \E b \in bulks : ServeBulk(b) \/ ArriveBulk(b)
  \/ \E d \in LibDocs, p \in LibFolders \cup {"trash"} : SomebodyElse(d, p)

LibrarySpec == LibraryInit /\ [][LibraryNext]_libVars

-----------------------------------------------------------------------------
(* Properties.                                                             *)

\* Every variable keeps its type.
LibraryTypeOK ==
  /\ places \in [LibDocs -> LibFolders \cup {"inbox", "trash"}]
  /\ address \in AddressType /\ visits \in 0..MaxVisits
  /\ libRows.loaded \in BOOLEAN /\ libRows.total \in 0..NumDocs
  /\ Range(Ids) \subseteq LibDocs /\ Len(Ids) <= PageSize
  /\ selected \subseteq LibDocs
  /\ focus \in [focused : LibDocs, anchor : LibDocs]
  /\ \A b \in bulks : /\ b.n \in 1..bulkCount /\ b.action \in BulkActions
                      /\ b.docs \subseteq LibDocs
                      /\ b.folder \in LibFolders \cup {NoFolder}
                      /\ b.step \in {"sent", "done"}
  /\ bulkCount \in 0..MaxBulks /\ others \in 0..MaxOthers
  /\ drifted \in BOOLEAN

\* As long as nobody moves documents and the order stays, what is selected is
\* in the list that the user sees, so that an action of the toolbar or a row
\* that is dragged takes no other documents along, whatever views, folders and
\* pages the user has been to and however late lists and answers come.
SelectionIsShown == ~drifted => selected \subseteq ToSet(Ids)
=============================================================================
