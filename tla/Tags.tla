--------------------------------- MODULE Tags ---------------------------------
(***************************************************************************)
(* Tags: services/tags.py over the tables of tags and of the documents'    *)
(* tags, and the two places that manage them, the Library page of the      *)
(* settings (features/settings/LibraryPage.tsx) and the list of the        *)
(* documents page (components/tags/TagList.tsx).                           *)
(*                                                                         *)
(* Names, slugs and colours are left out: whether a name is taken is a     *)
(* choice.                                                                 *)
(***************************************************************************)
EXTENDS Naturals, FiniteSets

CONSTANTS
  TagIds,      \* the ids that tags may have
  FirstTags,   \* those that are there from the start
  TaggedDocs,  \* the documents
  MaxTagEdits  \* bound: requests and changes of documents

ASSUME TagsAssumption ==
  /\ FirstTags \subseteq TagIds /\ "none" \notin TagIds
  /\ IsFiniteSet(TagIds) /\ IsFiniteSet(TaggedDocs)
  /\ MaxTagEdits \in Nat

VARIABLES
  tagRows,      \* the tags that are there
  tagsOf,       \* document_tags
  binned,       \* the documents in the trash
  tagEdits,     \* how many requests and changes so far
  managedOn,    \* the page that is shown, "settings" or "documents"
  overview,     \* the tags of the page, with how many documents each has
  tagDialog,    \* its dialog
  nameTyped,    \* the dialog's name is not blank
  mergeTarget,  \* mergeTargetId
  tagCalls,     \* the requests that run
  unusedLeft,   \* what the loop over the unused tags has still to delete
  loopHere      \* the loop began on this visit of its page

tagsVars ==
  <<tagRows, tagsOf, binned, tagEdits, managedOn, overview, tagDialog,
    nameTyped, mergeTarget, tagCalls, unusedLeft, loopHere>>
tagTables == <<tagRows, tagsOf, binned>>
tagForms == <<tagDialog, nameTyped, mergeTarget>>
tagLoop == <<unusedLeft, loopHere>>

-----------------------------------------------------------------------------
(* The tables and the requests.                                            *)

NoTag == "none"
NoTagDialog == [type |-> "none", tag |-> NoTag]
TagDialog(type, t) == [type |-> type, tag |-> t]

\* list_tags_with_counts counts what is not in the trash, list_tags everything.
CountOf(t) ==
  Cardinality({d \in TaggedDocs : t \in tagsOf[d] /\
                                  (managedOn = "settings" => d \notin binned)})
TagList == [t \in TagIds |-> IF t \in tagRows THEN CountOf(t) + 1 ELSE 0]

\* What the page knows: which tags there are, and which of them are used.
Listed(t) == overview[t] > 0
Unused == {t \in TagIds : overview[t] = 1}

TagEdit == tagEdits < MaxTagEdits /\ tagEdits' = tagEdits + 1

\* A request, and whether the page that sent it is still there.
TagCall(kind, t, target) ==
  [kind |-> kind, tag |-> t, target |-> target, here |-> TRUE]
TagPending ==
  (\E c \in tagCalls : c.here) \/ (loopHere /\ unusedLeft # {})

SendTagCall(c) ==
  /\ TagEdit
  /\ tagCalls' = tagCalls \cup {c}
  /\ UNCHANGED <<tagTables, managedOn, overview, tagForms, tagLoop>>

\* The answer closes the dialog of its page, whichever one it is by then.
TagAnswered(c, ok) ==
  /\ tagCalls' = tagCalls \ {c}
  /\ tagDialog' = IF ok /\ c.here THEN NoTagDialog ELSE tagDialog
  /\ UNCHANGED <<tagEdits, managedOn, overview, nameTyped, mergeTarget,
                 tagLoop>>

ServeCreateTag(c) ==
  /\ c.kind = "new"
  /\ \E taken \in BOOLEAN :
       /\ tagRows = TagIds => taken
       /\ tagRows' = IF taken THEN tagRows
                     ELSE tagRows \cup {CHOOSE t \in TagIds : t \notin tagRows}
       /\ TagAnswered(c, ~taken)
  /\ UNCHANGED <<tagsOf, binned>>

ServeUpdateTag(c) ==
  /\ c.kind \in {"edit", "color"}
  /\ \E ok \in BOOLEAN : (ok => c.tag \in tagRows) /\ TagAnswered(c, ok)
  /\ UNCHANGED tagTables

Untagged(t) == [d \in TaggedDocs |-> tagsOf[d] \ {t}]

ServeDeleteTag(c) ==
  /\ c.kind = "delete"
  /\ tagRows' = tagRows \ {c.tag} /\ tagsOf' = Untagged(c.tag)
  /\ UNCHANGED binned
  /\ TagAnswered(c, c.tag \in tagRows)

\* Mutant: documents that have both tags already lose both.
ConflictsDropped(s, t) ==
  [d \in TaggedDocs |->
    IF {s, t} \subseteq tagsOf[d] THEN tagsOf[d] \ {s, t}
    ELSE IF s \in tagsOf[d] THEN (tagsOf[d] \ {s}) \cup {t} ELSE tagsOf[d]]

Merged(s, t) ==
  [d \in TaggedDocs |->
    IF s \in tagsOf[d] THEN (tagsOf[d] \ {s}) \cup {t} ELSE tagsOf[d]]

ServeMergeTags(c) ==
  LET ok == c.tag # c.target /\ {c.tag, c.target} \subseteq tagRows
  IN  /\ c.kind = "merge"
      /\ tagRows' = IF ok THEN tagRows \ {c.tag} ELSE tagRows
      /\ tagsOf' = IF ok THEN Merged(c.tag, c.target) ELSE tagsOf
      /\ UNCHANGED binned
      /\ TagAnswered(c, ok)

-----------------------------------------------------------------------------
(* The pages and their dialogs.                                            *)

FetchTags ==
  /\ overview # TagList
  /\ overview' = TagList
  /\ UNCHANGED <<tagTables, tagEdits, managedOn, tagForms, tagCalls, tagLoop>>

\* From the settings to the documents or back: the dialog goes, requests and the
\* loop go on, and the list is that page's own, as it is now.
OpenTagPage ==
  /\ TagEdit
  /\ UNCHANGED <<tagTables, unusedLeft>>
  /\ managedOn' = IF managedOn = "settings" THEN "documents" ELSE "settings"
  /\ overview' = TagList'
  /\ tagCalls' = {[c EXCEPT !.here = FALSE] : c \in tagCalls}
  /\ loopHere' = FALSE
  /\ tagDialog' = NoTagDialog /\ nameTyped' = FALSE /\ mergeTarget' = NoTag

FormsOnly ==
  UNCHANGED <<tagTables, tagEdits, managedOn, overview, tagCalls, tagLoop>>

TargetAtFirst == NoTag

\* openTagDialog, and openRename, openColor and openDelete of the other page.
OpenTagDialog(type, t) ==
  /\ tagDialog = NoTagDialog /\ Listed(t)
  /\ type = "color" => managedOn = "documents"
  /\ type = "merge" => managedOn = "settings"
  /\ tagDialog' = TagDialog(type, t)
  /\ nameTyped' = TRUE
  /\ mergeTarget' = IF type = "merge" THEN TargetAtFirst ELSE mergeTarget
  /\ FormsOnly
OpenNewTag ==
  /\ managedOn = "settings" /\ tagDialog = NoTagDialog
  /\ tagDialog' = TagDialog("new", NoTag) /\ nameTyped' = FALSE
  /\ UNCHANGED mergeTarget /\ FormsOnly
OpenDeleteUnused ==
  /\ managedOn = "settings" /\ tagDialog = NoTagDialog /\ Unused # {}
  /\ tagDialog' = TagDialog("delete-unused", NoTag)
  /\ UNCHANGED <<nameTyped, mergeTarget>> /\ FormsOnly

\* The button of the other page's dialog is off meanwhile, Escape is not.
CloseTagDialog ==
  /\ tagDialog # NoTagDialog /\ tagDialog' = NoTagDialog
  /\ UNCHANGED <<nameTyped, mergeTarget>> /\ FormsOnly

TypeTagName ==
  /\ tagDialog.type \in {"new", "edit"} /\ nameTyped' \in BOOLEAN
  /\ UNCHANGED <<tagDialog, mergeTarget>> /\ FormsOnly

ChooseTarget(t) ==
  /\ tagDialog.type = "merge" /\ Listed(t) /\ t # tagDialog.tag
  /\ mergeTarget' = t
  /\ UNCHANGED <<tagDialog, nameTyped>> /\ FormsOnly

\* When the button of the dialog is on; Enter renames while it is off, too.
TagSubmitOffered ==
  LET renames == tagDialog.type = "edit" /\ managedOn = "documents"
  IN  /\ tagDialog.type \notin {"none", "delete-unused"}
      /\ TagPending => renames
      /\ tagDialog.type = "new" \/ renames => nameTyped
      /\ tagDialog.type = "merge" => mergeTarget # NoTag

\* submitTagDialog, and handleSubmit of the other page.
SubmitTagDialog ==
  LET target == IF tagDialog.type = "merge" THEN mergeTarget ELSE NoTag
  IN  /\ TagSubmitOffered
      /\ SendTagCall(TagCall(tagDialog.type, tagDialog.tag, target))

SubmitDeleteUnused ==
  /\ tagDialog.type = "delete-unused" /\ ~TagPending /\ TagEdit
  /\ unusedLeft' = Unused /\ loopHere' = TRUE
  /\ tagDialog' = IF Unused = {} THEN NoTagDialog ELSE tagDialog
  /\ UNCHANGED <<tagTables, managedOn, overview, nameTyped, mergeTarget,
                 tagCalls>>

\* The next one: a request that fails ends the loop.
DeleteUnused(t) ==
  /\ t \in unusedLeft
  /\ tagRows' = tagRows \ {t} /\ tagsOf' = Untagged(t) /\ UNCHANGED binned
  /\ unusedLeft' = IF t \in tagRows THEN unusedLeft \ {t} ELSE {}
  /\ tagDialog' = IF unusedLeft = {t} /\ t \in tagRows /\ loopHere
                  THEN NoTagDialog ELSE tagDialog
  /\ UNCHANGED <<tagEdits, managedOn, overview, nameTyped, mergeTarget,
                 tagCalls, loopHere>>

-----------------------------------------------------------------------------
(* What happens to the documents meanwhile.                                *)

PutTag(d, t) ==
  /\ TagEdit /\ t \in tagRows \ tagsOf[d]
  /\ tagsOf' = [tagsOf EXCEPT ![d] = @ \cup {t}]
  /\ UNCHANGED <<tagRows, binned, managedOn, overview, tagForms, tagCalls,
                 tagLoop>>

TrashOrRestore(d) ==
  /\ TagEdit
  /\ binned' = IF d \in binned THEN binned \ {d} ELSE binned \cup {d}
  /\ UNCHANGED <<tagRows, tagsOf, managedOn, overview, tagForms, tagCalls,
                 tagLoop>>

-----------------------------------------------------------------------------
TagsInit ==
  /\ tagRows = FirstTags /\ tagsOf = [d \in TaggedDocs |-> {}] /\ binned = {}
  /\ tagEdits = 0 /\ managedOn = "settings" /\ overview = TagList
  /\ tagDialog = NoTagDialog /\ nameTyped = FALSE /\ mergeTarget = NoTag
  /\ tagCalls = {} /\ unusedLeft = {} /\ loopHere = FALSE

TagsNext ==
  \/ FetchTags \/ OpenTagPage \/ OpenNewTag \/ OpenDeleteUnused
  \/ CloseTagDialog \/ TypeTagName \/ SubmitTagDialog \/ SubmitDeleteUnused
  \/ \E t \in TagIds :
       \/ ChooseTarget(t) \/ DeleteUnused(t)
       \/ \E type \in {"edit", "color", "merge", "delete"} :
            OpenTagDialog(type, t)
       \/ \E d \in TaggedDocs : PutTag(d, t)
  \/ \E d \in TaggedDocs : TrashOrRestore(d)
  \/ \E c \in tagCalls :
       \/ ServeCreateTag(c) \/ ServeUpdateTag(c) \/ ServeDeleteTag(c)
       \/ ServeMergeTags(c)

TagsSpec == TagsInit /\ [][TagsNext]_tagsVars

-----------------------------------------------------------------------------
(* Properties.                                                             *)

TagOrNone == TagIds \cup {NoTag}

\* Every variable keeps its type, and documents have no tags but those that
\* are there.
TagsTypeOK ==
  /\ tagRows \subseteq TagIds /\ tagsOf \in [TaggedDocs -> SUBSET tagRows]
  /\ binned \subseteq TaggedDocs /\ tagEdits \in 0..MaxTagEdits
  /\ managedOn \in {"settings", "documents"}
  /\ overview \in [TagIds -> 0..Cardinality(TaggedDocs) + 1]
  /\ tagDialog \in [type : {"none", "new", "edit", "color", "merge", "delete",
                             "delete-unused"}, tag : TagOrNone]
  /\ nameTyped \in BOOLEAN /\ mergeTarget \in TagOrNone
  /\ \A c \in tagCalls : {c.tag, c.target} \subseteq TagOrNone
  /\ unusedLeft \subseteq TagIds /\ loopHere \in BOOLEAN

\* A document that has tags is not left without one by a merge, be the tags
\* changed, deleted or merged meanwhile as they may.
MergeKeepsTagged ==
  [][\A c \in tagCalls : \A d \in TaggedDocs :
       ServeMergeTags(c) /\ tagsOf[d] # {} => tagsOf'[d] # {}]_tagsVars
=============================================================================
