--------------------------- MODULE MCWebDocuments ----------------------------
(* The pages of the web client that show documents and answer questions    *)
(* about them, each on a small instance.                                   *)
(* They share only the query cache, which QueryCache models: TLC follows   *)
(* one of them at a time and leaves the others as they are at the start.   *)
EXTENDS Library, Viewer, Folders, Search, Tags, AskPanel, AskChat

CONSTANT f1

MCFirstFolders ==
  [f \in {"f1", "f2"} |->
     IF f = "f1" THEN [parent |-> "root", name |-> "x"]
     ELSE [parent |-> "f1", name |-> "y"]]

VARIABLE followed   \* the module whose page is used

MCDrafts == {<<"", FALSE>>, <<"tax", FALSE>>, <<"tax", TRUE>>, <<"car", FALSE>>}

webVars ==
  <<followed, libVars, viewerVars, foldersVars, searchVars, tagsVars,
    askPanelVars, askChatVars>>

WebInit ==
  /\ followed \in {"Library", "Viewer", "Folders", "Search", "Tags",
                   "AskPanel", "AskChat"}
  /\ LibraryInit
  /\ \A d \in LibDocs : places[d] = "inbox" => d = 1 \/ followed # "Library"
  /\ (followed = "Library" \/ places = [d \in LibDocs |-> "inbox"])
  /\ ViewerInit
  /\ FoldersInit
  /\ SearchInit
  /\ TagsInit
  /\ AskPanelInit /\ (followed = "AskPanel" \/ remoteAsk)
  /\ AskChatInit /\ (followed = "AskChat" \/ (remote /\ warns))

\* Bound: changes of the address, bulk actions and changes of others together.
MaxLibrarySteps == 3

WebNext ==
  \/ /\ followed = "Library" /\ LibraryNext
     /\ visits' + bulkCount' + others' <= MaxLibrarySteps
     /\ UNCHANGED <<followed, viewerVars, foldersVars, searchVars, tagsVars,
                    askPanelVars, askChatVars>>
  \/ /\ followed = "Viewer" /\ ViewerNext
     /\ UNCHANGED <<followed, libVars, foldersVars, searchVars, tagsVars,
                    askPanelVars, askChatVars>>
  \/ /\ followed = "Folders" /\ FoldersNext
     /\ UNCHANGED <<followed, libVars, viewerVars, searchVars, tagsVars,
                    askPanelVars, askChatVars>>
  \/ /\ followed = "Search" /\ SearchNext
     /\ UNCHANGED <<followed, libVars, viewerVars, foldersVars, tagsVars,
                    askPanelVars, askChatVars>>
  \/ /\ followed = "Tags" /\ TagsNext
     /\ UNCHANGED <<followed, libVars, viewerVars, foldersVars, searchVars,
                    askPanelVars, askChatVars>>
  \/ /\ followed = "AskPanel" /\ AskPanelNext
     /\ UNCHANGED <<followed, libVars, viewerVars, foldersVars, searchVars,
                    tagsVars, askChatVars>>
  \/ /\ followed = "AskChat" /\ AskChatNext
     /\ UNCHANGED <<followed, libVars, viewerVars, foldersVars, searchVars,
                    tagsVars, askPanelVars>>

\* The timers of the search page and of the search box run while it is used.
WebFairness ==
  /\ WF_searchVars(followed = "Search" /\ FireTimer)
  /\ WF_searchVars(followed = "Search" /\ FireBoxTimer)

WebSpec == WebInit /\ [][WebNext]_webVars /\ WebFairness

\* The type invariants of the pages.
DocumentsTypeOK ==
  /\ LibraryTypeOK /\ ViewerTypeOK /\ FoldersTypeOK /\ SearchTypeOK
  /\ TagsTypeOK /\ AskPanelTypeOK /\ AskChatTypeOK

\* While the search page is used, its draft and its address come to agree.
TypedSearchSettles == followed = "Search" => SearchSettles
=============================================================================
