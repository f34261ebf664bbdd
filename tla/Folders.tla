------------------------------- MODULE Folders -------------------------------
(***************************************************************************)
(* The folder tree: the rows of folders and what services/folders.py does  *)
(* to them, the tree of the library page with its dialogs                  *)
(* (components/folders/FolderTree.tsx, MoveToFolderDialog.tsx) and the     *)
(* trash page (features/trash/TrashPage.tsx), each with the list that it   *)
(* fetched last.                                                           *)
(*                                                                         *)
(* A request is served in one step, in which its answer arrives too, but a *)
(* move in four: the walk that looks for a cycle, the UPDATE of the row,   *)
(* the query that finds the rows whose paths change, and the commit.  The  *)
(* other requests wait for the rows that a move has locked.                *)
(***************************************************************************)
EXTENDS Naturals, FiniteSets

CONSTANTS
  FolderIds,       \* the ids that folders may have
  FirstFolders,    \* those that are there from the start: parents and names
  FiledDocs,       \* the documents
  FirstHome,       \* the folder in which they start
  MaxFolderEdits,  \* bound: requests of the tree and of the rows of the trash
  MaxSweeps,       \* bound: how often the buttons for what is selected are used
  MaxMounts        \* bound: how often either page is opened

FolderNames == {"x", "y"}

ASSUME FoldersAssumption ==
  /\ IsFiniteSet(FolderIds)
  /\ {"root", "inbox", "trash", "none"} \cap FolderIds = {}
  /\ DOMAIN FirstFolders \subseteq FolderIds
  /\ \A f \in DOMAIN FirstFolders :
       /\ FirstFolders[f].parent \in {"root"} \cup DOMAIN FirstFolders
       /\ FirstFolders[f].name \in FolderNames
  /\ \A D \in SUBSET DOMAIN FirstFolders :
       D # {} => \E f \in D : FirstFolders[f].parent \notin D
  /\ FirstHome \in DOMAIN FirstFolders
  /\ MaxFolderEdits \in Nat /\ MaxSweeps \in Nat
  /\ MaxMounts \in Nat \ {0}

VARIABLES
  rows,           \* the table of folders
  filed,          \* where the documents are
  folderEdits,    \* the requests so far
  listed,         \* useFolders(): the rows that the tree has
  onPage,         \* the page that is shown, "library" or "trash"
  mount,          \* how often one was opened
  dialog,         \* FolderTree's dialog
  nameInput,      \* its name
  movedFolder,    \* moveFolder
  destination,    \* folderId of MoveToFolderDialog
  folderCalls,    \* the requests of the tree that are not answered
  binFolders,     \* useFolders(true): the rows that the trash page has
  binDocs,        \* useDocuments({trashed: true}), with their folders
  pickedFolders,  \* selectedFolderIds
  pickedDocs,     \* selectedDocIds
  sweeps          \* handleRestoreSelected, handleDeleteSelectedForever

foldersVars ==
  <<rows, filed, folderEdits, listed, onPage, mount, dialog, nameInput,
    movedFolder, destination, folderCalls, binFolders, binDocs, pickedFolders,
    pickedDocs, sweeps>>
tableVars == <<rows, filed>>
folderPageVars == <<onPage, mount>>
dialogsVars == <<dialog, nameInput, movedFolder, destination>>
treeVars == <<listed, folderPageVars, dialogsVars>>
binVars == <<binFolders, binDocs, pickedFolders, pickedDocs, sweeps>>

-----------------------------------------------------------------------------
(* The rows.                                                               *)

NoFolderId == "none"

\* trashedAt is 0 for a folder that is not in the trash, else the request that
\* put it there.
Absent ==
  [there |-> FALSE, parent |-> NoFolderId, name |-> "x", trashedAt |-> 0]
NewRow(p, name) ==
  [there |-> TRUE, parent |-> p, name |-> name, trashedAt |-> 0]

Live(t, f) == t[f].there /\ t[f].trashedAt = 0
InBin(t, f) == t[f].there /\ t[f].trashedAt > 0

\* descendant_ids: the folder and everything below it, in the trash or not.
HasBelow(t, D) ==
  \A g \in FolderIds : t[g].there /\ t[g].parent \in D => g \in D
DescendantIds(t, f) ==
  {g \in FolderIds :
     \A D \in SUBSET FolderIds : f \in D /\ HasBelow(t, D) => g \in D}

InCycle(t, f) ==
  \E g \in FolderIds : /\ t[g].there /\ t[g].parent = f
                       /\ f \in DescendantIds(t, g)

\* From p upwards, as far as the root, f or a folder that was passed already.
WouldCreateCycle(t, f, p) ==
  \/ p \in DescendantIds(t, f)
  \/ \E g \in FolderIds : InCycle(t, g) /\ p \in DescendantIds(t, g)

\* The recursive queries over a folder in a cycle do not end.
WalkEnds(t, f) == \A g \in DescendantIds(t, f) : ~InCycle(t, g)

NameTaken(p, name, f) ==
  \E g \in FolderIds \ {f} :
    rows[g].there /\ rows[g].parent = p /\ rows[g].name = name

\* What PostgreSQL locks for a move until its transaction ends: the row itself
\* against every other change, as parent_id is a column of
\* uq_folder_owner_sibling_name, and by the check of the foreign key its new
\* parent against such changes.  Nobody else gets the old or the new place.
Moving == {c \in folderCalls : c.step \in {"flushed", "read"}}
UpdateLocked == {c.folder : c \in Moving}
Locked == UpdateLocked \cup {c.to : c \in Moving}
KeyInUse(p, name) == \E c \in Moving :
  rows[c.folder].name = name /\ p \in {rows[c.folder].parent, c.to}

\* The documents that trash_folder takes along keep their folder.
TrashTree(f, n) ==
  LET ids == DescendantIds(rows, f)
  IN  /\ ids \cap UpdateLocked = {}
      /\ rows' = [g \in FolderIds |->
                    IF g \in ids THEN [rows[g] EXCEPT !.trashedAt = n]
                    ELSE rows[g]]
      /\ filed' = [d \in FiledDocs |->
                     IF filed[d].at \in ids /\ ~filed[d].trashed
                     THEN [at |-> filed[d].at, trashed |-> TRUE,
                           from |-> filed[d].at]
                     ELSE filed[d]]

RestoreTree(f) ==
  LET ids == DescendantIds(rows, f)
  IN  /\ ids \cap UpdateLocked = {}
      /\ rows' = [g \in FolderIds |->
                    IF g \in ids THEN [rows[g] EXCEPT !.trashedAt = 0]
                    ELSE rows[g]]
      /\ filed' = [d \in FiledDocs |->
                     IF filed[d].at \in ids /\ filed[d].trashed
                     THEN [at |-> filed[d].at, trashed |-> FALSE,
                           from |-> NoFolderId]
                     ELSE filed[d]]

\* Mutant: the documents of the folders go, in the trash or not.
AllIn(ids) == {d \in FiledDocs : filed[d].at \in ids}

PurgedDocs(ids) == {d \in FiledDocs : filed[d].at \in ids /\ filed[d].trashed}

Gone(d) == filed[d].at = NoFolderId
WithoutDocs(gone) ==
  [d \in FiledDocs |->
    IF d \in gone
    THEN [at |-> NoFolderId, trashed |-> FALSE, from |-> NoFolderId]
    ELSE filed[d]]

\* The foreign keys: what is left may not refer to a folder that goes.
Referred(t, docs, gone) ==
  \/ \E g \in FolderIds \ gone : t[g].there /\ t[g].parent \in gone
  \/ \E d \in FiledDocs : docs[d].at \in gone

\* permanently_delete_trashed_subtree.
PurgeWorks(f) ==
  LET ids == DescendantIds(rows, f)
  IN  /\ InBin(rows, f)
      /\ ~Referred(rows, WithoutDocs(PurgedDocs(ids)),
                   {g \in ids : InBin(rows, g)})
PurgeTree(f) ==
  LET ids == DescendantIds(rows, f)
  IN  /\ ids \cap Locked = {}
      /\ filed' = WithoutDocs(PurgedDocs(ids))
      /\ rows' = [g \in FolderIds |->
                    IF g \in ids /\ InBin(rows, g) THEN Absent ELSE rows[g]]

\* empty_trash: all documents of the trash, then the folders that are empty, as
\* long as one is: f is when those in D have gone.
IsEmptied(t, docs, D, f) ==
  /\ InBin(t, f) /\ \A d \in FiledDocs : docs[d].at # f
  /\ \A g \in FolderIds \ (D \cup {f}) : t[g].there => t[g].parent # f
EmptiedFolders(t, docs) ==
  {f \in FolderIds :
     \A D \in SUBSET FolderIds :
       (\A g \in FolderIds : IsEmptied(t, docs, D, g) => g \in D) => f \in D}
EmptiedTrash(t, docs) ==
  [f \in FolderIds |-> IF f \in EmptiedFolders(t, docs) THEN Absent ELSE t[f]]

\* restore_document: to where it came from if that is not in the trash.
Home(d) ==
  LET from == filed[d].from
  IN  IF from \in FolderIds /\ Live(rows, from) THEN from ELSE "inbox"
RestoreDocs(docs) ==
  /\ \A d \in docs : Home(d) \notin UpdateLocked
  /\ filed' = [d \in FiledDocs |->
                 IF d \in docs /\ filed[d].trashed
                 THEN [at |-> Home(d), trashed |-> FALSE, from |-> NoFolderId]
                 ELSE filed[d]]

Edit == folderEdits < MaxFolderEdits /\ folderEdits' = folderEdits + 1

-----------------------------------------------------------------------------
(* The tree.                                                               *)

NoFolderDialog == [type |-> "none", folder |-> NoFolderId]
FolderDialog(type, f) == [type |-> type, folder |-> f]

\* buildTree: a folder with a parent that is not in the list is not shown.
InTree(f) == \E p \in {"root"} \cup FolderIds :
                /\ Live(listed, f) /\ listed[f].parent = p
                /\ p # "root" => Live(listed, p)

\* The tree is there for the user when none of its dialogs is in front of it.
TreeInFront ==
  onPage = "library" /\ dialog = NoFolderDialog /\ movedFolder = NoFolderId

\* A folder of the tree with its menu.
FolderNode(f) == TreeInFront /\ InTree(f)

FetchFolders ==
  /\ onPage = "library" /\ listed # rows
  /\ listed' = rows
  /\ UNCHANGED <<tableVars, folderEdits, folderPageVars, dialogsVars,
                 folderCalls, binVars>>

\* The other page: what the components of the first knew of dialogs, selections
\* and their own requests is lost, the requests and loops go on.
OpenPage ==
  /\ mount < MaxMounts
  /\ mount' = mount + 1
  /\ onPage' = IF onPage = "library" THEN "trash" ELSE "library"
  /\ dialog' = NoFolderDialog /\ nameInput' = "" /\ movedFolder' = NoFolderId
  /\ destination' = NoFolderId
  /\ pickedFolders' = {} /\ pickedDocs' = {}
  /\ UNCHANGED <<tableVars, folderEdits, listed, folderCalls, binFolders,
                 binDocs, sweeps>>

DialogOnly ==
  UNCHANGED <<tableVars, folderEdits, listed, folderPageVars, folderCalls,
              binVars>>

\* The item of a folder's menu; "New folder" has the root for a parent.
OpenCreate(p) ==
  /\ \/ p = "root" /\ TreeInFront
     \/ p # "root" /\ FolderNode(p)
  /\ nameInput' = "" /\ dialog' = FolderDialog("create", p)
  /\ UNCHANGED <<movedFolder, destination>> /\ DialogOnly
OpenRename(f) ==
  /\ FolderNode(f)
  /\ nameInput' = listed[f].name /\ dialog' = FolderDialog("rename", f)
  /\ UNCHANGED <<movedFolder, destination>> /\ DialogOnly
OpenDelete(f) ==
  /\ FolderNode(f)
  /\ dialog' = FolderDialog("delete", f)
  /\ UNCHANGED <<nameInput, movedFolder, destination>> /\ DialogOnly
OpenMove(f) ==
  /\ FolderNode(f)
  /\ movedFolder' = f
  /\ UNCHANGED <<dialog, nameInput, destination>> /\ DialogOnly

CloseFolderDialog ==
  /\ dialog # NoFolderDialog /\ dialog' = NoFolderDialog
  /\ UNCHANGED <<nameInput, movedFolder, destination>> /\ DialogOnly
CloseMove ==
  /\ movedFolder # NoFolderId /\ movedFolder' = NoFolderId
  /\ destination' = NoFolderId
  /\ UNCHANGED <<dialog, nameInput>> /\ DialogOnly

TypeFolderName(name) ==
  /\ dialog.type \in {"create", "rename"} /\ nameInput' = name
  /\ UNCHANGED <<dialog, movedFolder, destination>> /\ DialogOnly

\* The folders that the dialog for moving offers.
Destinations ==
  {"root"} \cup
    {g \in FolderIds :
       Live(listed, g) /\ g \notin DescendantIds(listed, movedFolder)}
ChooseDestination(p) ==
  /\ movedFolder # NoFolderId /\ p \in Destinations \ {destination}
  /\ destination' = p
  /\ UNCHANGED <<dialog, nameInput, movedFolder>> /\ DialogOnly

FolderCall(kind, f, name, to) ==
  [n |-> folderEdits + 1, kind |-> kind, folder |-> f, name |-> name, to |-> to,
   mount |-> mount, step |-> "sent", tree |-> {}]
SendFolderCall(c) ==
  /\ Edit
  /\ folderCalls' = folderCalls \cup {c}
  /\ UNCHANGED <<tableVars, treeVars, binVars>>

\* handleSubmit; the dialog stays, and may be submitted again, until the answer.
HandleSubmit ==
  /\ dialog # NoFolderDialog
  /\ dialog.type = "delete" \/ nameInput # ""
  /\ SendFolderCall(FolderCall(dialog.type, dialog.folder,
       IF dialog.type = "delete" THEN "" ELSE nameInput, NoFolderId))

MovePending ==
  \E c \in folderCalls : c.kind \in {"rename", "move"} /\ c.mount = mount
ConfirmMove ==
  /\ movedFolder # NoFolderId /\ destination # NoFolderId /\ ~MovePending
  /\ SendFolderCall(FolderCall("move", movedFolder, "", destination))

\* The answers close the dialog that is open when they come.
AfterAnswer(c, ok) ==
  /\ folderCalls' = folderCalls \ {c}
  /\ IF ok /\ c.mount = mount
     THEN IF c.kind = "move"
          THEN /\ movedFolder' = NoFolderId /\ destination' = NoFolderId
               /\ UNCHANGED <<dialog, nameInput>>
          ELSE /\ dialog' = NoFolderDialog /\ nameInput' = ""
               /\ UNCHANGED <<movedFolder, destination>>
     ELSE UNCHANGED dialogsVars
  /\ UNCHANGED <<folderEdits, listed, folderPageVars, binVars>>

\* create_folder looks for a live folder of that name only, the constraint of
\* the table for any.
FreeIds == {f \in FolderIds : ~rows[f].there}
CreateAllowed(c) ==
  /\ c.folder # "root" => rows[c.folder].there
  /\ \A g \in FolderIds :
       Live(rows, g) /\ rows[g].parent = c.folder => rows[g].name # c.name
CreateWorks(c) == CreateAllowed(c) /\ ~NameTaken(c.folder, c.name, NoFolderId)
ServeCreate(c) ==
  /\ c.kind = "create" /\ FreeIds # {}
  /\ CreateAllowed(c) =>
       c.folder \notin UpdateLocked /\ ~KeyInUse(c.folder, c.name)
  /\ IF CreateWorks(c)
     THEN rows' = [rows EXCEPT ![CHOOSE f \in FreeIds : TRUE] =
                                  NewRow(c.folder, c.name)]
     ELSE UNCHANGED rows
  /\ UNCHANGED filed
  /\ AfterAnswer(c, CreateWorks(c))

RenameWorks(c) ==
  rows[c.folder].there /\ ~NameTaken(rows[c.folder].parent, c.name, c.folder)
ServeRename(c) ==
  /\ c.kind = "rename"
  /\ RenameWorks(c) =>
       /\ c.folder \notin Locked /\ ~KeyInUse(rows[c.folder].parent, c.name)
       /\ WalkEnds(rows, c.folder)
       /\ DescendantIds(rows, c.folder) \cap UpdateLocked = {}
  /\ rows' = IF RenameWorks(c) THEN [rows EXCEPT ![c.folder].name = c.name]
             ELSE rows
  /\ UNCHANGED filed
  /\ AfterAnswer(c, RenameWorks(c))

\* One that is in the trash already is answered as it is.
ServeTrash(c) ==
  /\ c.kind = "delete"
  /\ IF Live(rows, c.folder)
     THEN WalkEnds(rows, c.folder) /\ TrashTree(c.folder, c.n)
     ELSE UNCHANGED tableVars
  /\ AfterAnswer(c, rows[c.folder].there)

MoveGoesOn(c, d) ==
  /\ folderCalls' = (folderCalls \ {c}) \cup {d}
  /\ UNCHANGED <<tableVars, folderEdits, treeVars, binVars>>

\* Neither the walk nor the rest of move_folder looks whether the parent is in
\* the trash.  The row of a folder that has this parent already is not written.
MoveAllowed(c) ==
  /\ rows[c.folder].there /\ (c.to # "root" => rows[c.to].there)
  /\ ~WouldCreateCycle(rows, c.folder, c.to)
  /\ ~NameTaken(c.to, rows[c.folder].name, c.folder)
WalkMove(c) ==
  /\ c.kind = "move" /\ c.step = "sent"
  /\ \/ /\ MoveAllowed(c) /\ rows[c.folder].parent # c.to
        /\ MoveGoesOn(c, [c EXCEPT !.step = "walked"])
     \/ /\ MoveAllowed(c) /\ rows[c.folder].parent = c.to
        /\ WalkEnds(rows, c.folder)
        /\ UNCHANGED tableVars /\ AfterAnswer(c, TRUE)
     \/ ~MoveAllowed(c) /\ UNCHANGED tableVars /\ AfterAnswer(c, FALSE)

\* The UPDATE: the constraints of the table are all that is looked at by then.
FlushWorks(c) ==
  /\ rows[c.folder].there /\ (c.to # "root" => rows[c.to].there)
  /\ ~NameTaken(c.to, rows[c.folder].name, c.folder)
FlushMove(c) ==
  /\ c.step = "walked"
  /\ c.folder \notin Locked /\ c.to \notin UpdateLocked
  /\ ~KeyInUse(c.to, rows[c.folder].name)
  /\ \/ FlushWorks(c) /\ MoveGoesOn(c, [c EXCEPT !.step = "flushed"])
     \/ ~FlushWorks(c) /\ UNCHANGED tableVars /\ AfterAnswer(c, FALSE)

\* refresh_path_cache_subtree: its query sees the UPDATE of this transaction and
\* what others have committed.  It waits for the rows that it writes.
AsMoved(c) == [rows EXCEPT ![c.folder].parent = c.to]
RefreshPaths(c) ==
  /\ c.step = "flushed" /\ WalkEnds(AsMoved(c), c.folder)
  /\ MoveGoesOn(c, [c EXCEPT !.step = "read",
                             !.tree = DescendantIds(AsMoved(c), c.folder)])
CommitMove(c) ==
  /\ c.step = "read" /\ \A d \in Moving \ {c} : d.folder \notin c.tree
  /\ rows' = AsMoved(c) /\ UNCHANGED filed
  /\ AfterAnswer(c, TRUE)

\* PostgreSQL ends one of the transactions that wait for each other.
FailMove(c) ==
  /\ c.step # "sent"
  /\ UNCHANGED tableVars /\ AfterAnswer(c, FALSE)

-----------------------------------------------------------------------------
(* Documents that are put into a folder or into the trash.                 *)

\* handleDrop, of documents on a folder of the tree; move_document does not look
\* whether the folder is in the trash.
DropOnFolder(d, f) ==
  /\ FolderNode(f) /\ rows[f].there /\ f \notin UpdateLocked
  /\ ~Gone(d) /\ Edit
  /\ filed' = [filed EXCEPT ![d] = [@ EXCEPT !.at = f, !.trashed = FALSE]]
  /\ UNCHANGED <<rows, treeVars, folderCalls, binVars>>

TrashFiled(d) ==
  /\ TreeInFront /\ ~Gone(d) /\ ~filed[d].trashed /\ Edit
  /\ filed' =
       [filed EXCEPT ![d] = [at |-> "trash", trashed |-> TRUE, from |-> @.at]]
  /\ UNCHANGED <<rows, treeVars, folderCalls, binVars>>

-----------------------------------------------------------------------------
(* The trash page.                                                         *)

BinnedRows == {f \in FolderIds : InBin(rows, f)}
BinList ==
  [f \in FolderIds |-> IF InBin(rows, f) THEN rows[f].parent ELSE NoFolderId]

InBinList(f) == binFolders[f] # NoFolderId

RootTrashedFolders ==
  {f \in FolderIds :
     /\ InBinList(f)
     /\ binFolders[f] \notin FolderIds \/ ~InBinList(binFolders[f])}

LooseDocuments == {r \in binDocs : r.at \notin FolderIds \/ ~InBinList(r.at)}

\* TrashFolderRow and TrashDocRow.
FolderOffered(f) == onPage = "trash" /\ f \in RootTrashedFolders
DocOffered(d) == onPage = "trash" /\ \E r \in LooseDocuments : r.doc = d

FetchBinFolders ==
  /\ onPage = "trash" /\ binFolders # BinList
  /\ binFolders' = BinList
  /\ UNCHANGED <<tableVars, folderEdits, treeVars, folderCalls, binDocs,
                 pickedFolders, pickedDocs, sweeps>>

TrashedDocs ==
  {[doc |-> d, at |-> filed[d].at] : d \in {e \in FiledDocs : filed[e].trashed}}
FetchBinDocs ==
  /\ onPage = "trash" /\ binDocs # TrashedDocs
  /\ binDocs' = TrashedDocs
  /\ UNCHANGED <<tableVars, folderEdits, treeVars, folderCalls, binFolders,
                 pickedFolders, pickedDocs, sweeps>>

\* toggleFolder and toggleDoc, of rows that are shown.
ToggleFolder(f) ==
  /\ FolderOffered(f)
  /\ pickedFolders' = IF f \in pickedFolders THEN pickedFolders \ {f}
                      ELSE pickedFolders \cup {f}
  /\ UNCHANGED <<tableVars, folderEdits, treeVars, folderCalls, binFolders,
                 binDocs, pickedDocs, sweeps>>
ToggleDoc(d) ==
  /\ DocOffered(d)
  /\ pickedDocs' = IF d \in pickedDocs THEN pickedDocs \ {d}
                   ELSE pickedDocs \cup {d}
  /\ UNCHANGED <<tableVars, folderEdits, treeVars, folderCalls, binFolders,
                 binDocs, pickedFolders, sweeps>>

RowOnly == UNCHANGED <<treeVars, folderCalls, binVars>>

RestoreFolderRow(f) ==
  /\ FolderOffered(f) /\ Edit
  /\ IF InBin(rows, f) /\ WalkEnds(rows, f) THEN RestoreTree(f)
     ELSE UNCHANGED tableVars
  /\ RowOnly
RestoreDocRow(d) ==
  /\ DocOffered(d)
  /\ Edit
  /\ RestoreDocs({d}) /\ UNCHANGED rows
  /\ RowOnly

SelectedCount == Cardinality(pickedFolders) + Cardinality(pickedDocs)

\* handleRestoreSelected and handleDeleteSelectedForever go over what was
\* selected when they were clicked.
NewSweep(kind) ==
  [kind |-> kind, mount |-> mount, folders |-> pickedFolders,
   docs |-> pickedDocs, chosen |-> pickedFolders,
   stamps |-> [f \in FolderIds |-> rows[f].trashedAt]]
StartSweep(kind) ==
  /\ onPage = "trash" /\ SelectedCount > 0 /\ Cardinality(sweeps) < MaxSweeps
  /\ sweeps' = sweeps \cup {NewSweep(kind)}
  /\ UNCHANGED <<tableVars, folderEdits, treeVars, folderCalls, binFolders,
                 binDocs, pickedFolders, pickedDocs>>

SweepOnly ==
  UNCHANGED <<folderEdits, treeVars, folderCalls, binFolders, binDocs,
              pickedFolders, pickedDocs>>
\* A request that fails ends the loop, with the selection as it is.
SweepAfter(s, ok, next) ==
  sweeps' = (sweeps \ {s}) \cup IF ok THEN {next} ELSE {}

SweepFolder(s, f) ==
  LET ok == IF s.kind = "restore" THEN rows[f].there ELSE PurgeWorks(f)
  IN  /\ f \in s.folders /\ WalkEnds(rows, f)
      /\ IF ok /\ InBin(rows, f)
         THEN IF s.kind = "restore" THEN RestoreTree(f) ELSE PurgeTree(f)
         ELSE UNCHANGED tableVars
      /\ SweepAfter(s, ok, [s EXCEPT !.folders = @ \ {f}])
      /\ SweepOnly

\* Mutant: the documents without waiting for the folders.
AtAnyTime(s) == s.docs # {}

DocsAreNext(s) == s.folders = {} /\ s.docs # {}

\* The bulk request, all of which fails if one document is gone.
SweepRestoreDocs(s) ==
  LET ok == \A d \in s.docs : ~Gone(d)
  IN  /\ s.kind = "restore" /\ DocsAreNext(s)
      /\ IF ok THEN RestoreDocs(s.docs) ELSE UNCHANGED filed
      /\ UNCHANGED rows
      /\ SweepAfter(s, ok, [s EXCEPT !.docs = {}])
      /\ SweepOnly

\* permanently_delete refuses what is not in the trash.
SweepDeleteDoc(s, d) ==
  LET ok == ~Gone(d) /\ filed[d].trashed
  IN  /\ s.kind = "purge" /\ DocsAreNext(s) /\ d \in s.docs
      /\ filed' = IF ok THEN WithoutDocs({d}) ELSE filed
      /\ UNCHANGED rows
      /\ SweepAfter(s, ok, [s EXCEPT !.docs = @ \ {d}])
      /\ SweepOnly

EndSweep(s) ==
  /\ s.folders = {} /\ s.docs = {}
  /\ sweeps' = sweeps \ {s}
  /\ IF s.mount = mount THEN pickedFolders' = {} /\ pickedDocs' = {}
     ELSE UNCHANGED <<pickedFolders, pickedDocs>>
  /\ UNCHANGED <<tableVars, folderEdits, treeVars, folderCalls, binFolders,
                 binDocs>>

TrashCount ==
  Cardinality(BinnedRows) + Cardinality({d \in FiledDocs : filed[d].trashed})
HandleEmptyTrash ==
  /\ onPage = "trash" /\ TrashCount > 0 /\ Edit
  /\ filed' = WithoutDocs({d \in FiledDocs : filed[d].trashed})
  /\ EmptiedFolders(rows, filed') \cap Locked = {}
  /\ rows' = EmptiedTrash(rows, filed')
  /\ pickedFolders' = {} /\ pickedDocs' = {}
  /\ UNCHANGED <<treeVars, folderCalls, binFolders, binDocs, sweeps>>

-----------------------------------------------------------------------------
FoldersInit ==
  /\ rows = [f \in FolderIds |->
               IF f \in DOMAIN FirstFolders
               THEN NewRow(FirstFolders[f].parent, FirstFolders[f].name)
               ELSE Absent]
  /\ filed = [d \in FiledDocs |-> [at |-> FirstHome, trashed |-> FALSE,
                                   from |-> NoFolderId]]
  /\ folderEdits = 0 /\ listed = rows /\ onPage = "library" /\ mount = 1
  /\ dialog = NoFolderDialog /\ nameInput = "" /\ movedFolder = NoFolderId
  /\ destination = NoFolderId /\ folderCalls = {}
  /\ binFolders = BinList /\ binDocs = {}
  /\ pickedFolders = {} /\ pickedDocs = {} /\ sweeps = {}

TreeNext ==
  \/ FetchFolders \/ OpenPage \/ CloseFolderDialog \/ CloseMove
  \/ HandleSubmit \/ ConfirmMove
  \/ \E f \in FolderIds : OpenRename(f) \/ OpenDelete(f) \/ OpenMove(f)
  \/ \E p \in {"root"} \cup FolderIds : OpenCreate(p) \/ ChooseDestination(p)
  \/ \E name \in FolderNames : TypeFolderName(name)
  \/ \E c \in folderCalls :
       \/ ServeCreate(c) \/ ServeRename(c) \/ ServeTrash(c)
       \/ WalkMove(c) \/ FlushMove(c) \/ RefreshPaths(c) \/ CommitMove(c)
       \/ FailMove(c)
  \/ \E d \in FiledDocs :
       TrashFiled(d) \/ \E f \in FolderIds : DropOnFolder(d, f)

BinNext ==
  \/ FetchBinFolders \/ FetchBinDocs \/ HandleEmptyTrash
  \/ \E f \in FolderIds : ToggleFolder(f) \/ RestoreFolderRow(f)
  \/ \E d \in FiledDocs : ToggleDoc(d) \/ RestoreDocRow(d)
  \/ \E kind \in {"restore", "purge"} : StartSweep(kind)
  \/ \E s \in sweeps :
       \/ SweepRestoreDocs(s) \/ EndSweep(s)
       \/ \E f \in FolderIds : SweepFolder(s, f)
       \/ \E d \in FiledDocs : SweepDeleteDoc(s, d)

FoldersNext == TreeNext \/ BinNext

FoldersSpec == FoldersInit /\ [][FoldersNext]_foldersVars

-----------------------------------------------------------------------------
(* Properties.                                                             *)

Parents == FolderIds \cup {"root", NoFolderId}
RowType == [there : BOOLEAN, parent : Parents, name : FolderNames,
            trashedAt : 0..MaxFolderEdits]
Places == FolderIds \cup {"inbox", "trash", NoFolderId}

\* Every variable keeps its type, and a row or a document that is there refers
\* to folders that are.
FoldersTypeOK ==
  /\ rows \in [FolderIds -> RowType] /\ listed \in [FolderIds -> RowType]
  /\ filed \in [FiledDocs -> [at : Places, trashed : BOOLEAN, from : Places]]
  /\ \A f \in FolderIds : rows[f].there =>
       rows[f].parent = "root" \/ rows[rows[f].parent].there
  /\ \A d \in FiledDocs : filed[d].at \in FolderIds => rows[filed[d].at].there
  /\ folderEdits \in 0..MaxFolderEdits /\ onPage \in {"library", "trash"}
  /\ mount \in 1..MaxMounts
  /\ dialog \in
       [type : {"none", "create", "rename", "delete"}, folder : Parents]
  /\ nameInput \in FolderNames \cup {""}
  /\ {movedFolder, destination} \subseteq Parents
  /\ \A c \in folderCalls :
       /\ c.n \in 1..folderEdits
       /\ c.kind \in {"create", "rename", "delete", "move"}
       /\ {c.folder, c.to} \subseteq Parents /\ c.mount \in 1..mount
  /\ binFolders \in [FolderIds -> Parents]
  /\ binDocs \subseteq [doc : FiledDocs, at : Places]
  /\ pickedFolders \subseteq FolderIds /\ pickedDocs \subseteq FiledDocs
  /\ \A s \in sweeps :
       s.folders \subseteq s.chosen /\ s.docs \subseteq FiledDocs

\* Deleting for ever takes nothing that is not in the trash at that moment,
\* however old the list is that it was selected from.
PurgeSparesTheLive ==
  [][/\ \A d \in FiledDocs : ~Gone(d) /\ Gone(d)' => filed[d].trashed
     /\ \A f \in FolderIds : rows[f].there /\ ~rows'[f].there => InBin(rows, f)
    ]_foldersVars

\* A document that is restored together with the folder it came from is in that
\* folder again, unless somebody put the folder into the trash anew.
RestoredTogetherGoHome ==
  [][\A s \in sweeps : \A d \in s.docs :
       (/\ SweepRestoreDocs(s) /\ filed[d].trashed /\ ~filed'[d].trashed
        /\ filed[d].from \in s.chosen
        /\ rows[filed[d].from].there
        /\ rows[filed[d].from].trashedAt \in {0, s.stamps[filed[d].from]})
       => filed'[d].at = filed[d].from]_foldersVars

\* The folders that the trash page has below f.
BinBelow(f) ==
  {g \in FolderIds :
     \A D \in SUBSET FolderIds :
       f \in D /\ (\A h \in FolderIds : binFolders[h] \in D => h \in D)
         => g \in D}

\* What the trash page does not list by itself is below a folder that it lists.
BinHidesNothing ==
  LET offered == UNION {BinBelow(f) : f \in RootTrashedFolders}
  IN  /\ \A f \in FolderIds : InBinList(f) => f \in offered
      /\ \A r \in binDocs : r \in LooseDocuments \/ r.at \in offered

\* A folder is never below itself (services/folders.py:354: "Cannot move a
\* folder into its descendant").
TreeHasNoCycle == \A f \in FolderIds : ~InCycle(rows, f)
=============================================================================
