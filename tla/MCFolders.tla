----------------------------- MODULE MCFolders ------------------------------
(* Two folders below the root, each with a folder of its own.              *)
EXTENDS Folders

MCFirstFolders ==
  [f \in FolderIds |->
     CASE f = "a"  -> [parent |-> "root", name |-> "x"]
       [] f = "a1" -> [parent |-> "a", name |-> "x"]
       [] f = "b"  -> [parent |-> "root", name |-> "y"]
       [] f = "b1" -> [parent |-> "b", name |-> "x"]]

\* Users who do nothing but move folders: the other dialogs stay closed.
MovesSpec == FoldersInit /\ [][FoldersNext /\ UNCHANGED dialog]_foldersVars
=============================================================================
