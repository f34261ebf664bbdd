\* Two folders with a folder each, moved while the page is opened again.
SPECIFICATION MovesSpec
CONSTANTS
  FolderIds = {"a", "a1", "b", "b1"}
  FirstFolders <- MCFirstFolders
  FiledDocs = {}
  FirstHome = "a1"
  MaxFolderEdits = 2
  MaxSweeps = 0
  MaxMounts = 3
INVARIANTS
  TreeHasNoCycle
