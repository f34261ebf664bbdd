\* Each page of documents or questions on its own small instance.
SPECIFICATION WebSpec
CONSTANTS
  \* Two pages of documents, one of them in a folder that is not processed.
  NumDocs = 3
  PageSize = 2
  Unindexed = {3}
  MaxVisits = 2
  MaxBulks = 1
  MaxOthers = 1
  \* Two PDFs and a text.
  ViewerDocs = {"d1", "d2", "d3"}
  Pdfs = {"d1", "d3"}
  PdfLength = 2
  MaxEntries = 2
  MaxOpens = 2
  \* A folder below another one, with a document.
  FolderIds = {"f1", "f2", "f3"}
  FirstFolders <- MCFirstFolders
  FiledDocs = {"d1"}
  FirstHome = "f2"
  MaxFolderEdits = 2
  MaxSweeps = 1
  MaxMounts = 2
  \* Two words, one of them also with a blank at its end.
  Drafts <- MCDrafts
  Modes = {"hybrid", "keyword"}
  MaxInputs = 4
  \* Two tags and one that may be created.
  TagIds = {"t1", "t2", "t3"}
  FirstTags = {"t1", "t2"}
  TaggedDocs = {"d1"}
  MaxTagEdits = 3
  \* Three submissions, one chat that is replaced or cleared while they are on
  \* their way.
  MaxAsks = 3
  MaxChatResets = 1
  MaxPanelOpens = 1
  \* Questions to the library, to a folder and to a search.
  f1 = f1
  Targets = {f1}
  ScopeKinds = {"library", "folder", "folder_tree", "search"}
  MaxQuestions = 2
\* Users may stop at any time.
CHECK_DEADLOCK FALSE
INVARIANTS
  DocumentsTypeOK
  SelectionIsShown
  ShownIsViewed
  HighlightIsOfDocument
  ThreadFits
  PostsAreMeant
  AnswerFitsScope
PROPERTIES
  PurgeSparesTheLive
  RestoredTogetherGoHome
  MergeKeepsTagged
  TypedSearchSettles
