-------------------------- MODULE Documents_proofs --------------------------
(***************************************************************************)
(* Theorems about the pages of the web client that show documents, for     *)
(* every value of the constants: the viewer, the library page, the folder  *)
(* tree with the trash page, the search page with its box, and the tags.   *)
(***************************************************************************)
EXTENDS Viewer, Library, Folders, Search, Tags, FiniteSetTheorems,
        FunctionTheorems, SequenceTheorems, TLAPS

-----------------------------------------------------------------------------
(* Viewer: types.                                                          *)

LoadTypes == [n : 1..loadCount, doc : ViewerDocs, step : {"fetch", "parse"},
              cancelled : BOOLEAN]
ContentTypes == [doc : Documents, kind : {"none", "native", "pdf", "error"},
                 pages : PageNumbers]

LEMMA PageOne == 1 \in PageNumbers
  BY ViewerAssumption DEF PageNumbers

LEMMA UrlTypes ==
  /\ HomeUrl \in UrlType
  /\ \A u \in UrlType :
       /\ Closed(u) \in UrlType /\ Closed(u).folder = u.folder
       /\ \A d \in ViewerDocs, p \in PageNumbers :
            Opened(u, d, p) \in UrlType /\ Opened(u, d, p).doc = d
       /\ \A p \in PageNumbers :
            AtPage(u, p) \in UrlType /\ AtPage(u, p).doc = u.doc
       /\ \A f \in {"all", "f1"} :
            /\ [u EXCEPT !.folder = f] \in UrlType
            /\ [u EXCEPT !.folder = f].doc = u.doc
  BY PageOne DEF HomeUrl, UrlType, Closed, Opened, AtPage, Documents

LEMMA ContentType ==
  /\ NoContent \in ContentTypes
  /\ \A d \in ViewerDocs, kind \in {"native", "pdf", "error"} :
       /\ Content(d, kind, 1) \in ContentTypes
       /\ Content(d, kind, PagesIn(d)) \in ContentTypes
  BY PageOne, ViewerAssumption
  DEF NoContent, Content, ContentTypes, Documents, PagesIn, PageNumbers

\* What the effect of the viewer leaves, for the document that it is given.
LEMMA ReloadTypes ==
  ASSUME ViewerTypeOK, NEW d \in Documents, Reload(d)
  PROVE  /\ loads' \subseteq LoadTypes'
         /\ loadCount' \in Nat /\ current' \in 0..loadCount'
         /\ content' \in ContentTypes
         /\ innerPage' \in PageNumbers
<1> USE DEF ViewerTypeOK
<1>0. ASSUME NEW l \in loads, loadCount' \in {loadCount, loadCount + 1}
      PROVE  [l EXCEPT !.cancelled = TRUE] \in LoadTypes'
  <2>1. l \in LoadTypes /\ loadCount \in Nat
    BY DEF LoadTypes
  <2>2. l.n \in 1..loadCount'
    BY <1>0, <2>1 DEF LoadTypes
  <2> QED
    BY <2>1, <2>2 DEF LoadTypes
<1>1. CASE d = NoDocument
  <2>1. loads' = {[l EXCEPT !.cancelled = TRUE] : l \in loads}
    BY <1>1 DEF Reload
  <2>2. loadCount' = loadCount /\ current' = 0
    BY <1>1 DEF Reload
  <2>3. loads' \subseteq LoadTypes'
    BY <1>0, <2>1, <2>2
  <2> QED
    BY <2>2, <2>3, PageOne, ContentType DEF Reload
<1>2. CASE d # NoDocument
  <2> DEFINE new == [n |-> loadCount + 1, doc |-> d, step |-> "fetch",
                     cancelled |-> FALSE]
  <2>1. loads' = {[l EXCEPT !.cancelled = TRUE] : l \in loads} \cup {new}
    BY <1>2 DEF Reload
  <2>2. loadCount' = loadCount + 1 /\ current' = loadCount + 1
    BY <1>2 DEF Reload
  <2>3. d \in ViewerDocs
    BY <1>2 DEF Documents
  <2>4. new \in LoadTypes'
    BY <2>2, <2>3 DEF LoadTypes
  <2>5. \A l \in loads : [l EXCEPT !.cancelled = TRUE] \in LoadTypes'
    BY <1>0, <2>2
  <2>6. loads' \subseteq LoadTypes'
    BY <2>1, <2>4, <2>5
  <2> QED
    BY <2>2, <2>6, PageOne, ContentType DEF Reload
<1> QED
  BY <1>1, <1>2

\* The types of what follows a change of the address.
LEMMA FollowTypes ==
  ASSUME ViewerTypeOK, url' \in UrlType, FollowUrl
  PROVE  /\ viewed' \in Documents /\ askOpen' \in BOOLEAN
         /\ highlight' \in [doc : Documents, page : PageNumbers \cup {0}]
         /\ loads' \subseteq LoadTypes'
         /\ loadCount' \in Nat /\ current' \in 0..loadCount'
         /\ content' \in ContentTypes
         /\ innerPage' \in PageNumbers
<1> USE DEF ViewerTypeOK
<1>1. CASE url'.doc = url.doc
  BY <1>1 DEF FollowUrl, loadVars, LoadTypes, ContentTypes, UrlType
<1>2. CASE url'.doc # url.doc
  <2>1. viewed' \in Documents /\ Reload(viewed') /\ askOpen' = FALSE
        /\ highlight' = NoHighlight
    BY <1>2 DEF FollowUrl, HighlightAfter, UrlType, Documents
  <2>2. NoHighlight \in [doc : Documents, page : PageNumbers \cup {0}]
    BY DEF NoHighlight, Documents
  <2> QED
    BY <2>1, <2>2, ReloadTypes
<1> QED
  BY <1>1, <1>2

LEMMA PushTypes ==
  ASSUME ViewerTypeOK, NEW u \in UrlType, Len(pastUrls) < MaxEntries
  PROVE  /\ Append(pastUrls, u) \in Seq(UrlType)
         /\ Len(Append(pastUrls, u)) <= MaxEntries
  BY ViewerAssumption DEF ViewerTypeOK

LEMMA ViewerTypeInit == ViewerInit => ViewerTypeOK
<1>1. NoHighlight \in [doc : Documents, page : PageNumbers \cup {0}]
  BY DEF NoHighlight, Documents
<1>2. NoContent \in ContentTypes /\ HomeUrl \in UrlType
  BY UrlTypes, ContentType
<1>3. <<>> \in Seq(UrlType) /\ Len(<<>>) <= MaxEntries /\ 0 \in 0..MaxOpens
  BY ViewerAssumption
<1> SUFFICES ASSUME ViewerInit PROVE ViewerTypeOK
  OBVIOUS
<1>4. /\ viewed \in Documents /\ loadCount \in Nat
      /\ current \in 0..loadCount /\ loads = {} /\ trashCalls = {}
  BY DEF ViewerInit, Documents
<1> QED
  BY <1>1, <1>2, <1>3, <1>4, PageOne
  DEF ViewerInit, ViewerTypeOK, ContentTypes

\* The parts of the type that an answer of the viewer leaves alone.
LEMMA ViewerOnlyTypes ==
  ASSUME ViewerTypeOK, ViewerOnly, loads' \subseteq LoadTypes,
         content' \in ContentTypes
  PROVE  ViewerTypeOK'
  BY DEF ViewerTypeOK, ViewerOnly, dialogVars, LoadTypes, ContentTypes

LEMMA ViewerTypeStep ==
  ViewerTypeOK /\ [ViewerNext]_viewerVars => ViewerTypeOK'
<1> SUFFICES ASSUME ViewerTypeOK, [ViewerNext]_viewerVars
             PROVE  ViewerTypeOK'
  OBVIOUS
<1>0. /\ url \in UrlType /\ viewed \in Documents
      /\ pastUrls \in Seq(UrlType) /\ Len(pastUrls) <= MaxEntries
      /\ loads \subseteq LoadTypes /\ content \in ContentTypes
  BY DEF ViewerTypeOK, LoadTypes, ContentTypes
<1>1. ASSUME UNCHANGED <<opens, trashCalls>>, confirming' \in BOOLEAN,
             url' \in UrlType, FollowUrl,
             pastUrls' \in Seq(UrlType), Len(pastUrls') <= MaxEntries
      PROVE  ViewerTypeOK'
  BY <1>1, FollowTypes DEF ViewerTypeOK, LoadTypes, ContentTypes
<1>2. CASE FetchDocument
  <2>1. Reload(viewed') /\ viewed' \in Documents
    BY <1>0, <1>2 DEF FetchDocument, UrlType
  <2> QED
    BY <1>2, <2>1, ReloadTypes
    DEF FetchDocument, ViewerTypeOK, LoadTypes, ContentTypes, dialogVars
<1>3. CASE GoBack
  <2>1. /\ pastUrls[Len(pastUrls)] \in UrlType
        /\ SubSeq(pastUrls, 1, Len(pastUrls) - 1) \in Seq(UrlType)
        /\ Len(SubSeq(pastUrls, 1, Len(pastUrls) - 1)) <= MaxEntries
    BY <1>0, <1>3, ViewerAssumption DEF GoBack
  <2> QED
    BY <1>1, <1>3, <2>1 DEF GoBack, ViewerTypeOK
<1>4. CASE CloseViewer
  BY <1>0, <1>1, <1>4, UrlTypes DEF CloseViewer, Replace, ViewerTypeOK
<1>5. CASE ToggleAsk
  BY <1>5 DEF ToggleAsk, ViewerTypeOK, loadVars
<1>6. ASSUME NEW d \in ViewerDocs, NEW p \in PageNumbers, OpenDocument(d, p)
      PROVE  ViewerTypeOK'
  <2>1. Opened(url, d, p) \in UrlType
    BY <1>0, UrlTypes
  <2>2. url' \in UrlType /\ pastUrls' \in Seq(UrlType)
        /\ Len(pastUrls') <= MaxEntries
    BY <1>0, <1>6, <2>1, PushTypes DEF OpenDocument, Push
  <2> QED
    BY <1>6, <2>2, FollowTypes, ViewerAssumption
    DEF OpenDocument, ViewerTypeOK, LoadTypes, ContentTypes
<1>7. ASSUME NEW f \in {"all", "f1"}, SelectFolderOfTree(f)
      PROVE  ViewerTypeOK'
  BY <1>0, <1>1, <1>7, UrlTypes, PushTypes
  DEF SelectFolderOfTree, Push, ViewerTypeOK
<1>8. ASSUME NEW f \in {"all", "f1"}, NavigateToFolder(f)
      PROVE  ViewerTypeOK'
  BY <1>0, <1>1, <1>8, UrlTypes, PushTypes DEF NavigateToFolder, ViewerTypeOK
<1>9. ASSUME NEW p \in PageNumbers, GoToPage(p)
      PROVE  ViewerTypeOK'
  BY <1>0, <1>9, UrlTypes
  DEF GoToPage, Replace, ViewerTypeOK, dialogVars, loadVars
<1>10. ASSUME NEW p \in PageNumbers, NEW q \in BOOLEAN, HandleCitation(p, q)
       PROVE  ViewerTypeOK'
  <2>1. highlight' \in [doc : Documents, page : PageNumbers \cup {0}]
    BY <1>0, <1>10 DEF HandleCitation, NoHighlight, Documents, UrlType
  <2>2. innerPage' \in PageNumbers
    BY <1>10 DEF HandleCitation, ViewerTypeOK
  <2> QED
    BY <1>0, <1>10, <2>1, <2>2, UrlTypes
    DEF HandleCitation, Replace, ViewerTypeOK, loadVars
<1>11. CASE AskTrash
  BY <1>11 DEF AskTrash, ViewerTypeOK, loadVars
<1>12. CASE CancelTrash
  BY <1>12 DEF CancelTrash, ViewerTypeOK, loadVars
<1>13. CASE HandleTrash
  <2>1. NewTrash \in [doc : ViewerDocs, from : UrlType]
    BY <1>0, <1>13 DEF HandleTrash, NewTrash, Documents
  <2> QED
    BY <1>13, <2>1 DEF HandleTrash, ViewerTypeOK, dialogVars, loadVars
<1>14. ASSUME NEW c \in trashCalls, ArriveTrash(c)
       PROVE  ViewerTypeOK'
  <2>1. Closed(c.from) \in UrlType
    BY UrlTypes DEF ViewerTypeOK
  <2>2. url' \in UrlType /\ pastUrls' = pastUrls
    BY <1>14, <2>1 DEF ArriveTrash, Replace
  <2> QED
    BY <1>14, <2>2, FollowTypes
    DEF ArriveTrash, ViewerTypeOK, LoadTypes, ContentTypes
<1>15. ASSUME NEW c \in trashCalls, FailTrash(c)
       PROVE  ViewerTypeOK'
  BY <1>15 DEF FailTrash, ViewerTypeOK, dialogVars, loadVars
<1>16. ASSUME NEW l \in loads, ArriveBytes(l)
       PROVE  ViewerTypeOK'
  <2>1. loads' \subseteq LoadTypes
    BY <1>0, <1>16 DEF ArriveBytes, LoadTypes
  <2>2. content' \in ContentTypes
    BY <1>0, <1>16, ContentType DEF ArriveBytes, Show, LoadTypes
  <2> QED
    BY <1>16, <2>1, <2>2, ViewerOnlyTypes DEF ArriveBytes
<1>17. ASSUME NEW l \in loads, FailBytes(l) \/ ArrivePdf(l) \/ FailPdf(l)
       PROVE  ViewerTypeOK'
  <2>1. loads' \subseteq LoadTypes
    BY <1>0, <1>17 DEF FailBytes, ArrivePdf, FailPdf
  <2>2. content' \in ContentTypes
    BY <1>0, <1>17, ContentType
    DEF FailBytes, ArrivePdf, FailPdf, Show, LoadTypes
  <2> QED
    BY <1>17, <2>1, <2>2, ViewerOnlyTypes DEF FailBytes, ArrivePdf, FailPdf
<1>18. CASE UNCHANGED viewerVars
  BY <1>18 DEF ViewerTypeOK, viewerVars
<1> QED
  BY <1>2, <1>3, <1>4, <1>5, <1>6, <1>7, <1>8, <1>9, <1>10, <1>11, <1>12,
     <1>13, <1>14, <1>15, <1>16, <1>17, <1>18 DEF ViewerNext

\* Every variable keeps its type, for all documents and page counts.
THEOREM ViewerTypeCorrect == ViewerSpec => []ViewerTypeOK
  BY ViewerTypeInit, ViewerTypeStep, PTL DEF ViewerSpec

-----------------------------------------------------------------------------
(* Downloads.                                                              *)

\* A download that was not cancelled is the current one, of the document that
\* the viewer was given.
LateIsCancelled ==
  \A l \in loads : ~l.cancelled => l.n = current /\ l.doc = viewed

LoadInv ==
  ViewerTypeOK /\ LateIsCancelled /\ ShownIsViewed /\ NothingIsLeaked

LEMMA LoadInit == ViewerInit => LoadInv
  BY ViewerTypeInit
  DEF ViewerInit, LoadInv, LateIsCancelled, ShownIsViewed, NothingIsLeaked,
      NoContent

\* The clean-up cancels every download and gives back what the current one has;
\* the new one is of the document that is given.
LEMMA ReloadIsClean ==
  ASSUME LoadInv, NEW d, Reload(d), viewed' = d
  PROVE  (LateIsCancelled /\ ShownIsViewed /\ NothingIsLeaked)'
<1> DEFINE Old == {[l EXCEPT !.cancelled = TRUE] : l \in loads}
<1>1. \A l \in Old : l.cancelled
  <2>1. \A l \in loads : l \in LoadTypes
    BY DEF LoadInv, ViewerTypeOK, LoadTypes
  <2> QED
    BY <2>1 DEF LoadTypes
<1>2. LateIsCancelled'
  <2>1. CASE d = NoDocument
    <3>1. loads' = Old
      BY <2>1 DEF Reload
    <3> QED
      BY <1>1, <3>1 DEF LateIsCancelled
  <2>2. CASE d # NoDocument
    <3>1. /\ loads' = Old \cup {[n |-> loadCount + 1, doc |-> d,
                                step |-> "fetch", cancelled |-> FALSE]}
          /\ current' = loadCount + 1
      BY <2>2 DEF Reload
    <3>2. ASSUME NEW l \in loads', ~l.cancelled
          PROVE  l.n = current' /\ l.doc = d
      <4> HIDE DEF Old
      <4> QED
        BY <1>1, <3>1, <3>2
    <3> QED
      BY <3>2 DEF LateIsCancelled
  <2> QED
    BY <2>1, <2>2
<1>3. ShownIsViewed'
  BY DEF Reload, ShownIsViewed, NoContent
<1>4. NothingIsLeaked'
  BY DEF LoadInv, Reload, NothingIsLeaked
<1> QED
  BY <1>2, <1>3, <1>4

LEMMA FollowIsClean ==
  ASSUME LoadInv, FollowUrl
  PROVE  (LateIsCancelled /\ ShownIsViewed /\ NothingIsLeaked)'
<1>1. CASE url'.doc = url.doc
  BY <1>1
  DEF FollowUrl, loadVars, LoadInv, LateIsCancelled, ShownIsViewed,
      NothingIsLeaked
<1>2. CASE url'.doc # url.doc
  BY <1>2, ReloadIsClean DEF FollowUrl
<1> QED
  BY <1>1, <1>2

\* Only what is not cancelled is shown and kept.
LEMMA ArrivalIsClean ==
  ASSUME LoadInv, ViewerOnly, NEW l \in loads,
         ArriveBytes(l) \/ FailBytes(l) \/ ArrivePdf(l) \/ FailPdf(l)
  PROVE  (LateIsCancelled /\ ShownIsViewed /\ NothingIsLeaked)'
<1> USE DEF LoadInv, LateIsCancelled, ViewerOnly, Cancelled
<1>1. LateIsCancelled'
  <2>1. l \in LoadTypes
    BY DEF ViewerTypeOK, LoadTypes
  <2>2. loads' \subseteq loads \cup
          (IF l.cancelled THEN {} ELSE {[l EXCEPT !.step = "parse"]})
    BY DEF ArriveBytes, FailBytes, ArrivePdf, FailPdf
  <2>3. UNCHANGED <<current, viewed>>
    OBVIOUS
  <2> QED
    BY <2>1, <2>2, <2>3 DEF LoadTypes
<1>2. ShownIsViewed'
  <2>1. CASE l.cancelled
    BY <2>1 DEF ArriveBytes, FailBytes, ArrivePdf, FailPdf, ShownIsViewed
  <2>2. CASE ~l.cancelled
    <3>1. content'.doc = l.doc \/ content' = content
      BY <2>2 DEF ArriveBytes, FailBytes, ArrivePdf, FailPdf, Show, Content
    <3> QED
      BY <2>2, <3>1 DEF ShownIsViewed
  <2> QED
    BY <2>1, <2>2
<1>3. NothingIsLeaked'
  BY DEF ArriveBytes, FailBytes, ArrivePdf, FailPdf, ProxiesAfter,
         NothingIsLeaked
<1> QED
  BY <1>1, <1>2, <1>3

LEMMA LoadStep == LoadInv /\ [ViewerNext]_viewerVars => LoadInv'
<1> SUFFICES ASSUME LoadInv, [ViewerNext]_viewerVars
             PROVE  (LateIsCancelled /\ ShownIsViewed /\ NothingIsLeaked)'
  BY ViewerTypeStep DEF LoadInv
<1>1. CASE FollowUrl
  BY <1>1, FollowIsClean
<1>2. CASE FetchDocument
  BY <1>2, ReloadIsClean DEF FetchDocument
<1>3. ASSUME NEW l \in loads,
             ArriveBytes(l) \/ FailBytes(l) \/ ArrivePdf(l) \/ FailPdf(l)
      PROVE  (LateIsCancelled /\ ShownIsViewed /\ NothingIsLeaked)'
  <2>1. ViewerOnly
    BY <1>3 DEF ArriveBytes, FailBytes, ArrivePdf, FailPdf
  <2> QED
    BY <1>3, <2>1, ArrivalIsClean
<1>4. CASE UNCHANGED <<viewed, loadVars>>
  BY <1>4
  DEF loadVars, LoadInv, LateIsCancelled, ShownIsViewed, NothingIsLeaked
<1> QED
  BY <1>1, <1>2, <1>3, <1>4
  DEF ViewerNext, GoBack, CloseViewer, ToggleAsk, OpenDocument,
      SelectFolderOfTree, NavigateToFolder, GoToPage, HandleCitation,
      AskTrash, CancelTrash, HandleTrash, ArriveTrash, FailTrash, loadVars,
      viewerVars

\* However documents are opened, left and gone back to while downloads and
\* pdf.js run, no document is shown under the title of another
\* (DocumentViewer.tsx:137).
THEOREM NoOtherDocumentIsShown == ViewerSpec => []ShownIsViewed
<1>1. LoadInv => ShownIsViewed
  BY DEF LoadInv
<1> QED
  BY <1>1, LoadInit, LoadStep, PTL DEF ViewerSpec

\* ... and nothing but what is shown is held on to.
THEOREM NoDownloadLeaks == ViewerSpec => []NothingIsLeaked
<1>1. LoadInv => NothingIsLeaked
  BY DEF LoadInv
<1> QED
  BY <1>1, LoadInit, LoadStep, PTL DEF ViewerSpec

-----------------------------------------------------------------------------
(* Quotes.                                                                 *)

\* A quote is of the document of the address, whichever page is shown.
QuoteOfDocument == highlight = NoHighlight \/ highlight.doc = url.doc

QuoteInv == ViewerTypeOK /\ QuoteOfDocument

LEMMA QuoteStep == QuoteInv /\ [ViewerNext]_viewerVars => QuoteInv'
<1> SUFFICES ASSUME QuoteInv, [ViewerNext]_viewerVars
             PROVE  QuoteOfDocument'
  BY ViewerTypeStep DEF QuoteInv
<1> USE DEF QuoteInv, QuoteOfDocument
<1>1. CASE FollowUrl
  BY <1>1 DEF FollowUrl, HighlightAfter
<1>2. ASSUME NEW p \in PageNumbers, NEW q \in BOOLEAN, HandleCitation(p, q)
      PROVE  QuoteOfDocument'
  BY <1>2, UrlTypes DEF HandleCitation, Replace, ViewerTypeOK
<1>3. ASSUME NEW p \in PageNumbers, GoToPage(p)
      PROVE  QuoteOfDocument'
  <2>1. url' = AtPage(url, p) /\ highlight' = highlight
    BY <1>3 DEF GoToPage, Replace, dialogVars
  <2>2. url'.doc = url.doc
    BY <2>1, UrlTypes DEF ViewerTypeOK
  <2> QED
    BY <2>1, <2>2
<1>4. CASE UNCHANGED <<url, highlight>>
  BY <1>4
<1> QED
  BY <1>1, <1>2, <1>3, <1>4
  DEF ViewerNext, FetchDocument, GoBack, CloseViewer, ToggleAsk, OpenDocument,
      SelectFolderOfTree, NavigateToFolder, AskTrash, CancelTrash,
      HandleTrash, ArriveTrash, FailTrash, ArriveBytes, FailBytes, ArrivePdf,
      FailPdf, ViewerOnly, dialogVars, viewerVars

\* A quote is marked in the document that the answer cites and in no other,
\* also when the browser goes back (DocumentViewerModal.tsx:60).
THEOREM QuotesAreOfTheirDocument == ViewerSpec => []HighlightIsOfDocument
<1>1. ViewerInit => QuoteInv
  BY ViewerTypeInit DEF ViewerInit, QuoteInv, QuoteOfDocument
<1>2. QuoteInv => HighlightIsOfDocument
  BY DEF QuoteInv, QuoteOfDocument, HighlightIsOfDocument, QuoteShown
<1> QED
  BY <1>1, <1>2, QuoteStep, PTL DEF ViewerSpec

-----------------------------------------------------------------------------
(* Library: the list.                                                      *)

\* A finite set of numbers can be put in order: each is at the place that tells
\* how many are not above it.
LEMMA OrderExists ==
  ASSUME NEW S \in SUBSET Int, IsFiniteSet(S)
  PROVE  \E s \in [1..Cardinality(S) -> S] :
           \A i, j \in 1..Cardinality(S) : i < j => s[i] < s[j]
<1> DEFINE n == Cardinality(S)
           Upto(x) == {y \in S : y <= x}
           rank == [x \in S |-> Cardinality(Upto(x))]
           s == Inverse(rank, S, 1..n)
<1>0. n \in Nat
  BY FS_CardinalityType
<1>1. ASSUME NEW x \in S
      PROVE  /\ Upto(x) \in SUBSET S /\ IsFiniteSet(Upto(x))
             /\ rank[x] = Cardinality(Upto(x)) /\ rank[x] \in 1..n
  <2>1. Upto(x) \in SUBSET S /\ x \in Upto(x)
    OBVIOUS
  <2>2. IsFiniteSet(Upto(x)) /\ Cardinality(Upto(x)) <= n
    BY <2>1, FS_Subset
  <2>3. Cardinality(Upto(x)) \in Nat /\ Cardinality(Upto(x)) # 0
    BY <2>1, <2>2, FS_CardinalityType, FS_EmptySet
  <2>4. rank[x] = Cardinality(Upto(x))
    OBVIOUS
  <2> HIDE DEF Upto, rank, n
  <2> QED
    BY <1>0, <2>1, <2>2, <2>3, <2>4
<1>2. ASSUME NEW x \in S, NEW y \in S, x < y
      PROVE  rank[x] < rank[y]
  <2>0. x \in Int /\ y \in Int /\ \A z \in S : z \in Int
    OBVIOUS
  <2>1. Upto(x) \in SUBSET Upto(y) /\ y \in Upto(y) /\ y \notin Upto(x)
    <3>1. \A z \in S : z <= x => z <= y
      BY <1>2, <2>0
    <3>2. ~(y <= x) /\ y <= y
      BY <1>2, <2>0
    <3> QED
      BY <3>1, <3>2
  <2>2. /\ Cardinality(Upto(x)) <= Cardinality(Upto(y))
        /\ Cardinality(Upto(x)) # Cardinality(Upto(y))
    <3> HIDE DEF Upto
    <3> QED
      BY <1>1, <2>1, FS_Subset
  <2>3. rank[x] \in Nat /\ rank[y] \in Nat
    BY <1>0, <1>1
  <2> HIDE DEF Upto, rank
  <2> QED
    BY <1>1, <2>2, <2>3
<1>3. rank \in [S -> 1..n]
  BY <1>1
<1> HIDE DEF rank, Upto
<1>4. ASSUME NEW x \in S, NEW y \in S, rank[x] = rank[y]
      PROVE  x = y
  <2>1. rank[x] \in Nat /\ x \in Int /\ y \in Int
    BY <1>0, <1>1
  <2> QED
    BY <1>2, <1>4, <2>1
<1>5. rank \in Injection(S, 1..n)
  BY <1>3, <1>4, Fun_IsInj
<1>6. IsFiniteSet(1..n) /\ Cardinality(1..n) = n
  BY <1>0, FS_Interval
<1>7. rank \in Surjection(S, 1..n)
  BY <1>5, <1>6, FS_Injection
<1>8. Range(rank) = 1..n
  BY <1>7, Fun_SurjectionProperties
<1>9. S = {} => 1..n = {}
  BY <1>0, FS_EmptySet
<1>10. s \in [1..n -> S] /\ \A i \in 1..n : rank[s[i]] = i
  BY <1>3, <1>8, <1>9, Fun_InverseProperties
<1> HIDE DEF s
<1>11. ASSUME NEW i \in 1..n, NEW j \in 1..n, i < j
       PROVE  s[i] < s[j]
  <2>1. /\ s[i] \in S /\ s[j] \in S /\ s[i] \in Int /\ s[j] \in Int
        /\ rank[s[i]] = i /\ rank[s[j]] = j
    BY <1>10
  <2>2. i \in Int /\ j \in Int
    BY <1>0
  <2>3. CASE s[j] < s[i]
    BY <1>2, <1>11, <2>1, <2>2, <2>3
  <2>4. CASE s[j] = s[i]
    BY <1>11, <2>1, <2>2, <2>4
  <2> QED
    BY <2>1, <2>3, <2>4
<1> QED
  BY <1>10, <1>11

LEMMA DocsFinite ==
  /\ NumDocs \in Nat \ {0} /\ PageSize \in Nat \ {0}
  /\ LibDocs \subseteq Int /\ 1 \in LibDocs
  /\ IsFiniteSet(LibDocs) /\ Cardinality(LibDocs) = NumDocs
<1>1. NumDocs \in Nat \ {0} /\ PageSize \in Nat \ {0}
  BY LibraryAssumption
<1>2. IsFiniteSet(LibDocs) /\ Cardinality(LibDocs) = NumDocs
  BY <1>1, FS_Interval DEF LibDocs
<1> QED
  BY <1>1, <1>2 DEF LibDocs

LEMMA SortedType ==
  ASSUME NEW S \in SUBSET LibDocs, NEW a
  PROVE  Sorted(a, S) \in Seq(LibDocs) /\ Len(Sorted(a, S)) <= NumDocs
<1>1. /\ S \in SUBSET Int /\ IsFiniteSet(S)
      /\ Cardinality(S) <= NumDocs /\ Cardinality(S) \in Nat
  BY DocsFinite, FS_Subset, FS_CardinalityType
<1>2. Ascending(S) \in [1..Cardinality(S) -> S]
  BY <1>1, OrderExists DEF Ascending
<1>3. Ascending(S) \in Seq(LibDocs) /\ Len(Ascending(S)) = Cardinality(S)
  <2>1. Ascending(S) \in Seq(S) /\ Len(Ascending(S)) = Cardinality(S)
    BY <1>1, <1>2
  <2> QED
    BY <2>1, SeqMonotonic
<1>4. ASSUME NEW q \in Seq(LibDocs)
      PROVE  Reverse(q) \in Seq(LibDocs) /\ Len(Reverse(q)) = Len(q)
  <2>1. Len(q) \in Nat
    OBVIOUS
  <2>2. \A i \in 1..Len(q) : (Len(q) - i) + 1 \in 1..Len(q)
    BY <2>1
  <2>3. Reverse(q) \in [1..Len(q) -> LibDocs]
    BY <2>2 DEF Reverse
  <2> QED
    BY <2>1, <2>3
<1> QED
  BY <1>1, <1>3, <1>4 DEF Sorted

ListTypes == [loaded : BOOLEAN, ids : Seq(LibDocs), total : 0..NumDocs]

LEMMA PageType ==
  ASSUME NEW a \in AddressType, NEW s \in Seq(LibDocs)
  PROVE  /\ PageOf(a, s) \in Seq(LibDocs)
         /\ Len(PageOf(a, s)) <= Len(s) /\ Len(PageOf(a, s)) <= PageSize
<1> DEFINE first == (a.page - 1) * PageSize + 1
           last == IF a.page * PageSize < Len(s) THEN a.page * PageSize
                   ELSE Len(s)
<1>1. a.page \in Nat /\ a.page >= 1 /\ PageSize \in Nat /\ Len(s) \in Nat
  BY DocsFinite DEF AddressType
<1>2. /\ (a.page - 1) * PageSize \in Nat /\ a.page * PageSize \in Nat
      /\ (a.page - 1) * PageSize + PageSize = a.page * PageSize
  BY <1>1
<1>3. /\ first \in Nat /\ first >= 1 /\ last \in Nat /\ last <= Len(s)
      /\ last - first + 1 <= PageSize /\ last <= Len(s)
  <2> DEFINE before == (a.page - 1) * PageSize
             upto == a.page * PageSize
  <2>1. before \in Nat /\ upto \in Nat /\ before + PageSize = upto
    BY <1>2
  <2>2. first = before + 1 /\ last = IF upto < Len(s) THEN upto ELSE Len(s)
    OBVIOUS
  <2> HIDE DEF before, upto, first, last
  <2> QED
    BY <1>1, <2>1, <2>2
<1>4. PageOf(a, s) = SubSeq(s, first, last)
  BY DEF PageOf
<1> HIDE DEF first, last
<1> QED
  BY <1>1, <1>3, <1>4

LEMMA ListType ==
  ASSUME NEW a \in AddressType
  PROVE  /\ ListOf(a) \in ListTypes
         /\ Len(ListOf(a).ids) <= NumDocs /\ Len(ListOf(a).ids) <= PageSize
<1> DEFINE all == Sorted(a, {d \in LibDocs : InView(a, d)})
<1>1. all \in Seq(LibDocs) /\ Len(all) <= NumDocs
  BY SortedType
<1>2. ListOf(a) = [loaded |-> TRUE, ids |-> PageOf(a, all), total |-> Len(all)]
  BY DEF ListOf
<1> HIDE DEF all
<1>3. Len(all) \in 0..NumDocs
  BY <1>1, DocsFinite
<1>4. /\ PageOf(a, all) \in Seq(LibDocs) /\ Len(PageOf(a, all)) <= Len(all)
      /\ Len(PageOf(a, all)) <= PageSize /\ Len(PageOf(a, all)) \in Nat
  BY <1>1, PageType
<1> QED
  BY <1>1, <1>2, <1>3, <1>4, DocsFinite DEF ListTypes

-----------------------------------------------------------------------------
(* Library: types and the selection.                                       *)

\* A move goes to a folder, and nothing else does.
BulkTypes ==
  {b \in [n : 1..bulkCount, action : BulkActions, docs : SUBSET LibDocs,
          folder : LibFolders \cup {NoFolder}, step : {"sent", "done"}] :
     b.action = "move" <=> b.folder \in LibFolders}

\* The parts of the invariant: the list and the focus, the selection, and the
\* rest.
ListInv ==
  /\ libRows \in ListTypes /\ Len(Ids) <= NumDocs /\ Len(Ids) <= PageSize
  /\ ~libRows.loaded => Ids = <<>>
  /\ focus \in [focused : LibDocs, anchor : LibDocs]
  /\ Ids # <<>> => focus.focused <= Len(Ids)

\* As long as nobody moves documents, any other load would bring the same list.
SelectionInv ==
  /\ selected \subseteq LibDocs /\ drifted \in BOOLEAN
  /\ ~drifted => /\ libRows.loaded => libRows = ListOf(address)
                 /\ selected \subseteq ToSet(Ids)

RestInv ==
  /\ places \in [LibDocs -> LibFolders \cup {"inbox", "trash"}]
  /\ visits \in 0..MaxVisits
  /\ bulks \subseteq BulkTypes /\ bulkCount \in 0..MaxBulks
  /\ others \in 0..MaxOthers

LibraryInv == address \in AddressType /\ ListInv /\ SelectionInv /\ RestInv

LEMMA InvFits == LibraryInv => LibraryTypeOK /\ SelectionIsShown
<1> SUFFICES ASSUME LibraryInv PROVE LibraryTypeOK /\ SelectionIsShown
  OBVIOUS
<1>1. Range(Ids) \subseteq LibDocs
  BY DEF LibraryInv, ListInv, ListTypes, Range, Ids
<1> QED
  BY <1>1
  DEF LibraryInv, ListInv, SelectionInv, RestInv, ListTypes, BulkTypes,
      LibraryTypeOK, SelectionIsShown

LEMMA LibraryInit1 == LibraryInit => LibraryInv
<1> SUFFICES ASSUME LibraryInit PROVE LibraryInv
  OBVIOUS
<1>1. DefaultAddress \in AddressType
  BY DocsFinite
  DEF DefaultAddress, AddressType, LibDocs, LibraryViews, Orders
<1>2. NoList \in ListTypes /\ Len(NoList.ids) = 0 /\ NoList.ids = <<>>
  BY DocsFinite DEF NoList, ListTypes
<1>3. ListInv
  BY <1>2, DocsFinite DEF LibraryInit, ListInv, Ids
<1>4. ~libRows.loaded
  BY DEF LibraryInit, NoList
<1>5. RestInv
  BY LibraryAssumption DEF LibraryInit, RestInv, LibFolders
<1> QED
  BY <1>1, <1>3, <1>4, <1>5 DEF LibraryInit, LibraryInv, SelectionInv

\* What a load brings, and what is selected, as long as nothing moves.
LEMMA ListStays ==
  ASSUME UNCHANGED <<places, address>>
  PROVE  ListOf(address)' = ListOf(address)
<1>1. ASSUME NEW d PROVE InView(address, d)' = InView(address, d)
  BY DEF InView
<1> QED
  BY <1>1 DEF ListOf

LEMMA SelectionStays ==
  ASSUME SelectionInv, UNCHANGED <<places, address, libRows, drifted>>,
         selected' \in SUBSET LibDocs,
         ~drifted => selected' \subseteq ToSet(Ids)
  PROVE  SelectionInv'
<1>1. ListOf(address)' = ListOf(address) /\ Ids' = Ids
  BY ListStays DEF Ids
<1> QED
  BY <1>1 DEF SelectionInv

LEMMA SelectionKept ==
  ASSUME SelectionInv, UNCHANGED <<places, address, libRows, drifted, selected>>
  PROVE  SelectionInv'
  BY SelectionStays DEF SelectionInv

\* A new list keeps the focus inside.
LEMMA ShowKeeps ==
  ASSUME ListInv, NEW l \in ListTypes, Len(l.ids) <= NumDocs,
         Len(l.ids) <= PageSize, ~l.loaded => l.ids = <<>>, ShowList(l)
  PROVE  ListInv'
<1>1. l.ids \in Seq(LibDocs) /\ Len(l.ids) \in Nat
  BY DEF ListTypes
<1>2. Len(l.ids) # 0 => Len(l.ids) \in LibDocs
  BY <1>1, DocsFinite DEF LibDocs
<1>3. /\ focus' = FocusWithin(focus, Len(l.ids))
      /\ focus.focused \in LibDocs /\ focus.anchor \in LibDocs
  BY DEF ShowList, ListInv
<1>4. focus' \in [focused : LibDocs, anchor : LibDocs]
  BY <1>2, <1>3, DocsFinite DEF FocusWithin
<1>5. l.ids # <<>> => focus'.focused <= Len(l.ids)
  <2>1. l.ids # <<>> => Len(l.ids) # 0
    BY <1>1
  <2>2. focus.focused \in Int
    BY <1>3, DocsFinite
  <2> QED
    BY <1>1, <1>3, <2>1, <2>2 DEF FocusWithin
<1> QED
  BY <1>4, <1>5 DEF ShowList, ListInv, Ids

\* What the effect looks at, and the order, make the address.
LEMMA SameAddress ==
  ASSUME NEW a \in AddressType, NEW b \in AddressType, ViewOf(a) = ViewOf(b),
         a.order = b.order
  PROVE  a = b
<1>1. ViewOf(a).view = ViewOf(b).view /\ ViewOf(a).folder = ViewOf(b).folder
      /\ ViewOf(a).q = ViewOf(b).q /\ ViewOf(a).page = ViewOf(b).page
  OBVIOUS
<1>2. a.view = b.view /\ a.folder = b.folder /\ a.q = b.q /\ a.page = b.page
  BY <1>1 DEF ViewOf
<1> QED
  BY <1>2 DEF AddressType

\* The address changes, and the selection with it.
LEMMA GoKeeps ==
  ASSUME LibraryInv, NEW a \in AddressType, GoToAddress(a)
  PROVE  LibraryInv'
<1>1. NoList \in ListTypes /\ Len(NoList.ids) = 0 /\ ~NoList.loaded
      /\ NoList.ids = <<>>
  BY DocsFinite DEF NoList, ListTypes
<1>2. ListInv'
  BY <1>1, ShowKeeps, DocsFinite DEF GoToAddress, LibraryInv
<1>3. SelectionInv'
  <2>1. selected' \subseteq selected
    BY DEF GoToAddress, SelectionIn
  <2>2. /\ libRows' = NoList /\ a # address
        /\ drifted' = (selected' # {} /\ (drifted \/ a.order # address.order))
    BY DEF GoToAddress, ShowList
  <2>3. drifted' \in BOOLEAN
    BY <2>2
  <2>4. ASSUME ~drifted' PROVE selected' = {}
    <3>1. CASE ViewOf(a) = ViewOf(address)
      <4>1. a.order # address.order
        BY <2>2, <3>1, SameAddress DEF LibraryInv
      <4> QED
        BY <2>2, <2>4, <4>1
    <3>2. CASE ViewOf(a) # ViewOf(address)
      BY <3>2 DEF GoToAddress, SelectionIn
    <3> QED
      BY <3>1, <3>2
  <2> QED
    BY <1>1, <2>1, <2>2, <2>3, <2>4 DEF LibraryInv, SelectionInv
<1>4. RestInv'
  BY LibraryAssumption DEF GoToAddress, LibraryInv, RestInv, BulkTypes
<1> QED
  BY <1>2, <1>3, <1>4 DEF GoToAddress, LibraryInv

\* What the links and chips change keeps the type of the address.
LEMMA PatchedTypes ==
  ASSUME NEW a \in AddressType
  PROVE  /\ Patched(a) \in AddressType
         /\ \A v \in LibraryViews : [a EXCEPT !.view = v] \in AddressType
         /\ \A v \in LibraryViews, f \in LibFolders \cup {NoFolder} :
              [a EXCEPT !.view = v, !.folder = f] \in AddressType
         /\ \A f \in LibFolders \cup {NoFolder} :
              /\ [a EXCEPT !.folder = f] \in AddressType
              /\ [a EXCEPT !.folder = f,
                           !.view = IF f = NoFolder THEN @ ELSE "all"]
                   \in AddressType
         /\ \A q \in BOOLEAN : [a EXCEPT !.q = q] \in AddressType
         /\ \A o \in Orders : [a EXCEPT !.order = o] \in AddressType
         /\ \A p \in LibDocs : [a EXCEPT !.page = p] \in AddressType
<1>1. 1 \in 1..NumDocs
  BY DocsFinite DEF LibDocs
<1> QED
  BY <1>1 DEF AddressType, Patched, LibDocs, LibraryViews, NoFolder

\* A new selection, and the focus somewhere in the list.
LEMMA SelectKeeps ==
  ASSUME LibraryInv, NEW S \in SUBSET LibDocs, Select(S), ListInv',
         ~drifted => S \subseteq ToSet(Ids)
  PROVE  LibraryInv'
<1>1. SelectionInv'
  BY SelectionStays DEF Select, LibraryInv
<1>2. RestInv'
  BY DEF Select, LibraryInv, RestInv, BulkTypes
<1> QED
  BY <1>1, <1>2 DEF Select, LibraryInv

LEMMA FocusKeeps ==
  ASSUME ListInv, NEW i \in 1..Len(Ids), libRows' = libRows,
         \/ FocusOn(i)
         \/ focus' = [focus EXCEPT !.focused = i]
  PROVE  ListInv'
<1>1. Ids \in Seq(LibDocs) /\ Len(Ids) \in Nat /\ Len(Ids) <= NumDocs
  BY DEF ListInv, ListTypes, Ids
<1>2. i \in LibDocs /\ i <= Len(Ids)
  BY <1>1, DocsFinite DEF LibDocs
<1>3. focus' \in [focused : LibDocs, anchor : LibDocs] /\ focus'.focused = i
  BY <1>2 DEF FocusOn, ListInv
<1> QED
  BY <1>2, <1>3 DEF ListInv, Ids

LEMMA RowsAreDocs ==
  ASSUME ListInv
  PROVE  /\ Ids \in Seq(LibDocs) /\ ToSet(Ids) \in SUBSET LibDocs
         /\ \A i : RangeTo(i) \in SUBSET ToSet(Ids)
         /\ \A i \in 1..Len(Ids) : Ids[i] \in LibDocs /\ Ids[i] \in ToSet(Ids)
         /\ Ids # <<>> => 1 \in 1..Len(Ids) /\ Len(Ids) \in 1..Len(Ids)
                          /\ focus.focused \in 1..Len(Ids)
<1>1. Ids \in Seq(LibDocs)
  BY DEF ListInv, ListTypes, Ids
<1>2. Ids # <<>> => Len(Ids) \in Nat \ {0}
  BY <1>1
<1>3. focus.focused \in Nat /\ focus.focused >= 1
  BY DEF ListInv, LibDocs
<1>4. Ids # <<>> => focus.focused \in 1..Len(Ids)
  BY <1>2, <1>3 DEF ListInv
<1> QED
  BY <1>1, <1>2, <1>4 DEF ToSet, RangeTo

LEMMA ToggleKeeps ==
  ASSUME LibraryInv, NEW i \in 1..Len(Ids), Toggle(i)
  PROVE  LibraryInv'
<1> DEFINE S == IF Ids[i] \in selected THEN selected \ {Ids[i]}
                ELSE selected \cup {Ids[i]}
<1>1. S \in SUBSET LibDocs
  BY RowsAreDocs DEF LibraryInv, SelectionInv
<1>2. ~drifted => S \subseteq ToSet(Ids)
  BY RowsAreDocs DEF LibraryInv, SelectionInv
<1>3. Select(S) /\ FocusOn(i) /\ libRows' = libRows
  BY DEF Toggle, Select
<1> HIDE DEF S
<1> QED
  BY <1>1, <1>2, <1>3, FocusKeeps, SelectKeeps DEF LibraryInv

LEMMA SelectRangeKeeps ==
  ASSUME LibraryInv, NEW i \in 1..Len(Ids), SelectRange(i)
  PROVE  LibraryInv'
<1>1. /\ Select(RangeTo(i)) /\ libRows' = libRows
      /\ focus' = [focus EXCEPT !.focused = i]
  BY DEF SelectRange, Select
<1>2. RangeTo(i) \in SUBSET LibDocs /\ RangeTo(i) \subseteq ToSet(Ids)
  BY RowsAreDocs DEF LibraryInv
<1> QED
  BY <1>1, <1>2, FocusKeeps, SelectKeeps DEF LibraryInv

\* The arrows, Home and End stay in the list.
LEMMA NextIsInList ==
  ASSUME ListInv, Ids # <<>>, NEW i, NextFocus(i)
  PROVE  i \in 1..Len(Ids)
<1>1. Len(Ids) \in Nat /\ focus.focused \in 1..Len(Ids)
  BY RowsAreDocs
<1> QED
  BY <1>1 DEF NextFocus

\* Requests leave the page alone, answers clear the selection.
LEMMA BulkTypesGrow ==
  ASSUME RestInv, bulkCount' \in {bulkCount, bulkCount + 1}
  PROVE  bulks \subseteq BulkTypes'
<1>1. bulkCount \in Nat
  BY LibraryAssumption DEF RestInv
<1>2. 1..bulkCount \subseteq 1..bulkCount'
  BY <1>1
<1> QED
  BY <1>2 DEF RestInv, BulkTypes

LEMMA SendKeeps ==
  ASSUME LibraryInv, NEW act \in BulkActions, NEW S \in SUBSET LibDocs,
         NEW f \in LibFolders \cup {NoFolder},
         act = "move" <=> f \in LibFolders, SendBulk(act, S, f)
  PROVE  LibraryInv'
<1>1. bulkCount \in Nat /\ bulkCount' = bulkCount + 1 /\ bulkCount' <= MaxBulks
      /\ MaxBulks \in Nat
  BY LibraryAssumption DEF SendBulk, LibraryInv, RestInv
<1>2. NewBulk(bulkCount + 1, act, S, f) \in BulkTypes'
  BY <1>1 DEF NewBulk, BulkTypes
<1>3. bulks' \subseteq BulkTypes'
  BY <1>1, <1>2, BulkTypesGrow DEF SendBulk, LibraryInv
<1>4. SelectionInv'
  BY SelectionKept DEF SendBulk, LibraryInv
<1> QED
  BY <1>1, <1>3, <1>4 DEF SendBulk, LibraryInv, ListInv, RestInv, Ids

LEMMA LibraryStep1 == LibraryInv /\ [LibraryNext]_libVars => LibraryInv'
<1> SUFFICES ASSUME LibraryInv, [LibraryNext]_libVars PROVE LibraryInv'
  OBVIOUS
<1>0. address \in AddressType /\ ListInv /\ SelectionInv /\ RestInv
  BY DEF LibraryInv
<1>1. CASE FetchList
  <2>1. ListInv'
    <3>1. ListOf(address).loaded
      BY DEF ListOf
    <3> QED
      BY <1>0, <1>1, <3>1, ListType, ShowKeeps DEF FetchList
  <2>2. SelectionInv'
    <3>1. ListOf(address)' = ListOf(address) /\ Ids' = ListOf(address).ids
      BY <1>1, ListStays DEF FetchList, ShowList, Ids
    <3>2. CASE selected = {}
      BY <1>0, <1>1, <3>1, <3>2 DEF FetchList, ShowList, SelectionInv
    <3>3. CASE selected # {}
      <4>1. ToSet(<<>>) = {}
        BY DEF ToSet
      <4>2. ~drifted => libRows = ListOf(address)
        BY <1>0, <3>3, <4>1 DEF SelectionInv, ListInv
      <4> QED
        BY <1>0, <1>1, <3>1, <3>3, <4>2
        DEF FetchList, ShowList, SelectionInv, Ids
    <3> QED
      BY <3>2, <3>3
  <2> QED
    BY <1>0, <1>1, <2>1, <2>2 DEF FetchList, LibraryInv, RestInv, BulkTypes
<1>2. CASE ClearChip
  <2>1. /\ Patched([address EXCEPT !.q = FALSE]) \in AddressType
        /\ [address EXCEPT !.folder = NoFolder] \in AddressType
    BY <1>0, PatchedTypes
  <2> QED
    BY <1>2, <2>1, GoKeeps DEF ClearChip
<1>3. ASSUME NEW q \in BOOLEAN, NEW f \in LibFolders \cup {NoFolder},
             NEW p \in LibDocs, FollowLink(q, f, p)
      PROVE  LibraryInv'
  <2>1. [DefaultAddress EXCEPT !.q = q, !.folder = f, !.page = p]
          \in AddressType
    BY DocsFinite
    DEF DefaultAddress, AddressType, LibDocs, LibraryViews, Orders
  <2> QED
    BY <1>3, <2>1, GoKeeps DEF FollowLink
<1>4. ASSUME NEW v \in LibraryViews, SelectTab(v) \/ SelectQuickAccess(v)
      PROVE  LibraryInv'
  <2>1. /\ Patched([address EXCEPT !.view = v]) \in AddressType
        /\ Patched([address EXCEPT !.view = v, !.folder = NoFolder])
             \in AddressType
    BY <1>0, PatchedTypes
  <2> QED
    BY <1>4, <2>1, GoKeeps DEF SelectTab, SelectQuickAccess
<1>5. ASSUME NEW f \in LibFolders \cup {NoFolder}, SelectLibFolder(f)
      PROVE  LibraryInv'
  <2> DEFINE a == [address EXCEPT !.folder = f,
                     !.view = IF f = NoFolder THEN @ ELSE "all"]
  <2>1. a \in AddressType
    BY <1>0, PatchedTypes
  <2>2. GoToAddress(Patched(a))
    BY <1>5 DEF SelectLibFolder
  <2> HIDE DEF a
  <2> QED
    BY <2>1, <2>2, PatchedTypes, GoKeeps
<1>6. ASSUME NEW o \in Orders, SelectOrder(o)
      PROVE  LibraryInv'
  <2>1. Patched([address EXCEPT !.order = o]) \in AddressType
    BY <1>0, PatchedTypes
  <2> QED
    BY <1>6, <2>1, GoKeeps DEF SelectOrder
<1>7. ASSUME NEW p \in LibDocs, TurnPage(p)
      PROVE  LibraryInv'
  <2>1. [address EXCEPT !.page = p] \in AddressType
    BY <1>0, PatchedTypes
  <2> QED
    BY <1>7, <2>1, GoKeeps DEF TurnPage
<1>8. ASSUME NEW i \in LibDocs, PointAt(i)
      PROVE  LibraryInv'
  BY <1>8, ToggleKeeps, SelectRangeKeeps DEF PointAt
<1>9. ASSUME NEW i \in LibDocs, MoveFocus(i)
      PROVE  LibraryInv'
  <2>1. ListInv'
    BY <1>0, <1>9, NextIsInList, FocusKeeps DEF MoveFocus, TableShown
  <2> QED
    BY <1>0, <1>9, <2>1, SelectionKept DEF MoveFocus, LibraryInv, RestInv, BulkTypes
<1>10. ASSUME NEW i \in LibDocs, MoveFocusSelecting(i)
       PROVE  LibraryInv'
  BY <1>0, <1>10, NextIsInList, SelectRangeKeeps
  DEF MoveFocusSelecting, TableShown
<1>11. ASSUME NEW i \in LibDocs, NEW f \in LibFolders, DropDocuments(i, f)
       PROVE  LibraryInv'
  <2> DEFINE S == IF Ids[i] \in selected THEN selected ELSE {Ids[i]}
  <2>1. S \in SUBSET LibDocs
    BY <1>0, <1>11, RowsAreDocs DEF DropDocuments, SelectionInv
  <2>2. SendBulk("move", S, f)
    BY <1>11 DEF DropDocuments
  <2> HIDE DEF S
  <2> QED
    BY <2>1, <2>2, SendKeeps DEF BulkActions
<1>12. CASE PressSpace
  BY <1>0, <1>12, RowsAreDocs, ToggleKeeps DEF PressSpace, TableShown
<1>13. CASE SelectAllKey
  <2>1. Select(ToSet(Ids)) /\ FocusOn(1) /\ libRows' = libRows
        /\ 1 \in 1..Len(Ids) /\ ToSet(Ids) \in SUBSET LibDocs
    BY <1>0, <1>13, RowsAreDocs DEF SelectAllKey, TableShown, Select
  <2> QED
    BY <1>0, <2>1, FocusKeeps, SelectKeeps
<1>14. ASSUME NEW S \in {ToSet(Ids), {}}, Select(S), UNCHANGED focus
       PROVE  LibraryInv'
  <2>1. ListInv'
    BY <1>0, <1>14 DEF Select, ListInv, Ids
  <2> QED
    BY <1>0, <1>14, <2>1, RowsAreDocs, SelectKeeps
<1>15. ASSUME NEW act \in BulkActions, NEW f \in LibFolders \cup {NoFolder},
              HandleBulkAction(act, f)
       PROVE  LibraryInv'
  <2>1. act = "move" <=> f \in LibFolders
    BY <1>15 DEF HandleBulkAction, LibFolders, NoFolder
  <2> QED
    BY <1>0, <1>15, <2>1, SendKeeps DEF HandleBulkAction, SelectionInv
<1>16. ASSUME NEW b \in bulks, ServeBulk(b)
       PROVE  LibraryInv'
  <2>1. b \in BulkTypes /\ [b EXCEPT !.step = "done"] \in BulkTypes
    BY <1>0 DEF RestInv, BulkTypes
  <2>2. bulks' \subseteq BulkTypes /\ bulkCount' = bulkCount
    BY <1>0, <1>16, <2>1 DEF ServeBulk, RestInv
  <2>3. places' \in [LibDocs -> LibFolders \cup {"inbox", "trash"}]
    <3>1. CASE places' = places
      BY <1>0, <3>1 DEF RestInv
    <3>2. CASE places' = [d \in LibDocs |->
             IF d \notin b.docs \/ b.action = "tag" THEN places[d]
             ELSE IF b.action = "move" THEN Moved(b.folder, places[d])
             ELSE "trash"]
      <4>1. b.action = "tag" \/ b.action = "move" \/ b.action = "trash"
        BY <2>1 DEF BulkTypes, BulkActions
      <4>2. b.action = "move" => b.folder \in LibFolders
        BY <2>1 DEF BulkTypes
      <4>3. ASSUME NEW d \in LibDocs
            PROVE  places'[d] \in LibFolders \cup {"inbox", "trash"}
        <5>1. places[d] \in LibFolders \cup {"inbox", "trash"}
          BY <1>0 DEF RestInv
        <5>2. CASE d \notin b.docs \/ b.action = "tag"
          BY <3>2, <5>1, <5>2
        <5>3. CASE d \in b.docs /\ b.action = "move"
          BY <3>2, <4>2, <5>1, <5>3 DEF Moved
        <5>4. CASE d \in b.docs /\ b.action = "trash"
          BY <3>2, <5>4
        <5> QED
          BY <4>1, <5>2, <5>3, <5>4
      <4> QED
        BY <3>2, <4>3
    <3> QED
      BY <1>16, <3>1, <3>2 DEF ServeBulk
  <2>4. SelectionInv'
    <3>1. CASE places' = places
      BY <1>0, <1>16, <3>1, SelectionKept DEF ServeBulk, SelectionInv
    <3>2. CASE places' # places
      BY <1>0, <1>16, <3>2 DEF ServeBulk, SelectionInv
    <3> QED
      BY <3>1, <3>2
  <2> QED
    BY <1>0, <1>16, <2>2, <2>3, <2>4
    DEF ServeBulk, LibraryInv, ListInv, RestInv, Ids, BulkTypes
<1>17. ASSUME NEW b \in bulks, ArriveBulk(b)
       PROVE  LibraryInv'
  <2>1. SelectionInv'
    BY <1>0, <1>17, SelectionStays DEF ArriveBulk
  <2> QED
    BY <1>0, <1>17, <2>1
    DEF ArriveBulk, LibraryInv, ListInv, RestInv, Ids, BulkTypes
<1>18. ASSUME NEW d \in LibDocs, NEW p \in LibFolders \cup {"trash"},
              SomebodyElse(d, p)
       PROVE  LibraryInv'
  <2>1. places' \in [LibDocs -> LibFolders \cup {"inbox", "trash"}]
    BY <1>0, <1>18 DEF SomebodyElse, RestInv
  <2> QED
    BY <1>18, <2>1, LibraryAssumption
    DEF SomebodyElse, LibraryInv, ListInv, SelectionInv, RestInv, Ids, BulkTypes
<1>19. CASE UNCHANGED libVars
  BY <1>0, <1>19, SelectionKept
  DEF libVars, LibraryInv, ListInv, RestInv, Ids, BulkTypes
<1> QED
  BY <1>1, <1>2, <1>3, <1>4, <1>5, <1>6, <1>7, <1>8, <1>9, <1>10, <1>11,
     <1>12, <1>13, <1>14, <1>15, <1>16, <1>17, <1>18, <1>19
  DEF LibraryNext, ToggleAll, ClearSelection

\* Every variable keeps its type, for any number of documents, on any number of
\* pages.
THEOREM LibraryTypeCorrect == LibrarySpec => []LibraryTypeOK
  BY LibraryInit1, LibraryStep1, InvFits, PTL DEF LibrarySpec

\* Whatever views, folders and pages are opened and whatever lists and answers
\* come late, what is selected is in the list that is shown, until documents go
\* elsewhere or the order changes: what a drag or the toolbar takes along is what
\* the user sees (DocumentsPage.tsx, useDocumentSelectionModel.ts).
THEOREM SelectionsAreShown == LibrarySpec => []SelectionIsShown
  BY LibraryInit1, LibraryStep1, InvFits, PTL DEF LibrarySpec

-----------------------------------------------------------------------------
(* Folders: what is below a folder, and what emptying the trash takes.     *)

LEMMA BelowItself ==
  ASSUME NEW t, NEW f \in FolderIds
  PROVE  /\ f \in DescendantIds(t, f)
         /\ DescendantIds(t, f) \subseteq FolderIds
         /\ HasBelow(t, DescendantIds(t, f))
<1>1. f \in DescendantIds(t, f) /\ DescendantIds(t, f) \subseteq FolderIds
  BY DEF DescendantIds
<1>2. ASSUME NEW g \in FolderIds, t[g].there,
             t[g].parent \in DescendantIds(t, f)
      PROVE  g \in DescendantIds(t, f)
  <2>1. ASSUME NEW D \in SUBSET FolderIds, f \in D, HasBelow(t, D)
        PROVE  g \in D
    <3>1. t[g].parent \in D
      BY <1>2, <2>1 DEF DescendantIds
    <3> QED
      BY <1>2, <2>1, <3>1 DEF HasBelow
  <2> QED
    BY <2>1 DEF DescendantIds
<1> QED
  BY <1>1, <1>2 DEF HasBelow

\* Whatever goes with the trash is in it, and nothing that stays refers to it.
LEMMA EmptiedIsUnused ==
  ASSUME NEW t, NEW docs
  PROVE  \A f \in EmptiedFolders(t, docs) :
           IsEmptied(t, docs, EmptiedFolders(t, docs), f)
<1> DEFINE E == EmptiedFolders(t, docs)
           Next(D) == {f \in FolderIds : IsEmptied(t, docs, D, f)}
           Complete(D) == \A f \in FolderIds : IsEmptied(t, docs, D, f) => f \in D
<1>1. E \subseteq FolderIds
  BY DEF EmptiedFolders
<1>2. ASSUME NEW C \in SUBSET FolderIds, NEW D \in SUBSET FolderIds,
             C \subseteq D
      PROVE  Next(C) \subseteq Next(D)
  BY <1>2 DEF IsEmptied
<1>3. ASSUME NEW D \in SUBSET FolderIds, Complete(D)
      PROVE  E \subseteq D
  BY <1>3 DEF EmptiedFolders
<1>4. Next(E) \subseteq E
  <2>1. ASSUME NEW f \in Next(E), NEW D \in SUBSET FolderIds, Complete(D)
        PROVE  f \in D
    <3>1. f \in Next(D)
      BY <1>1, <1>2, <1>3, <2>1
    <3> QED
      BY <2>1, <3>1
  <2> QED
    BY <2>1 DEF EmptiedFolders
<1>5. Complete(Next(E))
  <2>1. Next(Next(E)) \subseteq Next(E)
    BY <1>1, <1>2, <1>4
  <2> QED
    BY <2>1
<1>6. E \subseteq Next(E)
  BY <1>3, <1>5
<1> QED
  BY <1>6

-----------------------------------------------------------------------------
(* Folders: types.                                                         *)

RowTypes == [there : BOOLEAN, parent : Parents, name : FolderNames,
             trashedAt : 0..folderEdits]
RefersTo(t, f) == t[f].parent = "root" \/
                  (t[f].parent \in FolderIds /\ t[t[f].parent].there)

RowsOK == rows \in [FolderIds -> RowTypes] /\
          \A f \in FolderIds : rows[f].there => RefersTo(rows, f)
FiledOK ==
  /\ filed \in [FiledDocs -> [at : Places, trashed : BOOLEAN, from : Places]]
  /\ \A d \in FiledDocs : filed[d].at \in FolderIds => rows[filed[d].at].there
CountersOK ==
  /\ folderEdits \in 0..MaxFolderEdits /\ onPage \in {"library", "trash"}
  /\ mount \in 1..MaxMounts

FolderOrRoot == FolderIds \cup {"root"}

DialogTypes ==
  {NoFolderDialog} \cup [type : {"create"}, folder : FolderOrRoot]
                   \cup [type : {"rename", "delete"}, folder : FolderIds]
DialogsOK ==
  /\ listed \in [FolderIds -> RowType]
  /\ dialog \in DialogTypes /\ nameInput \in FolderNames \cup {""}
  /\ movedFolder \in FolderIds \cup {NoFolderId}
  /\ destination \in FolderOrRoot \cup {NoFolderId}

CallTypes ==
  LET Calls(kinds, fs, names, ps, steps) ==
        [n : 1..folderEdits, kind : kinds, folder : fs, name : names, to : ps,
         mount : 1..mount, step : steps, tree : SUBSET FolderIds]
  IN  Calls({"create"}, FolderOrRoot, FolderNames, {NoFolderId}, {"sent"})
        \cup Calls({"rename"}, FolderIds, FolderNames, {NoFolderId}, {"sent"})
        \cup Calls({"delete"}, FolderIds, {""}, {NoFolderId}, {"sent"})
        \cup Calls({"move"}, FolderIds, {""}, FolderOrRoot,
                   {"sent", "walked", "flushed", "read"})
CallsOK == folderCalls \subseteq CallTypes

BinOK ==
  /\ binFolders \in [FolderIds -> Parents]
  /\ binDocs \subseteq [doc : FiledDocs, at : Places]
  /\ pickedFolders \subseteq FolderIds /\ pickedDocs \subseteq FiledDocs

SweepTypes ==
  [kind : {"restore", "purge"}, mount : 1..mount, folders : SUBSET FolderIds,
   docs : SUBSET FiledDocs, chosen : SUBSET FolderIds,
   stamps : [FolderIds -> 0..folderEdits]]
SweepsOK ==
  sweeps \subseteq SweepTypes /\ \A s \in sweeps : s.folders \subseteq s.chosen

FoldersInv ==
  /\ RowsOK /\ FiledOK /\ CountersOK /\ DialogsOK /\ CallsOK /\ BinOK /\ SweepsOK

\* The names of the places are no folders.
LEMMA NamesApart ==
  /\ {"root", "inbox", "trash", NoFolderId} \cap FolderIds = {}
  /\ MaxFolderEdits \in Nat /\ MaxMounts \in Nat \ {0}
<1>1. {"root", "inbox", "trash", "none"} \cap FolderIds = {}
  BY FoldersAssumption
<1> QED
  BY <1>1, FoldersAssumption DEF NoFolderId

LEMMA RowsTyped ==
  ASSUME RowsOK, CountersOK
  PROVE  rows \in [FolderIds -> RowType]
<1>1. 0..folderEdits \subseteq 0..MaxFolderEdits
  BY NamesApart DEF CountersOK
<1>2. ASSUME NEW f \in FolderIds
      PROVE  rows[f] \in RowType
  BY <1>1 DEF RowsOK, RowTypes, RowType
<1> QED
  BY <1>2 DEF RowsOK

LEMMA FoldersInvTypes == FoldersInv => FoldersTypeOK
<1> SUFFICES ASSUME FoldersInv PROVE FoldersTypeOK
  OBVIOUS
<1>1. rows \in [FolderIds -> RowType]
  BY RowsTyped DEF FoldersInv
<1>2. \A f \in FolderIds : rows[f].there =>
        rows[f].parent = "root" \/ rows[rows[f].parent].there
  BY DEF FoldersInv, RowsOK, RefersTo
<1>3. dialog \in
       [type : {"none", "create", "rename", "delete"}, folder : Parents]
  <2>1. NoFolderDialog \in
          [type : {"none", "create", "rename", "delete"}, folder : Parents]
    BY DEF NoFolderDialog, Parents
  <2>2. FolderIds \subseteq Parents /\ FolderOrRoot \subseteq Parents
    BY DEF Parents, FolderOrRoot
  <2> QED
    BY <2>1, <2>2 DEF FoldersInv, DialogsOK, DialogTypes
<1>4. {movedFolder, destination} \subseteq Parents
  BY DEF FoldersInv, DialogsOK, Parents, FolderOrRoot
<1>5. \A c \in folderCalls :
       /\ c.n \in 1..folderEdits
       /\ c.kind \in {"create", "rename", "delete", "move"}
       /\ {c.folder, c.to} \subseteq Parents /\ c.mount \in 1..mount
  BY DEF FoldersInv, CallsOK, CallTypes, Parents, FolderOrRoot
<1>6. \A s \in sweeps : s.folders \subseteq s.chosen /\ s.docs \subseteq FiledDocs
  BY DEF FoldersInv, SweepsOK, SweepTypes
<1> QED
  BY <1>1, <1>2, <1>3, <1>4, <1>5, <1>6
  DEF FoldersInv, FiledOK, CountersOK, DialogsOK, BinOK, FoldersTypeOK

LEMMA FoldersInit1 == FoldersInit => FoldersInv
<1> SUFFICES ASSUME FoldersInit PROVE FoldersInv
  OBVIOUS
<1>0. folderEdits = 0 /\ onPage = "library" /\ mount = 1
      /\ rows = [f \in FolderIds |-> rows[f]] /\ listed = rows
  <2>1. folderEdits = 0 /\ onPage = "library" /\ mount = 1 /\ listed = rows
    BY Zenon DEF FoldersInit
  <2>2. rows = [f \in FolderIds |-> rows[f]]
    BY DEF FoldersInit
  <2> QED
    BY <2>1, <2>2
<1>1. /\ Absent \in RowTypes /\ ~Absent.there
      /\ \A f \in FolderIds \ DOMAIN FirstFolders : rows[f] = Absent
  <2>1. NoFolderId \in Parents /\ 0 \in 0..folderEdits
    BY <1>0 DEF Parents
  <2> QED
    BY <2>1 DEF FoldersInit, Absent, RowTypes, FolderNames
<1>2. ASSUME NEW f \in DOMAIN FirstFolders
      PROVE  /\ rows[f] \in RowTypes /\ rows[f].there
             /\ rows[f].parent \in {"root"} \cup DOMAIN FirstFolders
  <2> DEFINE p == FirstFolders[f].parent
             name == FirstFolders[f].name
  <2>1. /\ p \in {"root"} \cup DOMAIN FirstFolders /\ name \in FolderNames
        /\ DOMAIN FirstFolders \subseteq FolderIds
    BY FoldersAssumption
  <2>2. rows[f] = NewRow(p, name)
    BY <2>1 DEF FoldersInit
  <2> HIDE DEF p, name
  <2>3. p \in Parents /\ 0 \in 0..folderEdits
    BY <1>0, <2>1 DEF Parents
  <2> QED
    BY <2>1, <2>2, <2>3 DEF NewRow, RowTypes
<1>3. DOMAIN FirstFolders \subseteq FolderIds /\ FirstHome \in DOMAIN FirstFolders
  BY FoldersAssumption
<1>4. RowsOK
  <2>1. \A f \in FolderIds : rows[f] \in RowTypes
    BY <1>1, <1>2
  <2>2. rows \in [FolderIds -> RowTypes]
    BY <1>0, <2>1
  <2>3. \A f \in FolderIds : rows[f].there => RefersTo(rows, f)
    BY <1>1, <1>2, <1>3 DEF RefersTo
  <2> QED
    BY <2>2, <2>3 DEF RowsOK
<1>5. FiledOK
  <2>1. FirstHome \in FolderIds /\ rows[FirstHome].there
    BY <1>2, <1>3
  <2> QED
    BY <2>1 DEF FoldersInit, FiledOK, Places
<1>6. CountersOK
  BY <1>0, NamesApart DEF CountersOK
<1>7. DialogsOK
  <2>1. listed \in [FolderIds -> RowType]
    BY <1>0, <1>4, <1>6, RowsTyped
  <2> QED
    BY <2>1 DEF FoldersInit, DialogsOK, DialogTypes
<1>8. BinOK
  BY <1>4 DEF FoldersInit, BinOK, BinList, RowsOK, RowTypes, Parents
<1> QED
  BY <1>4, <1>5, <1>6, <1>7, <1>8 DEF FoldersInit, FoldersInv, CallsOK, SweepsOK

-----------------------------------------------------------------------------
(* Folders: the tables.                                                    *)

TablesOK == RowsOK /\ FiledOK

\* Requests are counted, one at a time.
Counted == folderEdits' \in {folderEdits, folderEdits + 1}

LEMMA RowTypesGrow ==
  ASSUME CountersOK, Counted
  PROVE  RowTypes \subseteq RowTypes'
<1>1. 0..folderEdits \subseteq 0..folderEdits'
  BY NamesApart DEF CountersOK, Counted
<1> QED
  BY <1>1 DEF RowTypes

\* Rows keep their references when neither they nor their parents go or move.
LEMMA RowsKept ==
  ASSUME RowsOK, rows' \in [FolderIds -> RowTypes'],
         \A f \in FolderIds :
           rows'[f].there = rows[f].there /\ rows'[f].parent = rows[f].parent
  PROVE  RowsOK'
<1>1. ASSUME NEW f \in FolderIds, rows'[f].there
      PROVE  RefersTo(rows', f)
  <2>1. RefersTo(rows, f)
    BY <1>1 DEF RowsOK
  <2> QED
    BY <2>1 DEF RefersTo
<1> QED
  BY <1>1 DEF RowsOK, RefersTo

LEMMA TablesStay ==
  ASSUME TablesOK, CountersOK, Counted, UNCHANGED tableVars
  PROVE  TablesOK'
<1>1. rows' \in [FolderIds -> RowTypes']
  BY RowTypesGrow DEF TablesOK, RowsOK, tableVars
<1> QED
  BY <1>1, RowsKept DEF TablesOK, FiledOK, tableVars

LEMMA TrashKeeps ==
  ASSUME TablesOK, CountersOK, NEW f \in FolderIds, NEW n \in 1..folderEdits,
         TrashTree(f, n), UNCHANGED folderEdits
  PROVE  TablesOK'
<1>0. n \in 0..folderEdits
  BY NamesApart DEF CountersOK
<1>1. RowTypes' = RowTypes
  BY DEF RowTypes
<1>2. ASSUME NEW g \in FolderIds
      PROVE  /\ rows'[g] \in RowTypes
             /\ rows'[g].there = rows[g].there
             /\ rows'[g].parent = rows[g].parent
  <2>1. rows[g] \in RowTypes
    BY DEF TablesOK, RowsOK
  <2>2. rows'[g] = rows[g] \/ rows'[g] = [rows[g] EXCEPT !.trashedAt = n]
    BY DEF TrashTree
  <2> QED
    BY <1>0, <2>1, <2>2 DEF RowTypes
<1>3. rows' \in [FolderIds -> RowTypes']
  BY <1>1, <1>2 DEF TrashTree
<1>4. RowsOK'
  BY <1>2, <1>3, RowsKept DEF TablesOK
<1>5. FiledOK'
  <2>1. ASSUME NEW d \in FiledDocs
        PROVE  /\ filed'[d] \in [at : Places, trashed : BOOLEAN, from : Places]
               /\ filed'[d].at = filed[d].at
    <3>1. filed[d] \in [at : Places, trashed : BOOLEAN, from : Places]
      BY DEF TablesOK, FiledOK
    <3> QED
      BY <3>1 DEF TrashTree
  <2> QED
    BY <1>2, <2>1 DEF TrashTree, FiledOK, TablesOK
<1> QED
  BY <1>4, <1>5 DEF TablesOK

LEMMA RestoreKeeps ==
  ASSUME TablesOK, CountersOK, Counted, NEW f \in FolderIds, RestoreTree(f)
  PROVE  TablesOK'
<1>0. 0 \in 0..folderEdits
  BY NamesApart DEF CountersOK
<1>2. ASSUME NEW g \in FolderIds
      PROVE  /\ rows'[g] \in RowTypes
             /\ rows'[g].there = rows[g].there
             /\ rows'[g].parent = rows[g].parent
  <2>1. rows[g] \in RowTypes
    BY DEF TablesOK, RowsOK
  <2>2. rows'[g] = rows[g] \/ rows'[g] = [rows[g] EXCEPT !.trashedAt = 0]
    BY DEF RestoreTree
  <2> QED
    BY <1>0, <2>1, <2>2 DEF RowTypes
<1>3. rows' \in [FolderIds -> RowTypes']
  BY <1>2, RowTypesGrow DEF RestoreTree
<1>4. RowsOK'
  BY <1>2, <1>3, RowsKept DEF TablesOK
<1>5. FiledOK'
  <2>1. ASSUME NEW d \in FiledDocs
        PROVE  /\ filed'[d] \in [at : Places, trashed : BOOLEAN, from : Places]
               /\ filed'[d].at = filed[d].at
    <3>1. filed[d] \in [at : Places, trashed : BOOLEAN, from : Places]
      BY DEF TablesOK, FiledOK
    <3>2. NoFolderId \in Places
      BY DEF Places
    <3> QED
      BY <3>1, <3>2 DEF RestoreTree
  <2> QED
    BY <1>2, <2>1 DEF RestoreTree, FiledOK, TablesOK
<1> QED
  BY <1>4, <1>5 DEF TablesOK

\* Documents that go, and folders that no row and no document refers to.
LEMMA GoneKeeps ==
  ASSUME TablesOK, CountersOK, Counted, NEW docs, NEW gone \in SUBSET FolderIds,
         filed' = WithoutDocs(docs),
         rows' = [g \in FolderIds |-> IF g \in gone THEN Absent ELSE rows[g]],
         \A g \in FolderIds \ gone : rows[g].there => rows[g].parent \notin gone,
         \A d \in FiledDocs : filed'[d].at \notin gone
  PROVE  TablesOK'
<1>1. Absent \in RowTypes /\ ~Absent.there
  BY NamesApart DEF Absent, RowTypes, Parents, FolderNames, CountersOK
<1>2. rows' \in [FolderIds -> RowTypes']
  BY <1>1, RowTypesGrow DEF TablesOK, RowsOK
<1>3. ASSUME NEW f \in FolderIds, rows'[f].there
      PROVE  RefersTo(rows', f)
  <2>1. f \notin gone /\ rows'[f] = rows[f] /\ RefersTo(rows, f)
    BY <1>1, <1>3 DEF TablesOK, RowsOK
  <2>2. rows[f].parent \notin gone
    BY <1>3, <2>1
  <2> QED
    BY <2>1, <2>2 DEF RefersTo
<1>4. ASSUME NEW d \in FiledDocs
      PROVE  /\ filed'[d] \in [at : Places, trashed : BOOLEAN, from : Places]
             /\ filed'[d].at \in FolderIds => rows'[filed'[d].at].there
  <2>1. filed[d] \in [at : Places, trashed : BOOLEAN, from : Places]
        /\ (filed[d].at \in FolderIds => rows[filed[d].at].there)
    BY DEF TablesOK, FiledOK
  <2>2. CASE d \in docs
    <3>1. filed'[d] = [at |-> NoFolderId, trashed |-> FALSE, from |-> NoFolderId]
      BY <2>2 DEF WithoutDocs
    <3> QED
      BY <3>1, NamesApart DEF Places
  <2>3. CASE d \notin docs
    <3>1. filed'[d] = filed[d]
      BY <2>3 DEF WithoutDocs
    <3> QED
      BY <2>1, <3>1
  <2> QED
    BY <2>2, <2>3
<1>5. filed' = [d \in FiledDocs |-> filed'[d]]
  BY DEF WithoutDocs
<1> QED
  BY <1>2, <1>3, <1>4, <1>5 DEF TablesOK, RowsOK, FiledOK

LEMMA PurgeKeeps ==
  ASSUME TablesOK, CountersOK, Counted, NEW f \in FolderIds, PurgeWorks(f),
         PurgeTree(f)
  PROVE  TablesOK'
<1> DEFINE ids == DescendantIds(rows, f)
           gone == {g \in ids : InBin(rows, g)}
<1>1. gone \in SUBSET FolderIds
  BY BelowItself
<1>2. ~Referred(rows, WithoutDocs(PurgedDocs(ids)), gone)
      /\ filed' = WithoutDocs(PurgedDocs(ids))
      /\ rows' = [g \in FolderIds |-> IF g \in gone THEN Absent ELSE rows[g]]
  BY DEF PurgeWorks, PurgeTree
<1> HIDE DEF gone, ids
<1> QED
  BY <1>1, <1>2, GoneKeeps DEF Referred

LEMMA EmptyKeeps ==
  ASSUME TablesOK, CountersOK, Counted, NEW docs, filed' = WithoutDocs(docs),
         rows' = EmptiedTrash(rows, filed')
  PROVE  TablesOK'
<1> DEFINE gone == EmptiedFolders(rows, filed')
<1>1. gone \in SUBSET FolderIds
  BY DEF EmptiedFolders
<1>2. rows' = [g \in FolderIds |-> IF g \in gone THEN Absent ELSE rows[g]]
  BY DEF EmptiedTrash
<1>3. \A f \in gone : IsEmptied(rows, filed', gone, f)
  BY EmptiedIsUnused
<1> HIDE DEF gone
<1>4. /\ \A g \in FolderIds \ gone : rows[g].there => rows[g].parent \notin gone
      /\ \A d \in FiledDocs : filed'[d].at \notin gone
  BY <1>3 DEF IsEmptied
<1> QED
  BY <1>1, <1>2, <1>4, GoneKeeps

\* A document goes home, into a folder that is there.
LEMMA RestoreDocsKeeps ==
  ASSUME TablesOK, CountersOK, Counted, NEW docs, RestoreDocs(docs),
         UNCHANGED rows
  PROVE  TablesOK'
<1>1. RowsOK'
  BY TablesStay, RowTypesGrow, RowsKept DEF TablesOK, RowsOK
<1>2. ASSUME NEW d \in FiledDocs
      PROVE  /\ filed'[d] \in [at : Places, trashed : BOOLEAN, from : Places]
             /\ filed'[d].at \in FolderIds => rows[filed'[d].at].there
  <2>1. filed[d] \in [at : Places, trashed : BOOLEAN, from : Places]
        /\ (filed[d].at \in FolderIds => rows[filed[d].at].there)
    BY DEF TablesOK, FiledOK
  <2>2. Home(d) \in Places /\ (Home(d) \in FolderIds => rows[Home(d)].there)
    BY <2>1, NamesApart DEF Home, Places, Live
  <2>3. NoFolderId \in Places
    BY DEF Places
  <2>4. \/ filed'[d] = filed[d]
        \/ filed'[d] = [at |-> Home(d), trashed |-> FALSE, from |-> NoFolderId]
    BY DEF RestoreDocs
  <2>5. CASE filed'[d] = filed[d]
    BY <2>1, <2>5
  <2>6. CASE filed'[d] =
               [at |-> Home(d), trashed |-> FALSE, from |-> NoFolderId]
    <3> DEFINE h == Home(d)
    <3>1. h \in Places /\ (h \in FolderIds => rows[h].there)
      BY <2>2
    <3>2. filed'[d] = [at |-> h, trashed |-> FALSE, from |-> NoFolderId]
      BY <2>6
    <3> HIDE DEF h
    <3> QED
      BY <2>3, <3>1, <3>2
  <2> QED
    BY <2>4, <2>5, <2>6
<1>3. filed' = [d \in FiledDocs |-> filed'[d]]
  BY DEF RestoreDocs
<1> QED
  BY <1>1, <1>2, <1>3 DEF TablesOK, FiledOK

\* A document is put somewhere else.
LEMMA FileKeeps ==
  ASSUME TablesOK, CountersOK, Counted, UNCHANGED rows, NEW d \in FiledDocs,
         NEW r \in [at : Places, trashed : BOOLEAN, from : Places],
         r.at \in FolderIds => rows[r.at].there,
         filed' = [filed EXCEPT ![d] = r]
  PROVE  TablesOK'
<1>1. RowsOK'
  BY RowTypesGrow, RowsKept DEF TablesOK, RowsOK
<1>2. FiledOK'
  BY DEF TablesOK, FiledOK
<1> QED
  BY <1>1, <1>2 DEF TablesOK

-----------------------------------------------------------------------------
(* Folders: every step keeps the invariant.                                *)

Later == Counted /\ mount' \in {mount, mount + 1}

LEMMA LaterTypes ==
  ASSUME CountersOK, Later
  PROVE  CallTypes \subseteq CallTypes' /\ SweepTypes \subseteq SweepTypes'
<1>1. /\ 1..folderEdits \subseteq 1..folderEdits'
      /\ 0..folderEdits \subseteq 0..folderEdits'
      /\ 1..mount \subseteq 1..mount'
  BY NamesApart DEF CountersOK, Later, Counted
<1>2. CallTypes \subseteq CallTypes'
  BY <1>1 DEF CallTypes
<1>3. ASSUME NEW s \in SweepTypes
      PROVE  s \in SweepTypes'
  <2>1. s.stamps \in [FolderIds -> 0..folderEdits'] /\ s.mount \in 1..mount'
    <3>1. s.stamps \in [FolderIds -> 0..folderEdits] /\ s.mount \in 1..mount
      BY <1>3 DEF SweepTypes
    <3> QED
      BY <1>1, <3>1
  <2> QED
    BY <1>3, <2>1 DEF SweepTypes
<1> QED
  BY <1>2, <1>3

LEMMA FoldersInvFrom ==
  ASSUME FoldersInv, Later, CountersOK', TablesOK', DialogsOK', BinOK',
         \A c \in folderCalls' : c \in folderCalls \/ c \in CallTypes',
         \A s \in sweeps' :
           s \in sweeps \/ (s \in SweepTypes' /\ s.folders \subseteq s.chosen)
  PROVE  FoldersInv'
<1>1. CountersOK
  BY DEF FoldersInv
<1>2. CallsOK' /\ SweepsOK'
  BY <1>1, LaterTypes DEF FoldersInv, CallsOK, SweepsOK
<1> QED
  BY <1>2 DEF FoldersInv, TablesOK

\* What a step leaves alone.
LEMMA FoldersFrames ==
  ASSUME FoldersInv
  PROVE  /\ TablesOK /\ CountersOK
         /\ UNCHANGED <<folderEdits, folderPageVars>> => Later /\ CountersOK'
         /\ Edit /\ UNCHANGED folderPageVars => Later /\ CountersOK'
         /\ UNCHANGED <<listed, dialogsVars>> => DialogsOK'
         /\ UNCHANGED treeVars => DialogsOK' /\ UNCHANGED folderPageVars
         /\ UNCHANGED binVars => BinOK' /\ UNCHANGED sweeps
<1>1. TablesOK /\ CountersOK
  BY DEF FoldersInv, TablesOK
<1>2. ASSUME UNCHANGED <<folderEdits, folderPageVars>>
      PROVE  Later /\ CountersOK'
  BY <1>1, <1>2 DEF folderPageVars, Later, Counted, CountersOK
<1>3. ASSUME Edit, UNCHANGED folderPageVars
      PROVE  Later /\ CountersOK'
  <2>1. folderEdits' \in 0..MaxFolderEdits
    BY <1>1, <1>3, NamesApart DEF Edit, CountersOK
  <2> QED
    BY <1>1, <1>3, <2>1 DEF folderPageVars, Later, Counted, CountersOK, Edit
<1>4. ASSUME UNCHANGED <<listed, dialogsVars>>
      PROVE  DialogsOK'
  BY <1>4 DEF dialogsVars, DialogsOK, FoldersInv
<1>5. ASSUME UNCHANGED treeVars
      PROVE  DialogsOK' /\ UNCHANGED folderPageVars
  BY <1>4, <1>5 DEF treeVars
<1>6. ASSUME UNCHANGED binVars
      PROVE  BinOK' /\ UNCHANGED sweeps
  BY <1>6 DEF binVars, BinOK, FoldersInv
<1> QED
  BY <1>1, <1>2, <1>3, <1>4, <1>5, <1>6

\* The pages and their dialogs.
DialogStep ==
  \/ FetchFolders \/ OpenPage \/ CloseFolderDialog \/ CloseMove
  \/ \E f \in FolderIds : OpenRename(f) \/ OpenDelete(f) \/ OpenMove(f)
  \/ \E p \in {"root"} \cup FolderIds : OpenCreate(p) \/ ChooseDestination(p)
  \/ \E name \in FolderNames : TypeFolderName(name)

LEMMA DialogsStep ==
  ASSUME FoldersInv, DialogStep
  PROVE  FoldersInv'
<1>1. CASE FetchFolders
  <2>1. UNCHANGED <<tableVars, folderEdits, folderPageVars, dialogsVars,
                    folderCalls, binVars>> /\ listed' = rows
    BY <1>1 DEF FetchFolders
  <2>2. rows \in [FolderIds -> RowType]
    BY RowsTyped DEF FoldersInv
  <2>3. DialogsOK'
    BY <2>1, <2>2 DEF FoldersInv, DialogsOK, dialogsVars
  <2>4. TablesOK' /\ Later /\ CountersOK' /\ BinOK'
        /\ folderCalls' = folderCalls /\ sweeps' = sweeps
    BY <2>1, FoldersFrames, TablesStay DEF Later
  <2> QED
    BY <2>3, <2>4, FoldersInvFrom
<1>2. CASE OpenPage
  <2>1. UNCHANGED <<tableVars, folderEdits, listed, folderCalls, binFolders,
                    binDocs, sweeps>> /\ mount' = mount + 1 /\ mount < MaxMounts
        /\ onPage' \in {"library", "trash"}
    BY <1>2 DEF OpenPage
  <2>2. CountersOK' /\ Later
    BY <2>1, NamesApart DEF FoldersInv, CountersOK, Later, Counted
  <2>3. DialogsOK'
    BY <1>2, <2>1 DEF FoldersInv, DialogsOK, OpenPage, DialogTypes
  <2>4. BinOK'
    BY <1>2, <2>1 DEF FoldersInv, BinOK, OpenPage
  <2>5. TablesOK'
    BY <2>1, <2>2, FoldersFrames, TablesStay DEF Later
  <2> QED
    BY <2>1, <2>2, <2>3, <2>4, <2>5, FoldersInvFrom
<1>3. ASSUME DialogOnly, DialogsOK' PROVE FoldersInv'
  <2>1. TablesOK' /\ Later /\ CountersOK' /\ BinOK'
        /\ folderCalls' = folderCalls /\ sweeps' = sweeps
    BY <1>3, FoldersFrames, TablesStay DEF Later, DialogOnly
  <2> QED
    BY <1>3, <2>1, FoldersInvFrom
<1>4. CASE CloseFolderDialog \/ CloseMove
           \/ \E name \in FolderNames : TypeFolderName(name)
  <2>1. DialogOnly
    BY <1>4 DEF CloseFolderDialog, CloseMove, TypeFolderName
  <2>2. DialogsOK'
    BY <1>4, <2>1 DEF CloseFolderDialog, CloseMove, TypeFolderName, DialogOnly,
                      FoldersInv, DialogsOK, DialogTypes
  <2> QED
    BY <1>3, <2>1, <2>2
<1>5. CASE \E f \in FolderIds : OpenRename(f) \/ OpenDelete(f) \/ OpenMove(f)
  <2> PICK f \in FolderIds : OpenRename(f) \/ OpenDelete(f) \/ OpenMove(f)
    BY <1>5
  <2>1. DialogOnly
    BY DEF OpenRename, OpenDelete, OpenMove
  <2>2. listed[f].name \in FolderNames
    BY DEF FoldersInv, DialogsOK, RowType
  <2>3. FolderDialog("rename", f) \in DialogTypes
        /\ FolderDialog("delete", f) \in DialogTypes
    BY DEF FolderDialog, DialogTypes
  <2>4. DialogsOK'
    BY <2>1, <2>2, <2>3 DEF OpenRename, OpenDelete, OpenMove, DialogOnly,
                            FoldersInv, DialogsOK
  <2> QED
    BY <1>3, <2>1, <2>4
<1>6. CASE \E p \in {"root"} \cup FolderIds :
             OpenCreate(p) \/ ChooseDestination(p)
  <2> PICK p \in {"root"} \cup FolderIds : OpenCreate(p) \/ ChooseDestination(p)
    BY <1>6
  <2>1. DialogOnly
    BY DEF OpenCreate, ChooseDestination
  <2>2. FolderDialog("create", p) \in DialogTypes
    BY DEF FolderDialog, DialogTypes, FolderOrRoot
  <2>3. DialogsOK'
    BY <2>1, <2>2 DEF OpenCreate, ChooseDestination, DialogOnly, FoldersInv,
                      DialogsOK, FolderOrRoot
  <2> QED
    BY <1>3, <2>1, <2>3
<1> QED
  BY <1>1, <1>2, <1>4, <1>5, <1>6 DEF DialogStep

\* The requests of the tree.
LEMMA SentKeeps ==
  ASSUME FoldersInv, NEW c \in CallTypes', SendFolderCall(c)
  PROVE  FoldersInv'
<1>1. Edit /\ UNCHANGED <<tableVars, treeVars, binVars>>
      /\ folderCalls' = folderCalls \cup {c}
  BY DEF SendFolderCall
<1>2. DialogsOK' /\ UNCHANGED folderPageVars /\ BinOK' /\ sweeps' = sweeps
  BY <1>1, FoldersFrames
<1>3. TablesOK' /\ Later /\ CountersOK'
  BY <1>1, <1>2, FoldersFrames, TablesStay DEF Later
<1> QED
  BY <1>1, <1>2, <1>3, FoldersInvFrom

LEMMA RequestsStep ==
  ASSUME FoldersInv, HandleSubmit \/ ConfirmMove
  PROVE  FoldersInv'
<1>0. ASSUME Edit, UNCHANGED treeVars
      PROVE  folderEdits + 1 \in 1..folderEdits' /\ mount \in 1..mount'
  BY <1>0, NamesApart DEF FoldersInv, CountersOK, Edit, treeVars, folderPageVars
<1>1. CASE HandleSubmit
  <2> DEFINE name == IF dialog.type = "delete" THEN "" ELSE nameInput
             c == FolderCall(dialog.type, dialog.folder, name, NoFolderId)
  <2>1. dialog \in DialogTypes \ {NoFolderDialog}
        /\ nameInput \in FolderNames \cup {""}
        /\ (dialog.type = "delete" \/ nameInput # "")
    BY <1>1 DEF HandleSubmit, FoldersInv, DialogsOK
  <2>2. SendFolderCall(c)
    BY <1>1 DEF HandleSubmit
  <2>3. \/ dialog.type = "create" /\ dialog.folder \in FolderOrRoot
           /\ name \in FolderNames
        \/ dialog.type = "rename" /\ dialog.folder \in FolderIds
           /\ name \in FolderNames
        \/ dialog.type = "delete" /\ dialog.folder \in FolderIds /\ name = ""
    BY <2>1 DEF DialogTypes
  <2>4. folderEdits + 1 \in 1..folderEdits' /\ mount \in 1..mount'
    BY <1>0, <2>2 DEF SendFolderCall
  <2>5. c = [n |-> folderEdits + 1, kind |-> dialog.type,
             folder |-> dialog.folder, name |-> name, to |-> NoFolderId,
             mount |-> mount, step |-> "sent", tree |-> {}]
    BY Zenon DEF FolderCall
  <2> HIDE DEF name, c
  <2>6. c \in CallTypes'
    BY <2>3, <2>4, <2>5 DEF CallTypes
  <2> QED
    BY <2>2, <2>6, SentKeeps
<1>2. CASE ConfirmMove
  <2> DEFINE c == FolderCall("move", movedFolder, "", destination)
  <2>1. movedFolder \in FolderIds /\ destination \in FolderOrRoot
    BY <1>2 DEF ConfirmMove, FoldersInv, DialogsOK
  <2>2. SendFolderCall(c)
    BY <1>2 DEF ConfirmMove
  <2>3. folderEdits + 1 \in 1..folderEdits' /\ mount \in 1..mount'
    BY <1>0, <2>2 DEF SendFolderCall
  <2>4. c \in CallTypes'
    BY <2>1, <2>3 DEF FolderCall, CallTypes
  <2> QED
    BY <2>2, <2>4, SentKeeps
<1> QED
  BY <1>1, <1>2

\* What a request says.
LEMMA CallFields ==
  ASSUME FoldersInv, NEW c \in folderCalls
  PROVE  /\ c.n \in 1..folderEdits
         /\ c.step # "sent" => c.kind = "move"
         /\ c.kind = "create" => c.folder \in FolderOrRoot
                                 /\ c.name \in FolderNames
         /\ c.kind = "rename" => c.folder \in FolderIds
                                 /\ c.name \in FolderNames
         /\ c.kind = "delete" => c.folder \in FolderIds
         /\ c.kind = "move" => c.folder \in FolderIds /\ c.to \in FolderOrRoot
BY DEF FoldersInv, CallsOK, CallTypes

LEMMA AnswerKeeps ==
  ASSUME FoldersInv, NEW c, NEW ok, AfterAnswer(c, ok), Counted => TablesOK'
  PROVE  FoldersInv'
<1>1. UNCHANGED <<folderEdits, listed, folderPageVars, binVars>>
      /\ folderCalls' = folderCalls \ {c}
  BY DEF AfterAnswer
<1>2. Later /\ CountersOK' /\ BinOK' /\ sweeps' = sweeps
  BY <1>1, FoldersFrames
<1>3. DialogsOK'
  BY <1>1 DEF AfterAnswer, FoldersInv, DialogsOK, DialogTypes, dialogsVars
<1> QED
  BY <1>1, <1>2, <1>3, FoldersInvFrom DEF Later

LEMMA CreateKeeps ==
  ASSUME FoldersInv, Counted, NEW c \in folderCalls, ServeCreate(c)
  PROVE  TablesOK'
<1>1. c.folder \in FolderOrRoot /\ c.name \in FolderNames
  BY CallFields DEF ServeCreate
<1>2. TablesOK /\ CountersOK
  BY FoldersFrames
<1>3. CASE CreateWorks(c)
  <2> DEFINE f == CHOOSE g \in FreeIds : TRUE
             row == NewRow(c.folder, c.name)
  <2>1. f \in FolderIds /\ ~rows[f].there
    BY DEF ServeCreate, FreeIds
  <2>2. rows' = [rows EXCEPT ![f] = row] /\ filed' = filed
    BY <1>3 DEF ServeCreate
  <2>3. c.folder = "root" \/ (c.folder \in FolderIds /\ rows[c.folder].there)
    BY <1>1, <1>3 DEF CreateWorks, CreateAllowed, FolderOrRoot
  <2>4. row.there /\ row.parent = c.folder
    BY DEF NewRow
  <2>5. row \in RowTypes'
    <3>1. 0 \in 0..folderEdits'
      BY <1>2, NamesApart DEF CountersOK, Counted
    <3> QED
      BY <1>1, <3>1 DEF NewRow, RowTypes, Parents, FolderOrRoot
  <2> HIDE DEF f, row
  <2>6. rows' \in [FolderIds -> RowTypes']
    BY <1>2, <2>1, <2>2, <2>5, RowTypesGrow DEF TablesOK, RowsOK
  <2>7. ASSUME NEW g \in FolderIds, rows'[g].there
        PROVE  RefersTo(rows', g)
    <3>1. CASE g = f
      <4>1. rows'[g] = row /\ row.parent # f
        BY <1>2, <2>1, <2>2, <2>3, <2>4, <3>1, NamesApart
        DEF TablesOK, RowsOK
      <4> QED
        BY <1>2, <2>1, <2>2, <2>3, <2>4, <4>1 DEF RefersTo, TablesOK, RowsOK
    <3>2. CASE g # f
      <4>1. rows'[g] = rows[g] /\ RefersTo(rows, g)
        BY <1>2, <2>2, <2>7, <3>2 DEF TablesOK, RowsOK
      <4> QED
        BY <1>2, <2>1, <2>2, <2>4, <4>1 DEF RefersTo, TablesOK, RowsOK
    <3> QED
      BY <3>1, <3>2
  <2>8. FiledOK'
    BY <1>2, <2>1, <2>2, <2>4 DEF TablesOK, FiledOK, RowsOK
  <2> QED
    BY <2>6, <2>7, <2>8 DEF TablesOK, RowsOK
<1>4. CASE ~CreateWorks(c)
  BY <1>2, <1>4, TablesStay DEF ServeCreate, tableVars
<1> QED
  BY <1>3, <1>4

LEMMA RenameKeeps ==
  ASSUME FoldersInv, Counted, NEW c \in folderCalls, ServeRename(c)
  PROVE  TablesOK'
<1>1. c.folder \in FolderIds /\ c.name \in FolderNames
  BY CallFields DEF ServeRename
<1>2. TablesOK /\ CountersOK
  BY FoldersFrames
<1>3. ASSUME NEW f \in FolderIds
      PROVE  /\ rows'[f] \in RowTypes'
             /\ rows'[f].there = rows[f].there
             /\ rows'[f].parent = rows[f].parent
  <2>1. rows[f] \in RowTypes'
    BY <1>2, RowTypesGrow DEF TablesOK, RowsOK
  <2>2. rows'[f] \in {rows[f], [rows[f] EXCEPT !.name = c.name]}
    BY <1>1, <1>2 DEF ServeRename, TablesOK, RowsOK
  <2> QED
    BY <1>1, <2>1, <2>2 DEF RowTypes
<1>4. rows' = [f \in FolderIds |-> rows'[f]]
  BY <1>2 DEF ServeRename, TablesOK, RowsOK
<1>5. RowsOK'
  BY <1>2, <1>3, <1>4, RowsKept DEF TablesOK
<1>6. FiledOK'
  BY <1>2, <1>3 DEF TablesOK, FiledOK, ServeRename
<1> QED
  BY <1>5, <1>6 DEF TablesOK

\* While a move holds its locks, the folder and its new parent stay.
MovingOK == \A c \in Moving :
  rows[c.folder].there /\ (c.to # "root" => rows[c.to].there)

LEMMA MoveKeeps ==
  ASSUME FoldersInv, MovingOK, Counted, NEW c \in folderCalls, CommitMove(c)
  PROVE  TablesOK'
<1>1. c.folder \in FolderIds /\ c.to \in FolderOrRoot
  BY CallFields DEF CommitMove
<1>2. TablesOK /\ CountersOK
  BY FoldersFrames
<1>3. rows' = [rows EXCEPT ![c.folder].parent = c.to] /\ filed' = filed
  BY DEF CommitMove, AsMoved
<1>4. c.to = "root" \/ (c.to \in FolderIds /\ rows[c.to].there)
  BY <1>1 DEF MovingOK, Moving, CommitMove, FolderOrRoot
<1>5. ASSUME NEW f \in FolderIds
      PROVE  /\ rows'[f] \in RowTypes'
             /\ rows'[f].there = rows[f].there
             /\ IF f = c.folder THEN rows'[f].parent = c.to
                ELSE rows'[f] = rows[f]
  <2>1. rows[f] \in RowTypes'
    BY <1>2, RowTypesGrow DEF TablesOK, RowsOK
  <2>2. rows'[f] = IF f = c.folder THEN [rows[f] EXCEPT !.parent = c.to]
                   ELSE rows[f]
    BY <1>1, <1>2, <1>3 DEF TablesOK, RowsOK
  <2> QED
    BY <1>1, <2>1, <2>2 DEF RowTypes, Parents, FolderOrRoot
<1>6. rows' = [f \in FolderIds |-> rows'[f]]
  BY <1>2, <1>3 DEF TablesOK, RowsOK
<1>7. ASSUME NEW f \in FolderIds, rows'[f].there
      PROVE  RefersTo(rows', f)
  <2>1. RefersTo(rows, f)
    BY <1>2, <1>5, <1>7 DEF TablesOK, RowsOK
  <2> QED
    BY <1>4, <1>5, <2>1 DEF RefersTo
<1>8. FiledOK'
  BY <1>2, <1>3, <1>5 DEF TablesOK, FiledOK
<1> QED
  BY <1>5, <1>6, <1>7, <1>8 DEF TablesOK, RowsOK

\* What a move is when it goes on.
MoveStep(c) == WalkMove(c) \/ FlushMove(c) \/ RefreshPaths(c) \/ FailMove(c)
NextSteps(c) ==
  {[c EXCEPT !.step = "walked"], [c EXCEPT !.step = "flushed"],
   [c EXCEPT !.step = "read",
             !.tree = DescendantIds(AsMoved(c), c.folder)]}

LEMMA NextStepTypes ==
  ASSUME FoldersInv, NEW c \in folderCalls, c.kind = "move",
         NEW d \in NextSteps(c)
  PROVE  /\ d \in CallTypes /\ d.n = c.n
         /\ d.folder = c.folder /\ d.to = c.to /\ d.step # "sent"
<1>1. c \in CallTypes
  BY DEF FoldersInv, CallsOK
<1>2. PICK tree \in SUBSET FolderIds :
        tree = DescendantIds(AsMoved(c), c.folder)
  BY DEF DescendantIds
<1>3. d \in {[c EXCEPT !.step = "walked"], [c EXCEPT !.step = "flushed"],
             [c EXCEPT !.step = "read", !.tree = tree]}
  BY <1>2 DEF NextSteps
<1> QED
  BY <1>1, <1>3 DEF CallTypes

\* Each step of a move leaves the tables and goes on, or answers.
LEMMA MoveSteps ==
  ASSUME FoldersInv, NEW c \in folderCalls, MoveStep(c)
  PROVE  /\ c.kind = "move" /\ UNCHANGED tableVars
         /\ \/ \E d \in NextSteps(c) : MoveGoesOn(c, d)
            \/ \E ok \in BOOLEAN : AfterAnswer(c, ok)
<1>1. c.kind = "move"
  BY CallFields
  DEF MoveStep, WalkMove, FlushMove, RefreshPaths, FailMove
<1>2. CASE WalkMove(c)
  BY <1>1, <1>2 DEF WalkMove, NextSteps, MoveGoesOn
<1>3. CASE FlushMove(c)
  BY <1>1, <1>3 DEF FlushMove, NextSteps, MoveGoesOn
<1>4. CASE RefreshPaths(c)
  BY <1>1, <1>4 DEF RefreshPaths, NextSteps, MoveGoesOn
<1>5. CASE FailMove(c)
  BY <1>1, <1>5 DEF FailMove
<1> QED
  BY <1>2, <1>3, <1>4, <1>5 DEF MoveStep

LEMMA MoveStepKeeps ==
  ASSUME FoldersInv, NEW c \in folderCalls, MoveStep(c)
  PROVE  FoldersInv'
<1>0. TablesOK /\ CountersOK
  BY FoldersFrames
<1>1. c.kind = "move" /\ UNCHANGED tableVars
  BY MoveSteps
<1>2. ASSUME NEW d \in NextSteps(c), MoveGoesOn(c, d)
      PROVE  FoldersInv'
  <2>1. folderCalls' = (folderCalls \ {c}) \cup {d}
        /\ UNCHANGED <<folderEdits, treeVars, binVars>>
    BY <1>2 DEF MoveGoesOn
  <2>2. d \in CallTypes
    BY <1>1, <1>2, NextStepTypes
  <2>3. Later /\ CountersOK' /\ DialogsOK' /\ BinOK' /\ sweeps' = sweeps
    BY <2>1, FoldersFrames
  <2>4. d \in CallTypes'
    BY <1>0, <2>2, <2>3, LaterTypes
  <2>5. TablesOK'
    BY <1>0, <1>1, <2>3, TablesStay DEF Later
  <2> QED
    BY <2>1, <2>3, <2>4, <2>5, FoldersInvFrom
<1>3. ASSUME NEW ok \in BOOLEAN, AfterAnswer(c, ok)
      PROVE  FoldersInv'
  BY <1>0, <1>1, <1>3, AnswerKeeps, TablesStay
<1> QED
  BY <1>2, <1>3, MoveSteps

LEMMA AnswersStep ==
  ASSUME FoldersInv, MovingOK, NEW c \in folderCalls,
         ServeCreate(c) \/ ServeRename(c) \/ ServeTrash(c) \/ MoveStep(c)
           \/ CommitMove(c)
  PROVE  FoldersInv'
<1>0. TablesOK /\ CountersOK
  BY FoldersFrames
<1>1. CASE ServeCreate(c)
  <2>1. AfterAnswer(c, CreateWorks(c))
    BY <1>1 DEF ServeCreate
  <2> QED
    BY <1>1, <2>1, AnswerKeeps, CreateKeeps
<1>2. CASE ServeRename(c)
  <2>1. AfterAnswer(c, RenameWorks(c))
    BY <1>2 DEF ServeRename
  <2> QED
    BY <1>2, <2>1, AnswerKeeps, RenameKeeps
<1>3. CASE ServeTrash(c)
  <2> DEFINE ok == rows[c.folder].there
  <2>1. AfterAnswer(c, ok) /\ UNCHANGED folderEdits
    BY <1>3 DEF ServeTrash, AfterAnswer
  <2>2. c.folder \in FolderIds /\ c.n \in 1..folderEdits
    BY <1>3, CallFields DEF ServeTrash
  <2>3. TrashTree(c.folder, c.n) \/ UNCHANGED tableVars
    BY <1>3 DEF ServeTrash
  <2>4. Counted => TablesOK'
    BY <1>0, <2>1, <2>2, <2>3, TablesStay, TrashKeeps
  <2> HIDE DEF ok
  <2> QED
    BY <2>1, <2>4, AnswerKeeps
<1>4. CASE MoveStep(c)
  BY <1>4, MoveStepKeeps
<1>5. CASE CommitMove(c)
  <2>1. AfterAnswer(c, TRUE)
    BY <1>5 DEF CommitMove
  <2> QED
    BY <1>5, <2>1, AnswerKeeps, MoveKeeps
<1> QED
  BY <1>1, <1>2, <1>3, <1>4, <1>5

\* Documents are dragged, or put into the trash.
LEMMA FilingStep ==
  ASSUME FoldersInv, NEW d \in FiledDocs,
         TrashFiled(d) \/ \E f \in FolderIds : DropOnFolder(d, f)
  PROVE  FoldersInv'
<1>0. TablesOK /\ CountersOK
  BY FoldersFrames
<1>1. Edit /\ UNCHANGED <<rows, treeVars, folderCalls, binVars>>
  BY DEF TrashFiled, DropOnFolder
<1>2. Later /\ CountersOK' /\ DialogsOK' /\ BinOK' /\ sweeps' = sweeps
  BY <1>1, FoldersFrames
<1>3. filed[d] \in [at : Places, trashed : BOOLEAN, from : Places]
      /\ filed \in [FiledDocs -> [at : Places, trashed : BOOLEAN,
                                  from : Places]]
  BY <1>0 DEF TablesOK, FiledOK
<1>4. CASE TrashFiled(d)
  <2> DEFINE r == [at |-> "trash", trashed |-> TRUE, from |-> filed[d].at]
  <2>1. r \in [at : Places, trashed : BOOLEAN, from : Places]
        /\ r.at \notin FolderIds
    BY <1>3, NamesApart DEF Places
  <2>2. filed' = [filed EXCEPT ![d] = r]
    BY <1>3, <1>4 DEF TrashFiled
  <2> HIDE DEF r
  <2>3. TablesOK'
    BY <1>0, <1>1, <1>2, <2>1, <2>2, FileKeeps DEF Later
  <2> QED
    BY <1>1, <1>2, <2>3, FoldersInvFrom
<1>5. ASSUME NEW f \in FolderIds, DropOnFolder(d, f)
      PROVE  FoldersInv'
  <2> DEFINE r == [filed[d] EXCEPT !.at = f, !.trashed = FALSE]
  <2>1. r.at = f /\ r \in [at : Places, trashed : BOOLEAN, from : Places]
    BY <1>3 DEF Places
  <2>2. filed' = [filed EXCEPT ![d] = r] /\ rows[f].there
    BY <1>3, <1>5 DEF DropOnFolder
  <2> HIDE DEF r
  <2>3. TablesOK'
    BY <1>0, <1>1, <1>2, <2>1, <2>2, FileKeeps DEF Later
  <2> QED
    BY <1>1, <1>2, <2>3, FoldersInvFrom
<1> QED
  BY <1>4, <1>5

\* The trash page, but for its loops.
PageStep ==
  \/ FetchBinFolders \/ FetchBinDocs \/ HandleEmptyTrash
  \/ \E f \in FolderIds : ToggleFolder(f) \/ RestoreFolderRow(f)
  \/ \E d \in FiledDocs : ToggleDoc(d) \/ RestoreDocRow(d)

LEMMA PagesStep ==
  ASSUME FoldersInv, PageStep
  PROVE  FoldersInv'
<1>0. TablesOK /\ CountersOK
  BY FoldersFrames
<1>1. ASSUME UNCHANGED <<tableVars, folderEdits, treeVars, folderCalls, sweeps>>,
             BinOK'
      PROVE  FoldersInv'
  <2>1. DialogsOK' /\ UNCHANGED folderPageVars
    BY <1>1, FoldersFrames
  <2>2. Later /\ CountersOK'
    BY <1>1, <2>1, FoldersFrames
  <2>3. TablesOK'
    BY <1>0, <1>1, <2>2, TablesStay DEF Later
  <2> QED
    BY <1>1, <2>1, <2>2, <2>3, FoldersInvFrom
<1>2. ASSUME Edit, UNCHANGED <<treeVars, folderCalls, sweeps>>,
             BinOK', Counted => TablesOK'
      PROVE  FoldersInv'
  <2>1. DialogsOK' /\ UNCHANGED folderPageVars
    BY <1>2, FoldersFrames
  <2>2. Later /\ CountersOK'
    BY <1>2, <2>1, FoldersFrames
  <2>3. TablesOK'
    BY <1>2, <2>2 DEF Later
  <2> QED
    BY <1>2, <2>1, <2>2, <2>3, FoldersInvFrom
<1>3. CASE FetchBinFolders
  <2>1. BinList \in [FolderIds -> Parents]
    BY <1>0 DEF BinList, TablesOK, RowsOK, RowTypes, Parents
  <2>2. BinOK'
    BY <1>3, <2>1 DEF FetchBinFolders, FoldersInv, BinOK
  <2> QED
    BY <1>1, <1>3, <2>2 DEF FetchBinFolders
<1>4. CASE FetchBinDocs
  <2>1. TrashedDocs \subseteq [doc : FiledDocs, at : Places]
    BY <1>0 DEF TrashedDocs, TablesOK, FiledOK
  <2>2. BinOK'
    BY <1>4, <2>1 DEF FetchBinDocs, FoldersInv, BinOK
  <2> QED
    BY <1>1, <1>4, <2>2 DEF FetchBinDocs
<1>5. CASE \E f \in FolderIds : ToggleFolder(f)
  <2>1. BinOK'
    BY <1>5 DEF ToggleFolder, FoldersInv, BinOK
  <2> QED
    BY <1>1, <1>5, <2>1 DEF ToggleFolder
<1>6. CASE \E d \in FiledDocs : ToggleDoc(d)
  <2>1. BinOK'
    BY <1>6 DEF ToggleDoc, FoldersInv, BinOK
  <2> QED
    BY <1>1, <1>6, <2>1 DEF ToggleDoc
<1>7. ASSUME NEW f \in FolderIds, RestoreFolderRow(f)
      PROVE  FoldersInv'
  <2>1. Edit /\ UNCHANGED <<treeVars, folderCalls, binVars>>
        /\ (RestoreTree(f) \/ UNCHANGED tableVars)
    BY <1>7 DEF RestoreFolderRow, RowOnly
  <2>2. Counted => TablesOK'
    BY <1>0, <2>1, RestoreKeeps, TablesStay
  <2> QED
    BY <1>2, <2>1, <2>2, FoldersFrames
<1>8. ASSUME NEW d \in FiledDocs, RestoreDocRow(d)
      PROVE  FoldersInv'
  <2>1. Edit /\ UNCHANGED <<treeVars, folderCalls, binVars>>
        /\ RestoreDocs({d}) /\ UNCHANGED rows
    BY <1>8 DEF RestoreDocRow, RowOnly
  <2>2. Counted => TablesOK'
    BY <1>0, <2>1, RestoreDocsKeeps
  <2> QED
    BY <1>2, <2>1, <2>2, FoldersFrames
<1>9. CASE HandleEmptyTrash
  <2> DEFINE docs == {d \in FiledDocs : filed[d].trashed}
  <2>1. Edit /\ UNCHANGED <<treeVars, folderCalls, sweeps>>
        /\ filed' = WithoutDocs(docs) /\ rows' = EmptiedTrash(rows, filed')
    BY <1>9 DEF HandleEmptyTrash
  <2>2. BinOK'
    BY <1>9 DEF HandleEmptyTrash, FoldersInv, BinOK
  <2> HIDE DEF docs
  <2>3. Counted => TablesOK'
    BY <1>0, <2>1, EmptyKeeps
  <2> QED
    BY <1>2, <2>1, <2>2, <2>3
<1> QED
  BY <1>3, <1>4, <1>5, <1>6, <1>7, <1>8, <1>9 DEF PageStep

\* The loops over what was selected.
SweepStep ==
  \/ \E kind \in {"restore", "purge"} : StartSweep(kind)
  \/ \E s \in sweeps :
       \/ SweepRestoreDocs(s) \/ EndSweep(s)
       \/ \E f \in FolderIds : SweepFolder(s, f)
       \/ \E d \in FiledDocs : SweepDeleteDoc(s, d)

\* A loop goes on with what it has not yet done.
LEMMA SweepKeeps ==
  ASSUME FoldersInv, NEW s \in sweeps, NEW ok, NEW next, SweepOnly,
         SweepAfter(s, ok, next), next \in SweepTypes,
         next.folders \subseteq next.chosen, Counted => TablesOK'
  PROVE  FoldersInv'
<1>1. UNCHANGED <<folderEdits, treeVars, folderCalls, binFolders, binDocs,
                  pickedFolders, pickedDocs>>
  BY DEF SweepOnly
<1>2. DialogsOK' /\ UNCHANGED folderPageVars /\ CountersOK
  BY <1>1, FoldersFrames
<1>3. Later /\ CountersOK'
  BY <1>1, <1>2, FoldersFrames
<1>4. TablesOK'
  BY <1>3 DEF Later
<1>5. BinOK'
  BY <1>1 DEF FoldersInv, BinOK
<1>6. next \in SweepTypes'
  BY <1>2, <1>3, LaterTypes
<1>7. \A r \in sweeps' : r \in sweeps \/ r = next
  BY DEF SweepAfter
<1> QED
  BY <1>1, <1>2, <1>3, <1>4, <1>5, <1>6, <1>7, FoldersInvFrom

LEMMA SweepsStep ==
  ASSUME FoldersInv, SweepStep
  PROVE  FoldersInv'
<1>0. TablesOK /\ CountersOK
  BY FoldersFrames
<1>1. ASSUME NEW kind \in {"restore", "purge"}, StartSweep(kind)
      PROVE  FoldersInv'
  <2>1. UNCHANGED <<tableVars, folderEdits, treeVars, folderCalls, binFolders,
                    binDocs, pickedFolders, pickedDocs>>
        /\ sweeps' = sweeps \cup {NewSweep(kind)}
    BY <1>1 DEF StartSweep
  <2>2. DialogsOK' /\ UNCHANGED folderPageVars
    BY <2>1, FoldersFrames
  <2>3. Later /\ CountersOK'
    BY <2>1, <2>2, FoldersFrames
  <2>4. TablesOK'
    BY <1>0, <2>1, <2>3, TablesStay DEF Later
  <2>5. BinOK'
    BY <2>1 DEF FoldersInv, BinOK
  <2>6. NewSweep(kind) \in SweepTypes
        /\ NewSweep(kind).folders \subseteq NewSweep(kind).chosen
    <3>1. [f \in FolderIds |-> rows[f].trashedAt] \in
            [FolderIds -> 0..folderEdits]
      BY <1>0 DEF TablesOK, RowsOK, RowTypes
    <3>2. mount \in 1..mount
      BY <1>0, NamesApart DEF CountersOK
    <3>3. pickedFolders \in SUBSET FolderIds /\ pickedDocs \in SUBSET FiledDocs
      BY DEF FoldersInv, BinOK
    <3> QED
      BY <3>1, <3>2, <3>3 DEF NewSweep, SweepTypes
  <2>7. NewSweep(kind) \in SweepTypes'
    BY <1>0, <2>3, <2>6, LaterTypes
  <2> QED
    BY <2>1, <2>2, <2>3, <2>4, <2>5, <2>6, <2>7, FoldersInvFrom
<1>2. ASSUME NEW s \in sweeps, EndSweep(s)
      PROVE  FoldersInv'
  <2>1. UNCHANGED <<tableVars, folderEdits, treeVars, folderCalls, binFolders,
                    binDocs>> /\ sweeps' = sweeps \ {s}
    BY <1>2 DEF EndSweep
  <2>2. DialogsOK' /\ UNCHANGED folderPageVars
    BY <2>1, FoldersFrames
  <2>3. Later /\ CountersOK'
    BY <2>1, <2>2, FoldersFrames
  <2>4. TablesOK'
    BY <1>0, <2>1, <2>3, TablesStay DEF Later
  <2>5. BinOK'
    BY <1>2, <2>1 DEF FoldersInv, BinOK, EndSweep
  <2> QED
    BY <2>1, <2>2, <2>3, <2>4, <2>5, FoldersInvFrom
<1>3. ASSUME NEW s \in sweeps, NEW f \in FolderIds, SweepFolder(s, f)
      PROVE  FoldersInv'
  <2> DEFINE ok == IF s.kind = "restore" THEN rows[f].there ELSE PurgeWorks(f)
             next == [s EXCEPT !.folders = @ \ {f}]
  <2>1. SweepOnly /\ SweepAfter(s, ok, next)
    BY <1>3 DEF SweepFolder
  <2>2. \/ RestoreTree(f) \/ UNCHANGED tableVars
        \/ PurgeWorks(f) /\ PurgeTree(f)
    BY <1>3 DEF SweepFolder
  <2>3. Counted => TablesOK'
    BY <1>0, <2>2, RestoreKeeps, PurgeKeeps, TablesStay
  <2>4. next \in SweepTypes /\ next.folders \subseteq next.chosen
    <3>1. s \in SweepTypes /\ s.folders \subseteq s.chosen
      BY DEF FoldersInv, SweepsOK
    <3>2. s.folders \ {f} \subseteq FolderIds
      BY <3>1 DEF SweepTypes
    <3> QED
      BY <3>1, <3>2 DEF SweepTypes
  <2> HIDE DEF ok, next
  <2> QED
    BY <2>1, <2>3, <2>4, SweepKeeps
<1>4. ASSUME NEW s \in sweeps, SweepRestoreDocs(s)
      PROVE  FoldersInv'
  <2> DEFINE ok == \A d \in s.docs : ~Gone(d)
             next == [s EXCEPT !.docs = {}]
  <2>1. SweepOnly /\ SweepAfter(s, ok, next) /\ UNCHANGED rows
        /\ (RestoreDocs(s.docs) \/ UNCHANGED filed)
    BY <1>4 DEF SweepRestoreDocs
  <2>2. Counted => TablesOK'
    BY <1>0, <2>1, RestoreDocsKeeps, TablesStay DEF tableVars
  <2>3. next \in SweepTypes /\ next.folders \subseteq next.chosen
    BY DEF FoldersInv, SweepsOK, SweepTypes
  <2> HIDE DEF ok, next
  <2> QED
    BY <2>1, <2>2, <2>3, SweepKeeps
<1>5. ASSUME NEW s \in sweeps, NEW d \in FiledDocs, SweepDeleteDoc(s, d)
      PROVE  FoldersInv'
  <2> DEFINE ok == ~Gone(d) /\ filed[d].trashed
             next == [s EXCEPT !.docs = @ \ {d}]
  <2>1. SweepOnly /\ SweepAfter(s, ok, next) /\ UNCHANGED rows
        /\ (filed' = WithoutDocs({d}) \/ UNCHANGED filed)
    BY <1>5 DEF SweepDeleteDoc
  <2>2. ASSUME Counted, filed' = WithoutDocs({d})
        PROVE  TablesOK'
    <3> DEFINE docs == {d}
               gone == {}
    <3>1. /\ gone \in SUBSET FolderIds
          /\ rows' = [g \in FolderIds |-> IF g \in gone THEN Absent ELSE rows[g]]
          /\ \A g \in FolderIds \ gone :
               rows[g].there => rows[g].parent \notin gone
          /\ \A e \in FiledDocs : filed'[e].at \notin gone
      BY <1>0, <2>1 DEF TablesOK, RowsOK
    <3>2. filed' = WithoutDocs(docs)
      BY <2>2
    <3> HIDE DEF docs, gone
    <3> QED
      BY <1>0, <2>2, <3>1, <3>2, GoneKeeps
  <2>3. Counted => TablesOK'
    BY <1>0, <2>1, <2>2, TablesStay DEF tableVars
  <2>4. next \in SweepTypes /\ next.folders \subseteq next.chosen
    <3>1. s \in SweepTypes /\ s.folders \subseteq s.chosen
      BY DEF FoldersInv, SweepsOK
    <3>2. s.docs \ {d} \subseteq FiledDocs
      BY <3>1 DEF SweepTypes
    <3> QED
      BY <3>1, <3>2 DEF SweepTypes
  <2> HIDE DEF ok, next
  <2> QED
    BY <2>1, <2>3, <2>4, SweepKeeps
<1> QED
  BY <1>1, <1>2, <1>3, <1>4, <1>5 DEF SweepStep

LEMMA FoldersInvStep ==
  FoldersInv /\ MovingOK /\ [FoldersNext]_foldersVars => FoldersInv'
<1> SUFFICES ASSUME FoldersInv, MovingOK, [FoldersNext]_foldersVars
             PROVE  FoldersInv'
  OBVIOUS
<1>1. CASE UNCHANGED foldersVars
  BY <1>1
  DEF foldersVars, folderPageVars, FoldersInv, RowsOK, FiledOK, CountersOK,
      DialogsOK, CallsOK, BinOK, SweepsOK, RowTypes, RefersTo, CallTypes,
      SweepTypes
<1>2. CASE TreeNext
  BY <1>2, DialogsStep, RequestsStep, AnswersStep, FilingStep
  DEF TreeNext, DialogStep, MoveStep
<1>3. CASE BinNext
  BY <1>3, PagesStep, SweepsStep DEF BinNext, PageStep, SweepStep
<1> QED
  BY <1>1, <1>2, <1>3 DEF FoldersNext

-----------------------------------------------------------------------------
(* Folders: deleting for ever.                                             *)

\* A step that deletes nothing but what is in the trash and not locked.
Spares ==
  /\ \A d \in FiledDocs : ~Gone(d) /\ Gone(d)' => filed[d].trashed
  /\ \A f \in FolderIds : rows[f].there /\ ~rows'[f].there =>
       InBin(rows, f) /\ f \notin Locked

LEMMA NoneGone ==
  ASSUME NEW docs, filed' = WithoutDocs(docs),
         \A d \in FiledDocs \cap docs : filed[d].trashed
  PROVE  \A d \in FiledDocs : ~Gone(d) /\ Gone(d)' => filed[d].trashed
BY DEF WithoutDocs, Gone

LEMMA StillThere ==
  ASSUME FoldersInv, UNCHANGED filed,
         \A f \in FolderIds : rows[f].there => rows'[f].there
  PROVE  Spares
BY DEF Spares, Gone

LEMMA MovesSpare ==
  ASSUME FoldersInv, UNCHANGED rows,
         \A d \in FiledDocs : Gone(d)' => Gone(d)
  PROVE  Spares
BY DEF Spares

LEMMA TreeTrashSpares ==
  ASSUME FoldersInv, NEW f \in FolderIds, NEW n, TrashTree(f, n)
  PROVE  Spares
<1>1. \A g \in FolderIds : rows'[g].there = rows[g].there
  BY DEF TrashTree, FoldersInv, RowsOK, RowTypes
<1>2. \A d \in FiledDocs : filed'[d].at = filed[d].at
  BY DEF TrashTree
<1> QED
  BY <1>1, <1>2 DEF Spares, Gone

LEMMA TreeRestoreSpares ==
  ASSUME FoldersInv, NEW f \in FolderIds, RestoreTree(f)
  PROVE  Spares
<1>1. \A g \in FolderIds : rows'[g].there = rows[g].there
  BY DEF RestoreTree, FoldersInv, RowsOK, RowTypes
<1>2. \A d \in FiledDocs : filed'[d].at = filed[d].at
  BY DEF RestoreTree
<1> QED
  BY <1>1, <1>2 DEF Spares, Gone

LEMMA TreePurgeSpares ==
  ASSUME FoldersInv, NEW f \in FolderIds, PurgeTree(f)
  PROVE  Spares
<1> DEFINE docs == PurgedDocs(DescendantIds(rows, f))
<1>1. filed' = WithoutDocs(docs)
      /\ \A d \in FiledDocs \cap docs : filed[d].trashed
  BY DEF PurgeTree, PurgedDocs
<1> HIDE DEF docs
<1>2. \A d \in FiledDocs : ~Gone(d) /\ Gone(d)' => filed[d].trashed
  BY <1>1, NoneGone
<1>3. \A g \in FolderIds : rows[g].there /\ ~rows'[g].there =>
        InBin(rows, g) /\ g \notin Locked
  BY DEF PurgeTree
<1> QED
  BY <1>2, <1>3 DEF Spares

LEMMA EmptyingSpares ==
  ASSUME FoldersInv, HandleEmptyTrash
  PROVE  Spares
<1> DEFINE docs == {d \in FiledDocs : filed[d].trashed}
<1>1. filed' = WithoutDocs(docs)
      /\ \A d \in FiledDocs \cap docs : filed[d].trashed
  BY DEF HandleEmptyTrash
<1> HIDE DEF docs
<1>2. \A d \in FiledDocs : ~Gone(d) /\ Gone(d)' => filed[d].trashed
  BY <1>1, NoneGone
<1>3. ASSUME NEW g \in FolderIds, rows[g].there, ~rows'[g].there
      PROVE  InBin(rows, g) /\ g \notin Locked
  <2>1. g \in EmptiedFolders(rows, filed') /\ g \notin Locked
    BY <1>3 DEF HandleEmptyTrash, EmptiedTrash
  <2>2. IsEmptied(rows, filed', EmptiedFolders(rows, filed'), g)
    BY <2>1, EmptiedIsUnused
  <2> QED
    BY <2>1, <2>2 DEF IsEmptied
<1> QED
  BY <1>2, <1>3 DEF Spares

\* A document that goes home is somewhere.
LEMMA DocsRestoreSpares ==
  ASSUME FoldersInv, NEW docs, RestoreDocs(docs), UNCHANGED rows
  PROVE  Spares
<1>1. \A d \in FiledDocs : Home(d) # NoFolderId
  BY NamesApart DEF Home, NoFolderId
<1>2. \A d \in FiledDocs : Gone(d)' => Gone(d)
  BY <1>1 DEF RestoreDocs, Gone
<1> QED
  BY <1>2, MovesSpare

LEMMA StepSpares == FoldersInv /\ FoldersNext => Spares
<1> SUFFICES ASSUME FoldersInv, FoldersNext PROVE Spares
  OBVIOUS
<1>0. ASSUME UNCHANGED tableVars PROVE Spares
  BY <1>0 DEF tableVars, Spares, Gone
<1>1. CASE DialogStep \/ HandleSubmit \/ ConfirmMove
  <2>1. UNCHANGED tableVars
    BY <1>1
    DEF DialogStep, FetchFolders, OpenPage, CloseFolderDialog, CloseMove,
        OpenRename, OpenDelete, OpenMove, OpenCreate, ChooseDestination,
        TypeFolderName, DialogOnly, HandleSubmit, ConfirmMove, SendFolderCall
  <2> QED
    BY <1>0, <2>1
<1>2. ASSUME NEW c \in folderCalls, ServeCreate(c)
      PROVE  Spares
  <2>1. \A f \in FolderIds : rows[f].there => rows'[f].there
    BY <1>2 DEF ServeCreate, FreeIds, FoldersInv, RowsOK
  <2> QED
    BY <1>2, <2>1, StillThere DEF ServeCreate
<1>3. ASSUME NEW c \in folderCalls, ServeRename(c) \/ CommitMove(c)
      PROVE  Spares
  <2>1. \A f \in FolderIds : rows[f].there => rows'[f].there
    BY <1>3 DEF ServeRename, CommitMove, AsMoved, FoldersInv, RowsOK, RowTypes
  <2> QED
    BY <1>3, <2>1, StillThere DEF ServeRename, CommitMove
<1>4. ASSUME NEW c \in folderCalls, ServeTrash(c)
      PROVE  Spares
  <2>1. TrashTree(c.folder, c.n) \/ UNCHANGED tableVars
    BY <1>4 DEF ServeTrash
  <2>2. c.folder \in FolderIds
    BY <1>4, CallFields DEF ServeTrash
  <2> QED
    BY <1>0, <2>1, <2>2, TreeTrashSpares
<1>5. ASSUME NEW c \in folderCalls, MoveStep(c)
      PROVE  Spares
  BY <1>0, <1>5, MoveSteps
<1>6. ASSUME NEW d \in FiledDocs,
             TrashFiled(d) \/ \E f \in FolderIds : DropOnFolder(d, f)
      PROVE  Spares
  <2>1. UNCHANGED rows
    BY <1>6 DEF TrashFiled, DropOnFolder
  <2>2. filed[d] \in [at : Places, trashed : BOOLEAN, from : Places]
        /\ filed \in [FiledDocs -> [at : Places, trashed : BOOLEAN,
                                    from : Places]]
    BY DEF FoldersInv, FiledOK
  <2>3. filed'[d].at # NoFolderId
    <3>1. CASE TrashFiled(d)
      <4>1. filed'[d].at = "trash"
        BY <2>2, <3>1 DEF TrashFiled
      <4> QED
        BY <4>1 DEF NoFolderId
    <3>2. ASSUME NEW f \in FolderIds, DropOnFolder(d, f)
          PROVE  filed'[d].at # NoFolderId
      <4>1. filed'[d].at = f
        BY <2>2, <3>2 DEF DropOnFolder
      <4> QED
        BY <4>1, NamesApart
    <3> QED
      BY <1>6, <3>1, <3>2
  <2>4. \A e \in FiledDocs \ {d} : filed'[e] = filed[e]
    BY <1>6, <2>2 DEF TrashFiled, DropOnFolder
  <2>5. \A e \in FiledDocs : Gone(e)' => Gone(e)
    BY <2>3, <2>4 DEF Gone
  <2> QED
    BY <2>1, <2>5, MovesSpare
<1>7. CASE PageStep
  <2>1. CASE FetchBinFolders \/ FetchBinDocs
             \/ (\E f \in FolderIds : ToggleFolder(f))
             \/ \E d \in FiledDocs : ToggleDoc(d)
    BY <1>0, <2>1 DEF FetchBinFolders, FetchBinDocs, ToggleFolder, ToggleDoc
  <2>2. ASSUME NEW f \in FolderIds, RestoreFolderRow(f)
        PROVE  Spares
    BY <1>0, <2>2, TreeRestoreSpares DEF RestoreFolderRow
  <2>3. ASSUME NEW d \in FiledDocs, RestoreDocRow(d)
        PROVE  Spares
    BY <2>3, DocsRestoreSpares DEF RestoreDocRow
  <2> QED
    BY <1>7, <2>1, <2>2, <2>3, EmptyingSpares DEF PageStep
<1>8. CASE \E kind \in {"restore", "purge"} : StartSweep(kind)
  BY <1>0, <1>8 DEF StartSweep
<1>9. ASSUME NEW s \in sweeps, SweepRestoreDocs(s)
      PROVE  Spares
  BY <1>0, <1>9, DocsRestoreSpares DEF SweepRestoreDocs, tableVars
<1>10. ASSUME NEW s \in sweeps, EndSweep(s)
       PROVE  Spares
  BY <1>0, <1>10 DEF EndSweep
<1>11. ASSUME NEW s \in sweeps, NEW f \in FolderIds, SweepFolder(s, f)
       PROVE  Spares
  <2>1. RestoreTree(f) \/ PurgeTree(f) \/ UNCHANGED tableVars
    BY <1>11 DEF SweepFolder
  <2> QED
    BY <1>0, <2>1, TreeRestoreSpares, TreePurgeSpares
<1>12. ASSUME NEW s \in sweeps, NEW d \in FiledDocs, SweepDeleteDoc(s, d)
       PROVE  Spares
  <2>1. UNCHANGED rows
        /\ (UNCHANGED filed
            \/ (filed' = WithoutDocs({d}) /\ filed[d].trashed))
    BY <1>12 DEF SweepDeleteDoc
  <2>2. \A e \in FiledDocs : ~Gone(e) /\ Gone(e)' => filed[e].trashed
    BY <2>1 DEF Gone, WithoutDocs
  <2> QED
    BY <2>1, <2>2 DEF Spares
<1>13. CASE TreeNext
  BY <1>1, <1>2, <1>3, <1>4, <1>5, <1>6, <1>13
  DEF TreeNext, DialogStep, MoveStep
<1>14. CASE BinNext
  BY <1>7, <1>8, <1>9, <1>10, <1>11, <1>12, <1>14 DEF BinNext, PageStep
<1> QED
  BY <1>13, <1>14 DEF FoldersNext

\* A request is new, went on, or was there.
LEMMA CallsAfter ==
  ASSUME FoldersInv, FoldersNext, NEW d \in folderCalls'
  PROVE  \/ d \in folderCalls \/ d.step = "sent"
         \/ \E c \in folderCalls : MoveStep(c) /\ MoveGoesOn(c, d)
<1>1. CASE UNCHANGED folderCalls
  BY <1>1
<1>2. CASE HandleSubmit \/ ConfirmMove
  <2>1. PICK c : folderCalls' = folderCalls \cup {c} /\ c.step = "sent"
    <3>1. \A kind, f, name, to : FolderCall(kind, f, name, to).step = "sent"
      BY DEF FolderCall
    <3>2. ASSUME NEW c, SendFolderCall(c)
          PROVE  folderCalls' = folderCalls \cup {c}
      BY <3>2 DEF SendFolderCall
    <3>3. \E kind, f, name, to : SendFolderCall(FolderCall(kind, f, name, to))
      BY <1>2, Zenon DEF HandleSubmit, ConfirmMove
    <3> QED
      BY <3>1, <3>2, <3>3
  <2> QED
    BY <2>1
<1>3. ASSUME NEW c \in folderCalls,
             ServeCreate(c) \/ ServeRename(c) \/ ServeTrash(c) \/ CommitMove(c)
      PROVE  d \in folderCalls
  BY <1>3 DEF ServeCreate, ServeRename, ServeTrash, CommitMove, AfterAnswer
<1>4. ASSUME NEW c \in folderCalls, MoveStep(c)
      PROVE  d \in folderCalls \/ MoveGoesOn(c, d)
  <2>1. \/ \E e : folderCalls' = (folderCalls \ {c}) \cup {e} /\ MoveGoesOn(c, e)
        \/ folderCalls' = folderCalls \ {c}
    BY <1>4, MoveSteps DEF MoveGoesOn, AfterAnswer
  <2> QED
    BY <2>1
<1>5. CASE DialogStep \/ \E e \in FiledDocs :
             TrashFiled(e) \/ \E f \in FolderIds : DropOnFolder(e, f)
  <2>1. UNCHANGED folderCalls
    BY <1>5
    DEF DialogStep, FetchFolders, OpenPage, CloseFolderDialog, CloseMove,
        OpenRename, OpenDelete, OpenMove, OpenCreate, ChooseDestination,
        TypeFolderName, DialogOnly, TrashFiled, DropOnFolder
  <2> QED
    BY <2>1
<1>6. CASE BinNext
  <2>1. UNCHANGED folderCalls
    BY <1>6
    DEF BinNext, FetchBinFolders, FetchBinDocs, HandleEmptyTrash, ToggleFolder,
        ToggleDoc, RestoreFolderRow, RestoreDocRow, RowOnly, StartSweep,
        SweepRestoreDocs, EndSweep, SweepFolder, SweepDeleteDoc, SweepOnly
  <2> QED
    BY <2>1
<1>7. CASE TreeNext
  BY <1>2, <1>3, <1>4, <1>5, <1>7 DEF TreeNext, DialogStep, MoveStep
<1> QED
  BY <1>6, <1>7 DEF FoldersNext

LEMMA MovingStep ==
  FoldersInv /\ MovingOK /\ [FoldersNext]_foldersVars => MovingOK'
<1> SUFFICES ASSUME FoldersInv, MovingOK, [FoldersNext]_foldersVars,
                    NEW d \in Moving'
             PROVE  rows'[d.folder].there /\ (d.to # "root" => rows'[d.to].there)
  BY DEF MovingOK
<1>0. d \in folderCalls' /\ d.step \in {"flushed", "read"}
  BY DEF Moving
<1>1. CASE UNCHANGED foldersVars
  BY <1>1 DEF foldersVars, MovingOK, Moving
<1>2. ASSUME FoldersNext, d \in folderCalls
      PROVE  rows'[d.folder].there /\ (d.to # "root" => rows'[d.to].there)
  <2>1. d \in Moving /\ d.folder \in FolderIds /\ d.to \in FolderOrRoot
    BY <1>0, <1>2, CallFields DEF Moving
  <2>2. {d.folder, d.to} \subseteq Locked
    BY <2>1 DEF Locked, UpdateLocked
  <2>3. Spares
    BY <1>2, StepSpares
  <2> QED
    BY <2>1, <2>2, <2>3 DEF Spares, MovingOK, FolderOrRoot
<1>3. ASSUME NEW c \in folderCalls, MoveStep(c), MoveGoesOn(c, d),
             d \notin folderCalls
      PROVE  rows'[d.folder].there /\ (d.to # "root" => rows'[d.to].there)
  <2>1. c.kind = "move" /\ rows' = rows /\ c \in CallTypes
    BY <1>3, MoveSteps DEF tableVars, FoldersInv, CallsOK
  <2>2. \A e \in NextSteps(c) : e.folder = c.folder /\ e.to = c.to
    BY <2>1, NextStepTypes
  <2>3. ASSUME NEW e, MoveGoesOn(c, e) PROVE d = e
    BY <1>0, <1>3, <2>3 DEF MoveGoesOn
  <2>4. CASE WalkMove(c)
    <3>1. [c EXCEPT !.step = "walked"].step = "walked"
      BY <2>1 DEF CallTypes
    <3>2. d = [c EXCEPT !.step = "walked"]
      BY <1>0, <1>3, <2>3, <2>4 DEF WalkMove, AfterAnswer
    <3> QED
      BY <1>0, <3>1, <3>2
  <2>5. CASE FlushMove(c)
    <3>1. FlushWorks(c) /\ d = [c EXCEPT !.step = "flushed"]
      BY <1>0, <1>3, <2>3, <2>5 DEF FlushMove, AfterAnswer
    <3>2. d.folder = c.folder /\ d.to = c.to
      BY <2>2, <3>1 DEF NextSteps
    <3> QED
      BY <2>1, <3>1, <3>2 DEF FlushWorks
  <2>6. CASE RefreshPaths(c)
    <3>1. c \in Moving /\ d \in NextSteps(c)
      BY <2>3, <2>6 DEF RefreshPaths, Moving, NextSteps
    <3> QED
      BY <2>1, <2>2, <3>1 DEF MovingOK
  <2>7. ~FailMove(c)
    BY <1>0, <1>3 DEF FailMove, AfterAnswer
  <2> QED
    BY <1>3, <2>4, <2>5, <2>6, <2>7 DEF MoveStep
<1>4. d \in folderCalls'
  BY <1>0
<1>5. CASE FoldersNext
  BY <1>0, <1>2, <1>3, <1>4, <1>5, CallsAfter
<1> QED
  BY <1>1, <1>5

\* The inductive invariant of the folders.
LEMMA FoldersInvariant == FoldersSpec => []FoldersInv
<1>1. FoldersInit => MovingOK
  BY DEF FoldersInit, MovingOK, Moving
<1> QED
  BY <1>1, FoldersInit1, FoldersInvStep, MovingStep, PTL DEF FoldersSpec

\* Every reachable state of the folder tree and the trash page is type correct,
\* and a row or a document that is there refers to folders that are there: the
\* locks of a move keep its folder and its new parent from being purged.
THEOREM FoldersTypeCorrect == FoldersSpec => []FoldersTypeOK
<1> QED
  BY FoldersInvariant, FoldersInvTypes, PTL

\* Deleting for ever takes only documents and folders that are in the trash when
\* it happens, whatever the lists of the trash page show.
THEOREM OnlyTheTrashIsPurged == FoldersSpec => PurgeSparesTheLive
<1>1. FoldersInv /\ [FoldersNext]_foldersVars =>
        [/\ \A d \in FiledDocs : ~Gone(d) /\ Gone(d)' => filed[d].trashed
         /\ \A f \in FolderIds :
              rows[f].there /\ ~rows'[f].there => InBin(rows, f)
        ]_foldersVars
  BY StepSpares DEF Spares
<1> QED
  BY <1>1, FoldersInvariant, PTL DEF FoldersSpec, PurgeSparesTheLive

-----------------------------------------------------------------------------
(* Folders: what is restored together.  A folder in the trash carries the  *)
(* number of the request that put it there, so that the loop knows whether *)
(* it is in the trash anew.                                                *)

\* No request that is under way has put a folder into the trash yet, and what a
\* loop has restored is there, or was put into the trash after the loop began.
OwnNumbers == \A c, e \in folderCalls : c.n = e.n => c = e
UnusedNumbers == \A c \in folderCalls : \A f \in FolderIds :
  /\ rows[f].trashedAt # c.n
  /\ \A s \in sweeps : s.stamps[f] # c.n
RestoredRows == \A s \in sweeps : \A f \in s.chosen \ s.folders :
  s.kind = "restore" =>
    rows[f].trashedAt = 0 \/ rows[f].trashedAt # s.stamps[f]
StampInv == OwnNumbers /\ UnusedNumbers /\ RestoredRows

\* A step that puts no folder into the trash.
NoneTrashed == \A f \in FolderIds :
  rows'[f].trashedAt = 0 \/ rows'[f].trashedAt = rows[f].trashedAt
NumbersStay == \A c \in folderCalls' :
  c.n = folderEdits + 1 \/ \E e \in folderCalls : e.n = c.n
\* A loop stays, with fewer folders, or begins.
GoesOn(r, s) ==
  /\ s.kind = r.kind /\ s.chosen = r.chosen /\ s.stamps = r.stamps
  /\ \A f \in s.chosen \ s.folders :
       s.kind = "restore" => f \notin r.folders \/ rows'[f].trashedAt = 0
Begins(s) == /\ s.chosen = s.folders
             /\ \A f \in FolderIds : s.stamps[f] = rows[f].trashedAt
                                     /\ \A c \in folderCalls' : s.stamps[f] # c.n
LoopsStay == \A s \in sweeps' : Begins(s) \/ \E r \in sweeps : GoesOn(r, s)

LEMMA StampsFrom ==
  ASSUME FoldersInv, StampInv, NoneTrashed, NumbersStay, LoopsStay, OwnNumbers'
  PROVE  StampInv'
<1>1. /\ folderEdits \in Nat
      /\ \A f \in FolderIds : rows[f].trashedAt \in 0..folderEdits
      /\ \A f \in FolderIds : \A s \in sweeps : s.stamps[f] \in 0..folderEdits
      /\ \A c \in folderCalls : c.n \in 1..folderEdits
      /\ \A s \in sweeps : s.chosen \subseteq FolderIds
  BY NamesApart, CallFields
  DEF FoldersInv, CountersOK, RowsOK, RowTypes, SweepsOK, SweepTypes
<1>2. \A c \in folderCalls' : \A f \in FolderIds :
        c.n # 0 /\ rows[f].trashedAt # c.n /\ \A s \in sweeps : s.stamps[f] # c.n
  BY <1>1 DEF StampInv, UnusedNumbers, NumbersStay
<1>3. UnusedNumbers'
  BY <1>2 DEF UnusedNumbers, NoneTrashed, LoopsStay, GoesOn, Begins
<1>4. RestoredRows'
  BY <1>1 DEF RestoredRows, StampInv, NoneTrashed, LoopsStay, GoesOn, Begins
<1> QED
  BY <1>3, <1>4 DEF StampInv

LEMMA LoopsLeftAlone ==
  ASSUME FoldersInv, sweeps' \subseteq sweeps
  PROVE  LoopsStay
<1>1. \A s \in sweeps : GoesOn(s, s)
  BY DEF GoesOn
<1> QED
  BY <1>1 DEF LoopsStay

LEMMA CallsLeftAlone ==
  ASSUME FoldersInv, StampInv, folderCalls' \subseteq folderCalls
  PROVE  NumbersStay /\ OwnNumbers'
BY DEF NumbersStay, StampInv, OwnNumbers

LEMMA SentKeepsStamps ==
  ASSUME FoldersInv, StampInv, NEW c, c.n = folderEdits + 1, SendFolderCall(c)
  PROVE  StampInv'
<1>1. UNCHANGED <<rows, sweeps>> /\ folderCalls' = folderCalls \cup {c}
  BY DEF SendFolderCall, tableVars, binVars
<1>2. \A e \in folderCalls : e.n # c.n
  BY CallFields, NamesApart DEF FoldersInv, CountersOK
<1>3. OwnNumbers' /\ NumbersStay
  BY <1>1, <1>2 DEF OwnNumbers, StampInv, NumbersStay
<1>4. NoneTrashed /\ LoopsStay
  BY <1>1, LoopsLeftAlone DEF NoneTrashed
<1> QED
  BY <1>3, <1>4, StampsFrom

LEMMA NoneTrashedBy ==
  ASSUME FoldersInv
  PROVE  /\ UNCHANGED rows => NoneTrashed
         /\ \A f \in FolderIds : RestoreTree(f) \/ PurgeTree(f) => NoneTrashed
         /\ HandleEmptyTrash => NoneTrashed
         /\ \A c \in folderCalls :
              ServeCreate(c) \/ ServeRename(c) \/ CommitMove(c) => NoneTrashed
<1>1. rows \in [FolderIds -> RowTypes]
  BY DEF FoldersInv, RowsOK
<1>2. UNCHANGED rows => NoneTrashed
  BY DEF NoneTrashed
<1>3. ASSUME NEW f \in FolderIds, RestoreTree(f) PROVE NoneTrashed
  BY <1>1, <1>3 DEF NoneTrashed, RestoreTree, RowTypes
<1>4. ASSUME NEW f \in FolderIds, PurgeTree(f) PROVE NoneTrashed
  BY <1>4 DEF NoneTrashed, PurgeTree, Absent
<1>5. ASSUME HandleEmptyTrash PROVE NoneTrashed
  BY <1>5 DEF NoneTrashed, HandleEmptyTrash, EmptiedTrash, Absent
<1>6. ASSUME NEW c \in folderCalls, ServeCreate(c) PROVE NoneTrashed
  <2>1. \/ rows' = rows
        \/ \E f \in FreeIds : rows' = [rows EXCEPT ![f] =
                                         NewRow(c.folder, c.name)]
    BY <1>6 DEF ServeCreate
  <2>2. NewRow(c.folder, c.name).trashedAt = 0
    BY DEF NewRow
  <2> QED
    BY <1>1, <2>1, <2>2 DEF NoneTrashed, FreeIds
<1>7. ASSUME NEW c \in folderCalls, ServeRename(c) \/ CommitMove(c)
      PROVE  NoneTrashed
  <2>1. \/ rows' = rows
        \/ rows' = [rows EXCEPT ![c.folder].name = c.name]
        \/ rows' = [rows EXCEPT ![c.folder].parent = c.to]
    BY <1>7 DEF ServeRename, CommitMove, AsMoved
  <2> QED
    BY <1>1, <2>1 DEF NoneTrashed, RowTypes
<1> QED
  BY <1>2, <1>3, <1>4, <1>5, <1>6, <1>7

LEMMA TrashingKeepsStamps ==
  ASSUME FoldersInv, StampInv, NEW c \in folderCalls, ServeTrash(c)
  PROVE  StampInv'
<1>1. folderCalls' = folderCalls \ {c} /\ sweeps' = sweeps
  BY DEF ServeTrash, AfterAnswer, binVars
<1>2. rows \in [FolderIds -> RowTypes]
  BY DEF FoldersInv, RowsOK
<1>3. ASSUME NEW f \in FolderIds
      PROVE  rows'[f].trashedAt = rows[f].trashedAt \/ rows'[f].trashedAt = c.n
  BY <1>2 DEF ServeTrash, TrashTree, tableVars, RowTypes
<1>4. OwnNumbers'
  BY <1>1 DEF StampInv, OwnNumbers
<1>5. UnusedNumbers'
  BY <1>1, <1>3 DEF StampInv, OwnNumbers, UnusedNumbers
<1>6. RestoredRows'
  <2>1. \A s \in sweeps : s.chosen \subseteq FolderIds
    BY DEF FoldersInv, SweepsOK, SweepTypes
  <2> QED
    BY <1>1, <1>3, <2>1 DEF StampInv, UnusedNumbers, RestoredRows
<1> QED
  BY <1>4, <1>5, <1>6 DEF StampInv

\* One folder of a loop.
LEMMA LoopGoesOn ==
  ASSUME FoldersInv, NEW s \in sweeps, NEW ok, NEW next,
         SweepAfter(s, ok, next), ok => GoesOn(s, next)
  PROVE  LoopsStay
<1>1. \A r \in sweeps : GoesOn(r, r)
  BY DEF GoesOn
<1> QED
  BY <1>1 DEF LoopsStay, SweepAfter

LEMMA SweepingKeepsStamps ==
  ASSUME FoldersInv, StampInv, NEW s \in sweeps, NEW f \in FolderIds,
         SweepFolder(s, f)
  PROVE  StampInv'
<1> DEFINE ok == IF s.kind = "restore" THEN rows[f].there ELSE PurgeWorks(f)
           next == [s EXCEPT !.folders = @ \ {f}]
<1>0. rows \in [FolderIds -> RowTypes]
  BY DEF FoldersInv, RowsOK
<1>1. folderCalls' = folderCalls /\ SweepAfter(s, ok, next)
      /\ (RestoreTree(f) \/ PurgeTree(f) \/ UNCHANGED tableVars)
  BY DEF SweepFolder, SweepOnly
<1>2. NoneTrashed
  BY <1>1, NoneTrashedBy DEF tableVars
<1>3. ASSUME ok, s.kind = "restore"
      PROVE  rows'[f].trashedAt = 0
  <2>1. rows[f].there /\ rows[f].trashedAt \in Nat
    BY <1>0, <1>3, NamesApart DEF RowTypes, FoldersInv, CountersOK
  <2>2. CASE InBin(rows, f)
    <3>1. RestoreTree(f)
      BY <1>3, <2>2 DEF SweepFolder
    <3>2. f \in DescendantIds(rows, f)
      BY BelowItself
    <3> QED
      BY <1>0, <3>1, <3>2 DEF RestoreTree, RowTypes
  <2>3. CASE ~InBin(rows, f)
    <3>1. UNCHANGED tableVars
      BY <2>3 DEF SweepFolder
    <3> QED
      BY <2>1, <2>3, <3>1 DEF InBin, tableVars
  <2> QED
    BY <2>2, <2>3
<1>4. next.kind = s.kind /\ next.chosen = s.chosen /\ next.stamps = s.stamps
      /\ next.folders = s.folders \ {f}
  BY DEF FoldersInv, SweepsOK, SweepTypes
<1> HIDE DEF ok, next
<1>5. ok => GoesOn(s, next)
  BY <1>3, <1>4 DEF GoesOn
<1>6. LoopsStay
  BY <1>1, <1>5, LoopGoesOn
<1> QED
  BY <1>1, <1>2, <1>6, CallsLeftAlone, StampsFrom

LEMMA SweptDocsKeepStamps ==
  ASSUME FoldersInv, StampInv, NEW s \in sweeps,
         SweepRestoreDocs(s) \/ \E d \in FiledDocs : SweepDeleteDoc(s, d)
  PROVE  StampInv'
<1>1. UNCHANGED <<rows, folderCalls>>
  BY DEF SweepRestoreDocs, SweepDeleteDoc, SweepOnly
<1>2. PICK ok, ds : SweepAfter(s, ok, [s EXCEPT !.docs = ds])
  BY DEF SweepRestoreDocs, SweepDeleteDoc
<1> DEFINE next == [s EXCEPT !.docs = ds]
<1>3. next.kind = s.kind /\ next.chosen = s.chosen /\ next.stamps = s.stamps
      /\ next.folders = s.folders
  BY DEF FoldersInv, SweepsOK, SweepTypes
<1>4. SweepAfter(s, ok, next)
  BY <1>2
<1> HIDE DEF next
<1>5. GoesOn(s, next)
  BY <1>3 DEF GoesOn
<1>6. LoopsStay
  BY <1>4, <1>5, LoopGoesOn
<1>7. NoneTrashed
  BY <1>1, NoneTrashedBy
<1> QED
  BY <1>1, <1>6, <1>7, CallsLeftAlone, StampsFrom

LEMMA BeginningKeepsStamps ==
  ASSUME FoldersInv, StampInv, NEW kind, StartSweep(kind)
  PROVE  StampInv'
<1>1. UNCHANGED <<rows, folderCalls>>
      /\ sweeps' = sweeps \cup {NewSweep(kind)}
  BY DEF StartSweep, tableVars
<1>2. Begins(NewSweep(kind))
  BY <1>1 DEF Begins, NewSweep, StampInv, UnusedNumbers
<1>3. \A s \in sweeps : GoesOn(s, s)
  BY DEF GoesOn
<1>4. LoopsStay
  BY <1>1, <1>2, <1>3 DEF LoopsStay
<1>5. NoneTrashed
  BY <1>1, NoneTrashedBy
<1> QED
  BY <1>1, <1>4, <1>5, CallsLeftAlone, StampsFrom

LEMMA StampStep == FoldersInv /\ StampInv /\ [FoldersNext]_foldersVars => StampInv'
<1> SUFFICES ASSUME FoldersInv, StampInv, [FoldersNext]_foldersVars
             PROVE  StampInv'
  OBVIOUS
<1>0. ASSUME NoneTrashed, folderCalls' \subseteq folderCalls,
             sweeps' \subseteq sweeps
      PROVE  StampInv'
  BY <1>0, CallsLeftAlone, LoopsLeftAlone, StampsFrom
<1>1. ASSUME UNCHANGED <<rows, folderCalls, sweeps>> PROVE StampInv'
  BY <1>0, <1>1, NoneTrashedBy
<1>2. CASE UNCHANGED foldersVars
  BY <1>1, <1>2 DEF foldersVars
<1>3. CASE DialogStep
  <2>1. UNCHANGED <<rows, folderCalls, sweeps>>
    BY <1>3
    DEF DialogStep, FetchFolders, OpenPage, CloseFolderDialog, CloseMove,
        OpenRename, OpenDelete, OpenMove, OpenCreate, ChooseDestination,
        TypeFolderName, DialogOnly, tableVars, binVars
  <2> QED
    BY <1>1, <2>1
<1>4. CASE HandleSubmit \/ ConfirmMove
  <2>1. \E c : c.n = folderEdits + 1 /\ SendFolderCall(c)
    BY <1>4 DEF HandleSubmit, ConfirmMove, FolderCall
  <2> QED
    BY <2>1, SentKeepsStamps
<1>5. ASSUME NEW c \in folderCalls,
             ServeCreate(c) \/ ServeRename(c) \/ CommitMove(c)
      PROVE  StampInv'
  <2>1. folderCalls' \subseteq folderCalls /\ sweeps' = sweeps
    BY <1>5 DEF ServeCreate, ServeRename, CommitMove, AfterAnswer, binVars
  <2> QED
    BY <1>0, <1>5, <2>1, NoneTrashedBy
<1>6. ASSUME NEW c \in folderCalls, MoveStep(c)
      PROVE  StampInv'
  <2>1. c.kind = "move" /\ UNCHANGED rows
    BY <1>6, MoveSteps DEF tableVars
  <2>2. ASSUME NEW d \in NextSteps(c), MoveGoesOn(c, d)
        PROVE  StampInv'
    <3>1. folderCalls' = (folderCalls \ {c}) \cup {d} /\ UNCHANGED sweeps
      BY <2>2 DEF MoveGoesOn, binVars
    <3>2. d.n = c.n
      BY <2>1, <2>2, NextStepTypes
    <3>3. OwnNumbers' /\ NumbersStay
      BY <3>1, <3>2 DEF StampInv, OwnNumbers, NumbersStay
    <3> QED
      BY <2>1, <3>1, <3>3, NoneTrashedBy, LoopsLeftAlone, StampsFrom
  <2>3. ASSUME NEW ok \in BOOLEAN, AfterAnswer(c, ok)
        PROVE  StampInv'
    <3>1. folderCalls' \subseteq folderCalls /\ UNCHANGED sweeps
      BY <2>3 DEF AfterAnswer, binVars
    <3> QED
      BY <1>0, <2>1, <3>1, NoneTrashedBy
  <2> QED
    BY <1>6, <2>2, <2>3, MoveSteps
<1>7. ASSUME NEW d \in FiledDocs,
             TrashFiled(d) \/ \E f \in FolderIds : DropOnFolder(d, f)
      PROVE  StampInv'
  <2>1. UNCHANGED <<rows, folderCalls, sweeps>>
    BY <1>7 DEF TrashFiled, DropOnFolder, binVars
  <2> QED
    BY <1>1, <2>1
<1>8. CASE PageStep
  <2>1. UNCHANGED <<folderCalls, sweeps>>
    BY <1>8 DEF PageStep, FetchBinFolders, FetchBinDocs, HandleEmptyTrash,
                ToggleFolder, RestoreFolderRow, ToggleDoc, RestoreDocRow,
                RowOnly, binVars
  <2>2. ASSUME NEW f \in FolderIds, RestoreFolderRow(f)
        PROVE  NoneTrashed
    <3>1. RestoreTree(f) \/ UNCHANGED rows
      BY <2>2 DEF RestoreFolderRow, tableVars
    <3> QED
      BY <3>1, NoneTrashedBy
  <2>3. ASSUME FetchBinFolders \/ FetchBinDocs
               \/ (\E f \in FolderIds : ToggleFolder(f))
               \/ \E d \in FiledDocs : ToggleDoc(d) \/ RestoreDocRow(d)
        PROVE  NoneTrashed
    <3>1. UNCHANGED rows
      BY <2>3 DEF FetchBinFolders, FetchBinDocs, ToggleFolder, ToggleDoc,
                  RestoreDocRow, tableVars
    <3> QED
      BY <3>1, NoneTrashedBy
  <2>4. NoneTrashed
    BY <1>8, <2>2, <2>3, NoneTrashedBy DEF PageStep
  <2> QED
    BY <1>0, <2>1, <2>4
<1>9. CASE SweepStep
  <2>1. ASSUME NEW s \in sweeps, EndSweep(s) PROVE StampInv'
    <3>1. UNCHANGED <<rows, folderCalls>> /\ sweeps' \subseteq sweeps
      BY <2>1 DEF EndSweep, tableVars
    <3> QED
      BY <1>0, <3>1, NoneTrashedBy
  <2> QED
    BY <1>9, <2>1, BeginningKeepsStamps, SweepingKeepsStamps,
       SweptDocsKeepStamps DEF SweepStep
<1>10. CASE TreeNext
  BY <1>3, <1>4, <1>5, <1>6, <1>7, <1>10, TrashingKeepsStamps
  DEF TreeNext, DialogStep, MoveStep
<1>11. CASE BinNext
  BY <1>8, <1>9, <1>11 DEF BinNext, PageStep, SweepStep
<1> QED
  BY <1>2, <1>10, <1>11 DEF FoldersNext

\* When the loop comes to the documents, each that came from a folder it has
\* restored goes back into it.
LEMMA DocsGoHome ==
  ASSUME FoldersInv, StampInv, NEW s \in sweeps, NEW d \in s.docs,
         SweepRestoreDocs(s), filed[d].trashed, ~filed'[d].trashed,
         filed[d].from \in s.chosen, rows[filed[d].from].there,
         rows[filed[d].from].trashedAt \in {0, s.stamps[filed[d].from]}
  PROVE  filed'[d].at = filed[d].from
<1> DEFINE f == filed[d].from
<1>1. d \in FiledDocs /\ s.chosen \subseteq FolderIds
  BY DEF FoldersInv, SweepsOK, SweepTypes
<1>2. s.kind = "restore" /\ s.folders = {}
  BY DEF SweepRestoreDocs, DocsAreNext
<1>3. rows[f].trashedAt = 0
  BY <1>2 DEF StampInv, RestoredRows
<1>4. RestoreDocs(s.docs)
  BY DEF SweepRestoreDocs
<1>5. Home(d) = f
  BY <1>1, <1>3 DEF Home, Live
<1> QED
  BY <1>1, <1>4, <1>5 DEF RestoreDocs

\* A document that is restored together with the folder that it came from is in
\* that folder again, unless somebody put the folder into the trash anew.
THEOREM RestoredGoHome == FoldersSpec => RestoredTogetherGoHome
<1>1. FoldersInit => StampInv
  BY DEF FoldersInit, StampInv, OwnNumbers, UnusedNumbers, RestoredRows
<1>2. FoldersInv /\ StampInv /\ [FoldersNext]_foldersVars =>
        [\A s \in sweeps : \A d \in s.docs :
           (/\ SweepRestoreDocs(s) /\ filed[d].trashed /\ ~filed'[d].trashed
            /\ filed[d].from \in s.chosen
            /\ rows[filed[d].from].there
            /\ rows[filed[d].from].trashedAt \in {0, s.stamps[filed[d].from]})
           => filed'[d].at = filed[d].from]_foldersVars
  BY DocsGoHome
<1> QED
  BY <1>1, <1>2, FoldersInvariant, StampStep, PTL
  DEF FoldersSpec, RestoredTogetherGoHome

-----------------------------------------------------------------------------
(* Folders: what the trash page shows.                                     *)

\* Among any folders of the list, one is not below another of them.
BinAcyclic == \A D \in SUBSET FolderIds :
  D # {} => \E g \in D : binFolders[g] \notin D

\* What is below a folder is below its parent, together with the folder.
LEMMA BelowParent ==
  ASSUME NEW t, NEW g \in FolderIds, t[g].there, t[g].parent \in FolderIds
  PROVE  DescendantIds(t, g) \subseteq DescendantIds(t, t[g].parent)
<1> DEFINE D == DescendantIds(t, t[g].parent)
<1>1. t[g].parent \in D /\ D \in SUBSET FolderIds /\ HasBelow(t, D)
  BY BelowItself
<1> HIDE DEF D
<1>2. g \in D
  BY <1>1 DEF HasBelow
<1>3. DescendantIds(t, g) \subseteq D
  BY <1>1, <1>2 DEF DescendantIds
<1> QED
  BY <1>3 DEF D

LEMMA LastOfSome ==
  ASSUME NEW X \in SUBSET (SUBSET FolderIds), X # {}
  PROVE  \E x \in X : \A y \in X : ~(y \subseteq x /\ y # x)
<1>1. FiniteSubsetsOf(FolderIds) = SUBSET FolderIds
  BY FoldersAssumption, FS_FiniteSubsetsOfFinite
<1>2. IsWellFoundedOn(StrictSubsetOrdering(FolderIds), SUBSET FolderIds)
  BY <1>1, FS_StrictSubsetOrderingWellFounded
<1>3. PICK x \in X :
        \A y \in X : ~(<<y, x>> \in StrictSubsetOrdering(FolderIds))
  BY <1>2, WFMin
<1>4. \A y \in X : ~(y \subseteq x /\ y # x)
  BY <1>3 DEF StrictSubsetOrdering
<1> QED
  BY <1>4

\* In a tree without a cycle, going from a folder to its parent ends.
LEMMA TreeEnds ==
  ASSUME NEW t, \A f \in FolderIds : ~InCycle(t, f),
         NEW D \in SUBSET FolderIds, D # {}, \A g \in D : t[g].there
  PROVE  \E g \in D : t[g].parent \notin D
<1> SUFFICES ASSUME \A g \in D : t[g].parent \in D PROVE FALSE
  OBVIOUS
<1> DEFINE Rest(g) == FolderIds \ DescendantIds(t, g)
           X == {Rest(g) : g \in D}
<1>1. X \in SUBSET (SUBSET FolderIds) /\ X # {}
  OBVIOUS
<1>2. \E x \in X : \A y \in X : ~(y \subseteq x /\ y # x)
  <2> HIDE DEF X
  <2> QED
    BY <1>1, LastOfSome
<1>3. PICK g \in D :
        \A h \in D : ~(Rest(h) \subseteq Rest(g) /\ Rest(h) # Rest(g))
  <2>1. PICK x \in X : \A y \in X : ~(y \subseteq x /\ y # x)
    BY <1>2
  <2>2. PICK g \in D : x = Rest(g)
    BY <2>1
  <2>3. \A h \in D : Rest(h) \in X
    OBVIOUS
  <2> HIDE DEF X, Rest
  <2> QED
    BY <2>1, <2>2, <2>3
<1> DEFINE p == t[g].parent
<1>4. p \in D /\ g \in FolderIds /\ p \in FolderIds /\ t[g].there
  OBVIOUS
<1>5. DescendantIds(t, g) \subseteq DescendantIds(t, p)
  BY <1>4, BelowParent
<1>6. p \in DescendantIds(t, p)
  BY <1>4, BelowItself
<1>7. p \notin DescendantIds(t, g)
  BY <1>4 DEF InCycle
<1>8. Rest(p) \subseteq Rest(g) /\ Rest(p) # Rest(g)
  BY <1>4, <1>5, <1>6, <1>7
<1> QED
  BY <1>3, <1>4, <1>8

LEMMA FetchedIsAcyclic ==
  ASSUME TreeHasNoCycle, NEW D \in SUBSET FolderIds, D # {}
  PROVE  \E g \in D : BinList[g] \notin D
<1> SUFFICES ASSUME \A g \in D : BinList[g] \in D PROVE FALSE
  OBVIOUS
<1>1. \A g \in D : rows[g].there /\ BinList[g] = rows[g].parent
  BY NamesApart DEF BinList, InBin
<1>2. \E g \in D : rows[g].parent \notin D
  BY <1>1, TreeEnds DEF TreeHasNoCycle
<1> QED
  BY <1>1, <1>2

LEMMA BinAcyclicStep ==
  BinAcyclic /\ TreeHasNoCycle /\ [FoldersNext]_foldersVars => BinAcyclic'
<1> SUFFICES ASSUME BinAcyclic, TreeHasNoCycle, [FoldersNext]_foldersVars
             PROVE  BinAcyclic'
  OBVIOUS
<1>1. FetchBinFolders \/ UNCHANGED binFolders
  BY DEF MoveGoesOn, FlushMove, RefreshPaths, FailMove, FoldersNext, TreeNext, BinNext, foldersVars, binVars, FetchFolders,
         OpenPage, CloseFolderDialog, CloseMove, OpenRename, OpenDelete,
         OpenMove, OpenCreate, ChooseDestination, TypeFolderName, DialogOnly,
         HandleSubmit, ConfirmMove, SendFolderCall, ServeCreate, ServeRename,
         ServeTrash, WalkMove, CommitMove, AfterAnswer, TrashFiled,
         DropOnFolder, FetchBinDocs, HandleEmptyTrash, ToggleFolder, ToggleDoc,
         RestoreFolderRow, RestoreDocRow, RowOnly, StartSweep,
         SweepRestoreDocs, EndSweep, SweepFolder, SweepDeleteDoc, SweepOnly
<1>2. CASE FetchBinFolders
  BY <1>2, FetchedIsAcyclic DEF FetchBinFolders, BinAcyclic
<1>3. CASE UNCHANGED binFolders
  BY <1>3 DEF BinAcyclic
<1> QED
  BY <1>1, <1>2, <1>3

\* Every folder of the list is below one that has no parent in the list.
LEMMA NothingHidden ==
  ASSUME FoldersInv, BinAcyclic
  PROVE  BinHidesNothing
<1> DEFINE offered == UNION {BinBelow(f) : f \in RootTrashedFolders}
<1>1. ASSUME NEW f \in FolderIds, InBinList(f), f \notin offered
      PROVE  FALSE
  <2> DEFINE D == {g \in FolderIds : InBinList(g) /\ f \in BinBelow(g)}
  <2>1. f \in D
    BY <1>1 DEF BinBelow
  <2>2. ASSUME NEW g \in D
        PROVE  binFolders[g] \in D
    <3> DEFINE p == binFolders[g]
    <3>1. g \notin RootTrashedFolders
      BY <1>1, <2>2
    <3>2. p \in FolderIds /\ InBinList(p)
      BY <2>2, <3>1 DEF RootTrashedFolders
    <3>3. ASSUME NEW S \in SUBSET FolderIds, p \in S,
                 \A h \in FolderIds : binFolders[h] \in S => h \in S
          PROVE  f \in S
      <4>1. g \in S
        BY <2>2, <3>3
      <4> QED
        BY <1>1, <2>2, <3>3, <4>1 DEF BinBelow
    <3>4. f \in BinBelow(p)
      BY <1>1, <3>3 DEF BinBelow
    <3> QED
      BY <3>2, <3>4
  <2> QED
    BY <2>1, <2>2 DEF BinAcyclic
<1>2. ASSUME NEW r \in binDocs, r \notin LooseDocuments
      PROVE  r.at \in offered
  <2>1. r.at \in FolderIds /\ InBinList(r.at)
    BY <1>2 DEF LooseDocuments
  <2> HIDE DEF offered
  <2> QED
    BY <1>1, <2>1
<1> HIDE DEF offered
<1>3. (\A f \in FolderIds : InBinList(f) => f \in offered)
      /\ (\A r \in binDocs : r \in LooseDocuments \/ r.at \in offered)
  BY <1>1, <1>2
<1> QED
  BY <1>3 DEF BinHidesNothing, offered

\* As long as no folder gets below itself, each folder and each document of the
\* trash is in a row of the trash page or below one.
THEOREM TrashShowsAll ==
  FoldersSpec /\ []TreeHasNoCycle => []BinHidesNothing
<1>1. FoldersInit /\ TreeHasNoCycle => BinAcyclic
  <2> SUFFICES ASSUME FoldersInit, TreeHasNoCycle PROVE BinAcyclic
    OBVIOUS
  <2>1. binFolders = BinList
    BY DEF FoldersInit
  <2> QED
    BY <2>1, FetchedIsAcyclic DEF BinAcyclic
<1>2. FoldersInv /\ BinAcyclic => BinHidesNothing
  BY NothingHidden
<1> QED
  BY <1>1, <1>2, BinAcyclicStep, FoldersInvariant, PTL DEF FoldersSpec

-----------------------------------------------------------------------------
(* Search: types.                                                          *)

LEMMA DraftTypes ==
  /\ Empty \in Drafts /\ NoWord \in Words
  /\ \A d \in Drafts : Trim(d) \in Words
  /\ \A w \in Words : Clean(w) \in Drafts
<1>1. <<"", FALSE>> \in Drafts /\ \A d \in Drafts : <<d[1], FALSE>> \in Drafts
  BY SearchAssumption
<1>2. <<"", FALSE>>[1] = ""
  OBVIOUS
<1> QED
  BY <1>1, <1>2 DEF Empty, NoWord, Words, Trim, Clean

\* What the user does is counted.
LEMMA InputTypes ==
  /\ MaxInputs \in Nat
  /\ inputs \in 0..MaxInputs /\ Input => inputs' \in 0..MaxInputs
<1>1. MaxInputs \in Nat
  BY SearchAssumption
<1> QED
  BY <1>1 DEF Input

LEMMA AddressTypes ==
  /\ [NothingAsked EXCEPT !.mode = "hybrid"] \in Params
  /\ NothingAsked \in Requests
  /\ \A p \in Params :
       /\ p \in Requests
       /\ \A w \in Words : [p EXCEPT !.q = w] \in Params
       /\ \A m \in Modes : [p EXCEPT !.mode = m] \in Params
       /\ \A f \in Filters : [p EXCEPT !.ready = f] \in Params
  BY DraftTypes, SearchAssumption DEF NothingAsked, Params, Requests, Filters

\* The rest of the type: hits are those of requests.
HitsTyped ==
  searches \cup answers \cup {shownHits, boxShown} \subseteq Requests

LEMMA BoxRequestType ==
  ASSUME debounced \in Words PROVE BoxRequest \in Requests
  BY DEF BoxRequest, Requests

LEMMA HitsType ==
  ASSUME HitsTyped, NEW r, NEW before \in Requests
  PROVE  HitsFor(r, before) \in Requests
<1>1. NothingAsked \in Requests
  BY AddressTypes
<1> QED
  BY <1>1 DEF HitsFor, HasAnswer, HitsTyped

\* A change of a request keeps the types, and leaves running only what somebody
\* waits for.
LEMMA AskTypes ==
  ASSUME HitsTyped, Request' \in Requests, BoxRequest' \in Requests, Ask
  PROVE  HitsTyped' /\ searches' \subseteq {Request', BoxRequest'}
<1>1. Hits \in Requests /\ BoxHits \in Requests
  BY HitsType DEF Hits, BoxHits, HitsTyped
<1>2. searches' \subseteq {Request', BoxRequest'}
  BY DEF Ask
<1> QED
  BY <1>1, <1>2 DEF Ask, HitsTyped

LEMMA SearchTypeInit == SearchInit => SearchTypeOK
<1> SUFFICES ASSUME SearchInit PROVE SearchTypeOK
  OBVIOUS
<1>1. params \in Params /\ searchDraft \in Drafts /\ boxDraft \in Drafts
      /\ debounced \in Words
  BY DraftTypes, AddressTypes DEF SearchInit
<1>2. searches \cup answers \cup {shownHits, boxShown} \subseteq Requests
  BY AddressTypes DEF SearchInit
<1>3. 0 \in 0..MaxInputs
  BY InputTypes
<1> QED
  BY <1>1, <1>2, <1>3 DEF SearchInit, SearchTypeOK

LEMMA NavigateTypes ==
  ASSUME SearchTypeOK, NEW p \in Params, Navigate(p), inputs' \in 0..MaxInputs
  PROVE  SearchTypeOK'
<1>1. params' \in Params /\ searchDraft' \in Drafts
  BY DraftTypes DEF Navigate, Params
<1>2. Request' \in Requests /\ BoxRequest' \in Requests
  BY <1>1, AddressTypes, BoxRequestType
  DEF Request, Navigate, SearchTypeOK, BoxRequest
<1>3. Ask /\ HitsTyped
  BY DEF Navigate, SearchTypeOK, HitsTyped
<1>4. HitsTyped' /\ searches' \subseteq {Request', BoxRequest'}
  BY <1>2, <1>3, AskTypes
<1> QED
  BY <1>1, <1>4 DEF Navigate, SearchTypeOK, HitsTyped

LEMMA LeaveTypes ==
  ASSUME SearchTypeOK, NEW p \in {"document", "ask"}, LeaveFor(p), Input, Ask,
         boxOpen' \in BOOLEAN, UNCHANGED <<boxDraft, debounced, boxTimer>>
  PROVE  SearchTypeOK'
<1>1. params' \in Params /\ searchDraft' \in Drafts
  BY DraftTypes, AddressTypes DEF LeaveFor
<1>2. Request' \in Requests /\ BoxRequest' \in Requests
  BY <1>1, AddressTypes, BoxRequestType DEF Request, SearchTypeOK, BoxRequest
<1>3. HitsTyped' /\ searches' \subseteq {Request', BoxRequest'}
  BY <1>2, AskTypes DEF SearchTypeOK, HitsTyped
<1> QED
  BY <1>1, <1>3, InputTypes DEF LeaveFor, SearchTypeOK, HitsTyped

LEMMA SearchTypeStep ==
  SearchTypeOK /\ [SearchNext]_searchVars => SearchTypeOK'
<1> SUFFICES ASSUME SearchTypeOK, [SearchNext]_searchVars
             PROVE  SearchTypeOK'
  OBVIOUS
<1>0. Input => inputs' \in 0..MaxInputs
  BY InputTypes DEF SearchTypeOK
<1>1. ASSUME NEW d \in Drafts, TypeDraft(d)
      PROVE  SearchTypeOK'
  BY <1>0, <1>1
  DEF TypeDraft, SearchTypeOK, boxVars, searchCacheVars, TimerAfterTyping,
      Request, BoxRequest
<1>2. ASSUME NEW d \in Drafts, TypeInBox(d)
      PROVE  SearchTypeOK'
  BY <1>0, <1>2
  DEF TypeInBox, BoxOnly, SearchTypeOK, searchPageVars, searchCacheVars,
      Request, BoxRequest
<1>3. ASSUME NEW m \in Modes, SelectMode(m)
      PROVE  SearchTypeOK'
  <2>1. [params EXCEPT !.mode = m] \in Params
    BY AddressTypes DEF SearchTypeOK
  <2> QED
    BY <1>0, <1>3, <2>1, NavigateTypes DEF SelectMode, PatchParam
<1>4. ASSUME NEW f \in Filters, SelectReadiness(f)
      PROVE  SearchTypeOK'
  <2>1. [params EXCEPT !.ready = f] \in Params
    BY AddressTypes DEF SearchTypeOK
  <2> QED
    BY <1>0, <1>4, <2>1, NavigateTypes DEF SelectReadiness, PatchParam
<1>5. [params EXCEPT !.q = Trim(searchDraft)] \in Params
  BY AddressTypes, DraftTypes DEF SearchTypeOK
<1>6. CASE SubmitSearch
  <2>1. CASE IsNew(Trim(searchDraft))
    BY <1>0, <1>5, <1>6, <2>1, NavigateTypes DEF SubmitSearch
  <2>2. CASE ~IsNew(Trim(searchDraft))
    BY <1>0, <1>6, <2>2
    DEF SubmitSearch, SearchTypeOK, searchPageVars, boxVars, searchCacheVars,
        Request, BoxRequest
  <2> QED
    BY <2>1, <2>2
<1>7. CASE FireTimer
  <2>1. CASE IsNew(Trim(searchDraft))
    BY <1>5, <1>7, <2>1, NavigateTypes DEF FireTimer, SearchTypeOK
  <2>2. CASE ~IsNew(Trim(searchDraft))
    BY <1>7, <2>2
    DEF FireTimer, SearchTypeOK, boxVars, searchCacheVars, Request, BoxRequest
  <2> QED
    BY <2>1, <2>2
<1>8. CASE OpenResult
  BY <1>8, LeaveTypes DEF OpenResult, SearchTypeOK
<1>9. CASE AskAboutResults
  BY <1>9, LeaveTypes DEF AskAboutResults, SearchTypeOK
<1>10. CASE OpenHit
  BY <1>10, LeaveTypes DEF OpenHit, SearchTypeOK
<1>11. CASE ToggleBox
  BY <1>0, <1>11
  DEF ToggleBox, BoxOnly, SearchTypeOK, searchPageVars, searchCacheVars,
      Request, BoxRequest
<1>12. CASE FireBoxTimer
  <2>1. debounced' \in Words /\ params' = params
    BY <1>12, DraftTypes DEF FireBoxTimer, SearchTypeOK
  <2>2. Request' \in Requests /\ BoxRequest' \in Requests
    BY <2>1, AddressTypes, BoxRequestType
    DEF Request, SearchTypeOK, BoxRequest, Requests
  <2>3. HitsTyped' /\ searches' \subseteq {Request', BoxRequest'}
    BY <1>12, <2>2, AskTypes DEF FireBoxTimer, SearchTypeOK, HitsTyped
  <2> QED
    BY <1>12, <2>1, <2>3 DEF FireBoxTimer, SearchTypeOK, HitsTyped
<1>13. ASSUME NEW r \in searches, ArriveHits(r) \/ FailHits(r)
       PROVE  SearchTypeOK'
  BY <1>13
  DEF ArriveHits, FailHits, SearchTypeOK, searchPageVars, boxVars, Request,
      BoxRequest
<1>14. CASE UNCHANGED searchVars
  BY <1>14 DEF searchVars, SearchTypeOK, Request, BoxRequest
<1> QED
  BY <1>1, <1>2, <1>3, <1>4, <1>6, <1>7, <1>8, <1>9, <1>10, <1>11, <1>12,
     <1>13, <1>14 DEF SearchNext

\* Every variable keeps its type, and nothing is under way but what the page or
\* the box waits for, whatever can be typed and asked.
THEOREM SearchTypeCorrect == SearchSpec => []SearchTypeOK
  BY SearchTypeInit, SearchTypeStep, PTL DEF SearchSpec

-----------------------------------------------------------------------------
(* Tags.                                                                   *)

\* A request is about a tag, and a merge about another one, too.
TagCallTypes ==
  [kind : {"new", "edit", "color", "merge", "delete"}, tag : TagOrNone,
   target : TagOrNone, here : BOOLEAN]

TagCallsTyped == tagCalls \subseteq TagCallTypes

TagsInv == TagsTypeOK /\ TagCallsTyped

\* What the list counts is at most all documents.
LEMMA TagListType == TagList \in [TagIds -> 0..Cardinality(TaggedDocs) + 1]
<1>1. IsFiniteSet(TaggedDocs) /\ Cardinality(TaggedDocs) \in Nat
  BY TagsAssumption, FS_CardinalityType
<1>2. ASSUME NEW t \in TagIds
      PROVE  CountOf(t) \in 0..Cardinality(TaggedDocs)
  <2> DEFINE Having(u) ==
        {d \in TaggedDocs : u \in tagsOf[d] /\
                            (managedOn = "settings" => d \notin binned)}
  <2>1. Having(t) \subseteq TaggedDocs
    OBVIOUS
  <2>2. /\ Cardinality(Having(t)) <= Cardinality(TaggedDocs)
        /\ Cardinality(Having(t)) \in Nat
    BY <1>1, <2>1, FS_Subset, FS_CardinalityType
  <2>3. CountOf(t) = Cardinality(Having(t))
    BY DEF CountOf
  <2> HIDE DEF Having
  <2> QED
    BY <1>1, <2>2, <2>3
<1>3. ASSUME NEW t \in TagIds
      PROVE  (IF t \in tagRows THEN CountOf(t) + 1 ELSE 0)
               \in 0..Cardinality(TaggedDocs) + 1
  BY <1>1, <1>2, <1>3
<1> QED
  BY <1>3 DEF TagList

LEMMA TagListTypeNext ==
  TagList' \in [TagIds -> 0..Cardinality(TaggedDocs) + 1]
<1>1. (TagList \in [TagIds -> 0..Cardinality(TaggedDocs) + 1])'
  BY TagListType, PTL
<1> QED
  BY <1>1

LEMMA TagTypes ==
  /\ NoTag \in TagOrNone /\ TagIds \subseteq TagOrNone
  /\ MaxTagEdits \in Nat
  /\ tagEdits \in 0..MaxTagEdits /\ TagEdit => tagEdits' \in 0..MaxTagEdits
<1>1. MaxTagEdits \in Nat
  BY TagsAssumption
<1> QED
  BY <1>1 DEF TagOrNone, TagEdit

LEMMA TagsInit1 == TagsInit => TagsInv
<1> SUFFICES ASSUME TagsInit PROVE TagsInv
  OBVIOUS
<1>1. FirstTags \subseteq TagIds /\ 0 \in 0..MaxTagEdits
  BY TagsAssumption
<1>2. overview \in [TagIds -> 0..Cardinality(TaggedDocs) + 1]
  BY TagListType DEF TagsInit
<1> QED
  BY <1>1, <1>2, TagTypes
  DEF TagsInit, TagsInv, TagsTypeOK, TagCallsTyped, NoTagDialog

\* Tags move from one to another, or go: nothing else is on the documents.
LEMMA RetaggedTypes ==
  ASSUME TagsInv, NEW s, NEW t
  PROVE  /\ Untagged(s) \in [TaggedDocs -> SUBSET (tagRows \ {s})]
         /\ s # t /\ t \in tagRows =>
              Merged(s, t) \in [TaggedDocs -> SUBSET (tagRows \ {s})]
  BY DEF TagsInv, TagsTypeOK, Untagged, Merged

\* The answers keep the types.
LEMMA AnsweredTypes ==
  ASSUME TagsInv, NEW c \in tagCalls, NEW ok, TagAnswered(c, ok),
         tagRows' \subseteq TagIds, tagsOf' \in [TaggedDocs -> SUBSET tagRows'],
         binned' = binned
  PROVE  TagsInv'
  BY DEF TagsInv, TagsTypeOK, TagAnswered, TagCallsTyped, tagLoop, NoTagDialog,
         TagOrNone, TagCallTypes

\* A change of the forms keeps the types.
LEMMA FormsTypes ==
  ASSUME TagsInv, FormsOnly, nameTyped' \in BOOLEAN, mergeTarget' \in TagOrNone,
         tagDialog' \in [type : {"none", "new", "edit", "color", "merge",
                                 "delete", "delete-unused"}, tag : TagOrNone]
  PROVE  TagsInv'
  BY DEF TagsInv, TagsTypeOK, FormsOnly, TagCallsTyped, tagLoop, tagTables,
         TagCallTypes

LEMMA TagsStep1 == TagsInv /\ [TagsNext]_tagsVars => TagsInv'
<1> SUFFICES ASSUME TagsInv, [TagsNext]_tagsVars PROVE TagsInv'
  OBVIOUS
<1>0. /\ tagRows \subseteq TagIds /\ tagsOf \in [TaggedDocs -> SUBSET tagRows]
      /\ mergeTarget \in TagOrNone /\ nameTyped \in BOOLEAN
      /\ tagDialog \in [type : {"none", "new", "edit", "color", "merge",
                                "delete", "delete-unused"}, tag : TagOrNone]
      /\ tagCalls \subseteq TagCallTypes
  BY DEF TagsInv, TagsTypeOK, TagCallsTyped
<1>1. CASE FetchTags
  BY <1>1, TagListType
  DEF FetchTags, TagsInv, TagsTypeOK, TagCallsTyped, tagTables, tagForms,
      tagLoop, TagCallTypes
<1>2. CASE OpenTagPage
  <2>1. TagList' \in [TagIds -> 0..Cardinality(TaggedDocs) + 1]
    BY TagListTypeNext
  <2>2. \A c \in TagCallTypes : [c EXCEPT !.here = FALSE] \in TagCallTypes
    BY DEF TagCallTypes
  <2>3. tagCalls' \subseteq TagCallTypes
    BY <1>0, <1>2, <2>2 DEF OpenTagPage
  <2>4. \A c \in tagCalls' : {c.tag, c.target} \subseteq TagOrNone
    BY <2>3 DEF TagCallTypes
  <2> QED
    BY <1>2, <2>1, <2>3, <2>4, TagTypes
    DEF OpenTagPage, TagsInv, TagsTypeOK, TagCallsTyped, tagTables,
        NoTagDialog
<1>3. CASE OpenNewTag
  BY <1>0, <1>3, FormsTypes, TagTypes DEF OpenNewTag, TagDialog
<1>4. CASE OpenDeleteUnused
  BY <1>0, <1>4, FormsTypes, TagTypes DEF OpenDeleteUnused, TagDialog
<1>5. CASE CloseTagDialog
  BY <1>0, <1>5, FormsTypes, TagTypes DEF CloseTagDialog, NoTagDialog
<1>6. CASE TypeTagName
  BY <1>0, <1>6, FormsTypes DEF TypeTagName
<1>7. CASE SubmitTagDialog
  <2> DEFINE target == IF tagDialog.type = "merge" THEN mergeTarget ELSE NoTag
             call == TagCall(tagDialog.type, tagDialog.tag, target)
  <2>1. call \in TagCallTypes
    BY <1>0, <1>7, TagTypes
    DEF SubmitTagDialog, TagSubmitOffered, TagCall, TagCallTypes
  <2>2. SendTagCall(call)
    BY <1>7 DEF SubmitTagDialog
  <2> HIDE DEF call
  <2>3. tagCalls' \subseteq TagCallTypes
    BY <1>0, <2>1, <2>2 DEF SendTagCall
  <2>4. \A c \in tagCalls' : {c.tag, c.target} \subseteq TagOrNone
    BY <2>3 DEF TagCallTypes
  <2> QED
    BY <2>2, <2>3, <2>4, TagTypes
    DEF SendTagCall, TagsInv, TagsTypeOK, TagCallsTyped, tagTables, tagForms,
        tagLoop
<1>8. CASE SubmitDeleteUnused
  BY <1>8, TagTypes
  DEF SubmitDeleteUnused, TagsInv, TagsTypeOK, TagCallsTyped, tagTables,
      NoTagDialog, Unused
<1>9. ASSUME NEW t \in TagIds, ChooseTarget(t)
      PROVE  TagsInv'
  BY <1>0, <1>9, FormsTypes, TagTypes DEF ChooseTarget
<1>10. ASSUME NEW t \in TagIds, DeleteUnused(t)
       PROVE  TagsInv'
  <2>1. /\ tagRows' = tagRows \ {t}
        /\ tagsOf' \in [TaggedDocs -> SUBSET tagRows']
    BY <1>10, RetaggedTypes DEF DeleteUnused
  <2> QED
    BY <1>10, <2>1, TagTypes
    DEF DeleteUnused, TagsInv, TagsTypeOK, TagCallsTyped, NoTagDialog
<1>11. ASSUME NEW t \in TagIds, NEW type \in {"edit", "color", "merge", "delete"},
              OpenTagDialog(type, t)
       PROVE  TagsInv'
  BY <1>0, <1>11, FormsTypes, TagTypes
  DEF OpenTagDialog, TagDialog, TargetAtFirst
<1>12. ASSUME NEW d \in TaggedDocs, NEW t \in TagIds, PutTag(d, t)
       PROVE  TagsInv'
  <2>1. tagsOf' \in [TaggedDocs -> SUBSET tagRows]
    BY <1>0, <1>12 DEF PutTag
  <2> QED
    BY <1>12, <2>1, TagTypes
    DEF PutTag, TagsInv, TagsTypeOK, TagCallsTyped, tagForms, tagLoop
<1>13. ASSUME NEW d \in TaggedDocs, TrashOrRestore(d)
       PROVE  TagsInv'
  BY <1>13, TagTypes
  DEF TrashOrRestore, TagsInv, TagsTypeOK, TagCallsTyped, tagForms, tagLoop
<1>14. ASSUME NEW c \in tagCalls, ServeCreateTag(c)
       PROVE  TagsInv'
  <2>1. PICK taken \in BOOLEAN :
          /\ tagRows = TagIds => taken
          /\ tagRows' = IF taken THEN tagRows
                        ELSE tagRows \cup
                               {CHOOSE t \in TagIds : t \notin tagRows}
          /\ TagAnswered(c, ~taken)
    BY <1>14 DEF ServeCreateTag
  <2>2. tagRows # TagIds => (CHOOSE t \in TagIds : t \notin tagRows) \in TagIds
    BY <1>0
  <2>3. tagRows \subseteq tagRows' /\ tagRows' \subseteq TagIds
    BY <1>0, <2>1, <2>2
  <2>4. tagsOf' \in [TaggedDocs -> SUBSET tagRows'] /\ binned' = binned
    BY <1>0, <1>14, <2>3 DEF ServeCreateTag
  <2> QED
    BY <2>1, <2>3, <2>4, AnsweredTypes
<1>15. ASSUME NEW c \in tagCalls, ServeUpdateTag(c)
       PROVE  TagsInv'
  BY <1>0, <1>15, AnsweredTypes DEF ServeUpdateTag, tagTables
<1>16. ASSUME NEW c \in tagCalls, ServeDeleteTag(c)
       PROVE  TagsInv'
  <2>1. tagsOf' \in [TaggedDocs -> SUBSET tagRows']
    BY <1>16, RetaggedTypes DEF ServeDeleteTag
  <2> QED
    BY <1>0, <1>16, <2>1, AnsweredTypes DEF ServeDeleteTag
<1>17. ASSUME NEW c \in tagCalls, ServeMergeTags(c)
       PROVE  TagsInv'
  <2>1. tagsOf' \in [TaggedDocs -> SUBSET tagRows']
    BY <1>0, <1>17, RetaggedTypes DEF ServeMergeTags
  <2>2. tagRows' \subseteq TagIds /\ binned' = binned
    BY <1>0, <1>17 DEF ServeMergeTags
  <2>3. TagAnswered(c, c.tag # c.target /\ {c.tag, c.target} \subseteq tagRows)
    BY <1>17 DEF ServeMergeTags
  <2> QED
    BY <2>1, <2>2, <2>3, AnsweredTypes
<1>18. CASE UNCHANGED tagsVars
  BY <1>18 DEF tagsVars, TagsInv, TagsTypeOK, TagCallsTyped, TagCallTypes
<1> QED
  BY <1>1, <1>2, <1>3, <1>4, <1>5, <1>6, <1>7, <1>8, <1>9, <1>10, <1>11,
     <1>12, <1>13, <1>14, <1>15, <1>16, <1>17, <1>18 DEF TagsNext

\* Every variable keeps its type, and whatever is merged, deleted and put on
\* documents meanwhile, documents have no tags but those that are there
\* (services/tags.py).
THEOREM TagsTypeCorrect == TagsSpec => []TagsTypeOK
<1>1. TagsInv => TagsTypeOK
  BY DEF TagsInv
<1> QED
  BY <1>1, TagsInit1, TagsStep1, PTL DEF TagsSpec

\* A merge leaves no document without a tag that had one, be the two tags both
\* on it, or gone by the time the request is served (merge_tags).
THEOREM MergesKeepTags == TagsSpec => MergeKeepsTagged
<1>1. ASSUME TagsTypeOK, NEW c \in tagCalls, NEW d \in TaggedDocs,
             ServeMergeTags(c), tagsOf[d] # {}
      PROVE  tagsOf'[d] # {}
  <2>1. Merged(c.tag, c.target)[d] # {}
    BY <1>1 DEF Merged
  <2> QED
    BY <1>1, <2>1 DEF ServeMergeTags
<1>2. TagsTypeOK /\ [TagsNext]_tagsVars =>
        [\A c \in tagCalls : \A d \in TaggedDocs :
           ServeMergeTags(c) /\ tagsOf[d] # {} => tagsOf'[d] # {}]_tagsVars
  BY <1>1
<1> QED
  BY <1>2, TagsTypeCorrect, PTL DEF TagsSpec, MergeKeepsTagged
=============================================================================
