-------------------------------- MODULE Viewer --------------------------------
(***************************************************************************)
(* The document viewer over the library page: the parameters doc and       *)
(* viewerPage of the address (useDocumentsLibraryState.ts), the dialog     *)
(* that they open (features/documents/DocumentViewerModal.tsx) and the     *)
(* viewer in it (components/viewer/DocumentViewer.tsx), which downloads a  *)
(* document and has pdf.js open it while the user may be at the next.      *)
(*                                                                         *)
(* Every change of the address is made from the address that the handler   *)
(* was rendered with.                                                      *)
(***************************************************************************)
EXTENDS Naturals, Sequences, FiniteSets

CONSTANTS
  ViewerDocs,  \* the documents
  Pdfs,        \* those that are PDFs; the others are texts and images
  PdfLength,   \* how many pages a PDF has
  MaxEntries,  \* bound: entries of the browser's history
  MaxOpens     \* bound: how often a document is opened

ASSUME ViewerAssumption ==
  /\ Pdfs \subseteq ViewerDocs /\ PdfLength \in Nat \ {0}
  /\ MaxEntries \in Nat /\ MaxOpens \in Nat

VARIABLES
  url,         \* the address; page 1 stands for no viewerPage
  pastUrls,    \* the entries before it in the browser's history
  opens,       \* how often a document was opened
  viewed,      \* the data of useDocument: what the viewer is given
  askOpen,     \* the Ask panel instead of the inspector
  highlight,   \* the quote of a citation, with the document it is of
  confirming,  \* confirmTrash
  trashCalls,  \* the requests of handleTrash, with the address it will go from
  loads,       \* the downloads that run
  loadCount,   \* how many so far
  current,     \* the one whose effect has not been cleaned up, or 0
  objectUrls,  \* the downloads that hold an object URL
  proxies,     \* the downloads that hold a document of pdf.js
  content,     \* what the viewer shows
  innerPage    \* page, the viewer's own

viewerVars ==
  <<url, pastUrls, opens, viewed, askOpen, highlight, confirming, trashCalls,
    loads, loadCount, current, objectUrls, proxies, content, innerPage>>
loadVars == <<loads, loadCount, current, objectUrls, proxies, content>>
dialogVars == <<askOpen, highlight, confirming>>

-----------------------------------------------------------------------------
NoDocument == "none"
HomeUrl == [folder |-> "all", doc |-> NoDocument, page |-> 1]
NoHighlight == [doc |-> NoDocument, page |-> 0]
NoContent == [doc |-> NoDocument, kind |-> "none", pages |-> 1]
Content(d, kind, n) == [doc |-> d, kind |-> kind, pages |-> n]

PagesIn(d) == IF d \in Pdfs THEN PdfLength ELSE 1

ViewerOpen == url.doc # NoDocument
DocumentShown == ViewerOpen /\ viewed = url.doc

\* openDocument, closeDocument and setViewerPage.
Opened(u, d, p) == [u EXCEPT !.doc = d, !.page = p]
Closed(u) == [u EXCEPT !.doc = NoDocument, !.page = 1]
AtPage(u, p) == [u EXCEPT !.page = p]

\* The page of the address if it has one, else the viewer's own.
CurrentPage == IF url.page > 1 THEN url.page ELSE innerPage

-----------------------------------------------------------------------------
(* What follows a change of the address.                                   *)

Push(u) ==
  /\ Len(pastUrls) < MaxEntries
  /\ url' = u /\ pastUrls' = Append(pastUrls, url)
Replace(u) == url' = u /\ UNCHANGED pastUrls

\* The clean-up of the effect of the viewer that loads, and its new run: it
\* starts with nothing, at page 1 of its own, and for a document that has come
\* with a download.
Reload(d) ==
  LET isGiven == d # NoDocument
      n == loadCount + 1
  IN  /\ loads' = {[l EXCEPT !.cancelled = TRUE] : l \in loads} \cup
                    (IF isGiven THEN {[n |-> n, doc |-> d, step |-> "fetch",
                                     cancelled |-> FALSE]} ELSE {})
      /\ loadCount' = IF isGiven THEN n ELSE loadCount
      /\ current' = IF isGiven THEN n ELSE 0
      /\ objectUrls' = objectUrls \ {current}
      /\ proxies' = proxies \ {current}
      /\ content' = NoContent
      /\ innerPage' = 1

\* Mutant: the quote is kept.
HighlightKept == highlight

HighlightAfter == NoHighlight

\* The effects of the dialog on another document: what it shows is there at
\* once only if it was fetched before.
FollowUrl ==
  IF url'.doc = url.doc
  THEN /\ innerPage' = IF url'.page > 1 THEN url'.page ELSE innerPage
       /\ UNCHANGED <<viewed, askOpen, highlight, loadVars>>
  ELSE /\ viewed' \in {NoDocument, url'.doc}
       /\ askOpen' = FALSE
       /\ highlight' = HighlightAfter
       /\ Reload(viewed')

FetchDocument ==
  /\ ViewerOpen /\ viewed = NoDocument
  /\ viewed' = url.doc
  /\ UNCHANGED url /\ Reload(url.doc)
  /\ UNCHANGED <<pastUrls, opens, dialogVars, trashCalls>>

-----------------------------------------------------------------------------
(* The library page and the browser.                                       *)

\* A row of the list, a card, a hit of a search: at a page of that document.
OpenDocument(d, p) ==
  /\ ~ViewerOpen /\ ~confirming /\ p <= PagesIn(d) /\ opens < MaxOpens
  /\ opens' = opens + 1
  /\ Push(Opened(url, d, p))
  /\ FollowUrl
  /\ UNCHANGED <<confirming, trashCalls>>

SelectFolderOfTree(f) ==
  /\ ~ViewerOpen /\ ~confirming /\ f # url.folder
  /\ Push([url EXCEPT !.folder = f])
  /\ FollowUrl
  /\ UNCHANGED <<opens, confirming, trashCalls>>

GoBack ==
  /\ pastUrls # <<>>
  /\ url' = pastUrls[Len(pastUrls)]
  /\ pastUrls' = SubSeq(pastUrls, 1, Len(pastUrls) - 1)
  /\ FollowUrl
  /\ UNCHANGED <<opens, confirming, trashCalls>>

-----------------------------------------------------------------------------
(* The dialog.                                                             *)

CloseViewer ==
  /\ ViewerOpen /\ ~confirming
  /\ Replace(Closed(url))
  /\ FollowUrl
  /\ UNCHANGED <<opens, confirming, trashCalls>>

\* onNavigateToFolder: the second change is made from the address that the
\* first was to take the document from.
NavigateToFolder(f) ==
  /\ DocumentShown /\ ~confirming
  /\ Len(pastUrls) < MaxEntries
  /\ pastUrls' = Append(pastUrls, Closed(url))
  /\ url' = [url EXCEPT !.folder = f]
  /\ FollowUrl
  /\ UNCHANGED <<opens, confirming, trashCalls>>

ToggleAsk ==
  /\ DocumentShown /\ ~confirming
  /\ askOpen' = ~askOpen
  /\ UNCHANGED <<url, pastUrls, opens, viewed, highlight, confirming,
                 trashCalls, loadVars, innerPage>>

\* handleCitation, from the panel: the answers about a document cite it alone.
HandleCitation(p, quoted) ==
  /\ DocumentShown /\ askOpen /\ ~confirming /\ p <= PagesIn(url.doc)
  /\ Replace(AtPage(url, p))
  /\ highlight' = IF quoted THEN [doc |-> url.doc, page |-> p] ELSE NoHighlight
  /\ innerPage' = IF p > 1 THEN p ELSE innerPage
  /\ UNCHANGED <<opens, viewed, askOpen, confirming, trashCalls, loadVars>>

\* What viewerHighlightQuote gives the viewer.
QuoteShown ==
  highlight # NoHighlight /\ url.page > 1 /\ highlight.page = url.page

AskTrash ==
  /\ DocumentShown /\ ~confirming /\ trashCalls = {}
  /\ confirming' = TRUE
  /\ UNCHANGED <<url, pastUrls, opens, viewed, askOpen, highlight, trashCalls,
                 loadVars, innerPage>>
CancelTrash ==
  /\ confirming /\ confirming' = FALSE
  /\ UNCHANGED <<url, pastUrls, opens, viewed, askOpen, highlight, trashCalls,
                 loadVars, innerPage>>

NewTrash == [doc |-> viewed, from |-> url]

\* handleTrash, until its await; the dialog may be closed meanwhile.
HandleTrash ==
  /\ confirming /\ viewed # NoDocument /\ trashCalls = {}
  /\ trashCalls' = {NewTrash}
  /\ UNCHANGED <<url, pastUrls, opens, viewed, dialogVars, loadVars,
                 innerPage>>

\* The rest of handleTrash: the address of the time it was clicked, without the
\* document.
ArriveTrash(c) ==
  /\ confirming' = FALSE
  /\ trashCalls' = trashCalls \ {c}
  /\ Replace(Closed(c.from))
  /\ FollowUrl
  /\ UNCHANGED opens

\* The request fails: nobody catches the error.
FailTrash(c) ==
  /\ trashCalls' = trashCalls \ {c}
  /\ UNCHANGED <<url, pastUrls, opens, viewed, dialogVars, loadVars,
                 innerPage>>

-----------------------------------------------------------------------------
(* The viewer.                                                             *)

\* Mutant: a download that ends late is not told apart.
NeverCancelled(l) == FALSE

Cancelled(l) == l.cancelled

ProxiesAfter(l) == IF Cancelled(l) THEN proxies ELSE proxies \cup {l.n}

Show(d, kind, n) == content' = Content(d, kind, n)

ViewerOnly == UNCHANGED <<url, pastUrls, opens, viewed, dialogVars, trashCalls,
                          loadCount, current, innerPage>>

\* The bytes arrive: text and images are shown by their object URL, a PDF goes
\* to pdf.js.
ArriveBytes(l) ==
  /\ l.step = "fetch"
  /\ IF Cancelled(l)
     THEN loads' = loads \ {l} /\ UNCHANGED <<objectUrls, content>>
     ELSE /\ objectUrls' = objectUrls \cup {l.n}
          /\ IF l.doc \notin Pdfs
             THEN loads' = loads \ {l} /\ Show(l.doc, "native", 1)
             ELSE /\ loads' = (loads \ {l}) \cup {[l EXCEPT !.step = "parse"]}
                  /\ UNCHANGED content
  /\ UNCHANGED proxies
  /\ ViewerOnly

FailBytes(l) ==
  /\ l.step = "fetch"
  /\ loads' = loads \ {l}
  /\ IF Cancelled(l) THEN UNCHANGED content ELSE Show(l.doc, "error", 1)
  /\ UNCHANGED <<objectUrls, proxies>>
  /\ ViewerOnly

ArrivePdf(l) ==
  /\ l.step = "parse"
  /\ loads' = loads \ {l}
  /\ proxies' = ProxiesAfter(l)
  /\ IF Cancelled(l) THEN UNCHANGED content
     ELSE Show(l.doc, "pdf", PagesIn(l.doc))
  /\ UNCHANGED objectUrls
  /\ ViewerOnly

\* pdf.js does not understand it: the browser's own viewer instead.
FailPdf(l) ==
  /\ l.step = "parse"
  /\ loads' = loads \ {l}
  /\ IF Cancelled(l) THEN UNCHANGED content ELSE Show(l.doc, "native", 1)
  /\ UNCHANGED <<objectUrls, proxies>>
  /\ ViewerOnly

\* The buttons for the previous and the next page.
PageOffered(p) ==
  /\ DocumentShown /\ ~confirming /\ content.kind = "pdf"
  /\ p \in {CurrentPage - 1, CurrentPage + 1} /\ p \in 1..content.pages

GoToPage(p) ==
  /\ PageOffered(p)
  /\ Replace(AtPage(url, p))
  /\ innerPage' = p
  /\ UNCHANGED <<opens, viewed, dialogVars, trashCalls, loadVars>>

-----------------------------------------------------------------------------
ViewerInit ==
  /\ url = HomeUrl /\ pastUrls = <<>> /\ opens = 0
  /\ viewed = NoDocument /\ askOpen = FALSE /\ highlight = NoHighlight
  /\ confirming = FALSE /\ trashCalls = {}
  /\ loads = {} /\ loadCount = 0 /\ current = 0
  /\ objectUrls = {} /\ proxies = {} /\ content = NoContent
  /\ innerPage = 1

PageNumbers == 1..PdfLength

ViewerNext ==
  \/ FetchDocument \/ GoBack \/ CloseViewer \/ ToggleAsk
  \/ \E d \in ViewerDocs, p \in PageNumbers : OpenDocument(d, p)
  \/ \E f \in {"all", "f1"} : SelectFolderOfTree(f) \/ NavigateToFolder(f)
  \/ \E p \in PageNumbers :
       GoToPage(p) \/ \E q \in BOOLEAN : HandleCitation(p, q)
  \/ AskTrash \/ CancelTrash \/ HandleTrash
  \/ \E c \in trashCalls : ArriveTrash(c) \/ FailTrash(c)
  \/ \E l \in loads :
       ArriveBytes(l) \/ FailBytes(l) \/ ArrivePdf(l) \/ FailPdf(l)

ViewerSpec == ViewerInit /\ [][ViewerNext]_viewerVars

-----------------------------------------------------------------------------
(* Properties.                                                             *)

Documents == ViewerDocs \cup {NoDocument}
UrlType == [folder : {"all", "f1"}, doc : Documents, page : PageNumbers]

\* Every variable keeps its type.
ViewerTypeOK ==
  /\ url \in UrlType
  /\ pastUrls \in Seq(UrlType) /\ Len(pastUrls) <= MaxEntries
  /\ opens \in 0..MaxOpens /\ viewed \in Documents
  /\ askOpen \in BOOLEAN /\ confirming \in BOOLEAN
  /\ highlight \in [doc : Documents, page : PageNumbers \cup {0}]
  /\ trashCalls \subseteq [doc : ViewerDocs, from : UrlType]
  /\ loads \subseteq [n : 1..loadCount, doc : ViewerDocs,
                     step : {"fetch", "parse"}, cancelled : BOOLEAN]
  /\ loadCount \in Nat /\ current \in 0..loadCount
  /\ content \in [doc : Documents, kind : {"none", "native", "pdf", "error"},
                   pages : PageNumbers]
  /\ innerPage \in PageNumbers

\* The viewer shows the document that it was given: the bytes of one that was
\* opened before, arriving late, are not shown under the title of another.
ShownIsViewed == content.doc \in {NoDocument, viewed}

\* However documents are opened and closed while they load, the viewer holds on
\* to nothing but the object URL and the pdf.js document of the one it shows.
NothingIsLeaked == objectUrls \cup proxies \subseteq {current}

\* A quote is never marked in another document than the one that the answer
\* cites, however the document is left and the next one opened.
HighlightIsOfDocument == QuoteShown => highlight.doc = url.doc
=============================================================================
