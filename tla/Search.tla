-------------------------------- MODULE Search --------------------------------
(***************************************************************************)
(* Searching while one types: the box of the navigation bar                *)
(* (components/layout/NavbarSearch.tsx), which waits for a pause and shows *)
(* a panel of hits, and the search page                                    *)
(* (components/search/SearchWorkspace.tsx), whose draft and address follow *)
(* each other through two effects.  Both ask through useSearch, which      *)
(* keeps answers by their request and shows the last one while the next is *)
(* under way.                                                              *)
(***************************************************************************)
EXTENDS Naturals

CONSTANTS
  Drafts,    \* what can be typed, <<word, blank at its end>>; "" is no word
  Modes,     \* the modes of a search on the page
  MaxInputs  \* bound: what the user does

ASSUME SearchAssumption ==
  /\ Drafts \subseteq STRING \X BOOLEAN /\ <<"", FALSE>> \in Drafts
  /\ \A d \in Drafts : <<d[1], FALSE>> \in Drafts
  /\ "hybrid" \in Modes /\ "box" \notin Modes /\ MaxInputs \in Nat

VARIABLES
  inputs,       \* how often the user did something
  searchPlace,  \* the page that is shown: "search", "document" or "ask"
  searchDraft,  \* the page's draft
  params,       \* its address: the query, the mode and the other filters
  timer,        \* its timer is set
  boxDraft,     \* the box's draft
  debounced,    \* what the box searches for
  boxTimer,     \* its timer is set
  boxOpen,      \* open, its panel
  searches,     \* the requests that run
  answers,      \* the requests with an answer in the cache
  shownHits,    \* what the page shows when it has no answer of its own
  boxShown      \* and the box

searchVars ==
  <<inputs, searchPlace, searchDraft, params, timer, boxDraft, debounced,
    boxTimer, boxOpen, searches, answers, shownHits, boxShown>>
searchPageVars == <<searchPlace, searchDraft, params, timer, shownHits>>
boxVars == <<boxDraft, debounced, boxTimer, boxOpen, boxShown>>
searchCacheVars == <<searches, answers>>

-----------------------------------------------------------------------------
NoWord == ""
Empty == <<NoWord, FALSE>>
Trim(d) == d[1]
Clean(word) == <<word, FALSE>>
Words == {d[1] : d \in Drafts}
Filters == {"any", "indexed"}
Params == [q : Words, mode : Modes, ready : Filters]

NothingAsked == [q |-> NoWord, mode |-> "none", ready |-> "any"]
\* The request of the page, and that of the box.
Request == params
BoxRequest == [q |-> debounced, mode |-> "box", ready |-> "any"]
Enabled(r) == r.q # NoWord

\* A request is its own key in the cache.
HasAnswer(r) == r \in answers
Running(r) == r \in searches

\* The hits that are shown: those of the request, or what was shown before
\* (placeholderData) while it runs.
HitsFor(r, before) ==
  IF ~Enabled(r) THEN NothingAsked
  ELSE IF HasAnswer(r) THEN r
  ELSE IF Running(r) THEN before
  ELSE NothingAsked
Hits == HitsFor(Request, shownHits)
BoxHits == HitsFor(BoxRequest, boxShown)

\* The panel of the box, and the results of the page.
PanelShown == boxOpen /\ Trim(boxDraft) # NoWord
ResultsShown ==
  searchPlace = "search" /\ Enabled(Request) /\ Hits # NothingAsked

Input == inputs < MaxInputs /\ inputs' = inputs + 1

Needed(r) ==
  Enabled(r) /\ r \notin {Request, BoxRequest} /\ ~HasAnswer(r) /\ ~Running(r)
\* What useSearch does when the request of either changes: one that nobody waits
\* for is aborted, the new one is sent unless there is an answer, and what was
\* shown is kept to be shown meanwhile.
Ask ==
  LET rs == {Request', BoxRequest'}
  IN  /\ searches' = (searches \cap rs) \cup {r \in rs : Needed(r)}
      /\ shownHits' = IF Hits # NothingAsked THEN Hits ELSE shownHits
      /\ boxShown' = IF BoxHits # NothingAsked THEN BoxHits ELSE boxShown
      /\ UNCHANGED answers

ArriveHits(r) ==
  /\ searches' = searches \ {r} /\ answers' = answers \cup {r}
  /\ UNCHANGED <<inputs, searchPageVars, boxVars>>

FailHits(r) ==
  /\ searches' = searches \ {r}
  /\ UNCHANGED <<inputs, searchPageVars, boxVars, answers>>

-----------------------------------------------------------------------------
(* The search page.                                                        *)

\* A new address: the first effect makes the draft what the address says, the
\* second one sets the timer.
Navigate(p) ==
  /\ params' = p
  /\ searchDraft' = Clean(p.q)
  /\ timer' = TRUE
  /\ UNCHANGED <<searchPlace, boxDraft, debounced, boxTimer, boxOpen>>
  /\ Ask

\* Mutant: the draft is not among what the effect depends on.
TimerUntouched == timer

TimerAfterTyping == TRUE

TypeDraft(d) ==
  /\ searchPlace = "search" /\ Input /\ d # searchDraft
  /\ searchDraft' = d /\ timer' = TimerAfterTyping
  /\ UNCHANGED <<searchPlace, params, shownHits, boxVars, searchCacheVars>>

IsNew(word) == word # params.q

\* The pause after the last change is over.
FireTimer ==
  /\ timer
  /\ IF IsNew(Trim(searchDraft))
     THEN Navigate([params EXCEPT !.q = Trim(searchDraft)]) /\ UNCHANGED inputs
     ELSE /\ timer' = FALSE
          /\ UNCHANGED <<inputs, searchPlace, searchDraft, params, shownHits,
                         boxVars, searchCacheVars>>

\* patchParam, of the mode and of the other filters, over the address as it is.
ModeOffered(m) == searchPlace = "search" /\ m # params.mode
PatchParam(p) ==
  /\ Input /\ p # params
  /\ Navigate(p)
SelectMode(m) == ModeOffered(m) /\ PatchParam([params EXCEPT !.mode = m])
SelectReadiness(f) ==
  searchPlace = "search" /\ PatchParam([params EXCEPT !.ready = f])

SubmitSearch ==
  /\ searchPlace = "search" /\ Trim(searchDraft) # NoWord
  /\ ~Running(Request) /\ Input
  /\ IF IsNew(Trim(searchDraft))
     THEN Navigate([params EXCEPT !.q = Trim(searchDraft)])
     ELSE UNCHANGED <<searchPageVars, boxVars, searchCacheVars>>

\* A hit of the results, one of its evidence, or "Ask Folium about these
\* results": another page, and nothing of this one stays.
LeaveFor(p) ==
  /\ searchPlace' = p
  /\ params' = [NothingAsked EXCEPT !.mode = "hybrid"] /\ searchDraft' = Empty
  /\ timer' = FALSE
OpenResult == /\ ResultsShown /\ Input
              /\ LeaveFor("document")
              /\ UNCHANGED <<boxDraft, debounced, boxTimer, boxOpen>> /\ Ask
AskAboutResults == /\ ResultsShown /\ Input
                   /\ LeaveFor("ask")
                   /\ UNCHANGED <<boxDraft, debounced, boxTimer,
                                  boxOpen>> /\ Ask

-----------------------------------------------------------------------------
(* The box.                                                                *)

BoxOnly == UNCHANGED <<searchPageVars, debounced, boxShown, searchCacheVars>>

TypeInBox(d) ==
  /\ Input /\ d # boxDraft
  /\ boxDraft' = d /\ boxTimer' = TRUE /\ boxOpen' = TRUE
  /\ BoxOnly

\* A click beside it or Escape, and "/", Ctrl-K or a click into it.
ToggleBox ==
  /\ Input /\ boxOpen' = ~boxOpen
  /\ UNCHANGED <<boxDraft, boxTimer>> /\ BoxOnly

FireBoxTimer ==
  /\ boxTimer
  /\ boxTimer' = FALSE /\ debounced' = Trim(boxDraft)
  /\ UNCHANGED <<inputs, searchPlace, searchDraft, params, timer, boxDraft,
                 boxOpen>>
  /\ Ask

\* openHit, by a click into the panel or by Enter, which takes the first one.
OpenHit ==
  /\ BoxHits # NothingAsked /\ Input
  /\ boxOpen' = FALSE
  /\ LeaveFor("document")
  /\ UNCHANGED <<boxDraft, debounced, boxTimer>>
  /\ Ask

-----------------------------------------------------------------------------
SearchInit ==
  /\ inputs = 0 /\ searchPlace = "search"
  /\ searchDraft = Empty /\ params = [NothingAsked EXCEPT !.mode = "hybrid"]
  /\ timer = TRUE
  /\ boxDraft = Empty /\ debounced = NoWord /\ boxTimer = TRUE
  /\ boxOpen = FALSE
  /\ searches = {} /\ answers = {}
  /\ shownHits = NothingAsked /\ boxShown = NothingAsked

SearchNext ==
  \/ \E d \in Drafts : TypeDraft(d) \/ TypeInBox(d)
  \/ \E m \in Modes : SelectMode(m)
  \/ \E f \in Filters : SelectReadiness(f)
  \/ SubmitSearch \/ OpenResult \/ AskAboutResults \/ ToggleBox \/ OpenHit
  \/ FireTimer \/ FireBoxTimer
  \/ \E r \in searches : ArriveHits(r) \/ FailHits(r)

\* Timers fire; a user need not do anything, nor the server answer.
SearchFairness == WF_searchVars(FireTimer) /\ WF_searchVars(FireBoxTimer)

SearchSpec == SearchInit /\ [][SearchNext]_searchVars /\ SearchFairness

-----------------------------------------------------------------------------
(* Properties.                                                             *)

Requests ==
  Params \cup [q : Words, mode : {"box", "none"}, ready : {"any"}]

\* Every variable keeps its type; what is asked for is what the page or the box
\* waits for.
SearchTypeOK ==
  /\ inputs \in 0..MaxInputs /\ searchPlace \in {"search", "document", "ask"}
  /\ searchDraft \in Drafts /\ params \in Params /\ timer \in BOOLEAN
  /\ boxDraft \in Drafts /\ debounced \in Words
  /\ boxTimer \in BOOLEAN /\ boxOpen \in BOOLEAN
  /\ searches \cup answers \cup {shownHits, boxShown} \subseteq Requests
  /\ searches \subseteq {Request, BoxRequest}

\* The draft and the address, each of which an effect makes follow the other,
\* come to agree and stay so, and no timer is set any more.
SearchSettles ==
  <>[](/\ ~timer /\ ~boxTimer /\ debounced = Trim(boxDraft)
       /\ searchPlace = "search" => Trim(searchDraft) = params.q)
=============================================================================
