-------------------------------- MODULE AskChat --------------------------------
(***************************************************************************)
(* A single question with a scope (components/ask/AIChatPanel.tsx), in the *)
(* drawer of a page (AIChatDrawer, whose page gives it a scope) or in the  *)
(* dock in the corner (AskFoliumDock), and the server's check of a remote  *)
(* provider (api/ask.py).                                                  *)
(*                                                                         *)
(* The scope can be changed, and the page can give another one, while the  *)
(* answer is on its way.                                                   *)
(***************************************************************************)
EXTENDS Naturals

CONSTANTS
  ScopeKinds,     \* the kinds of scope (bound: those that are followed)
  Targets,        \* what a scope may point at: folders, documents, searches
  MaxQuestions    \* bound: how many questions are typed

AllScopeKinds ==
  {"library", "folder", "folder_tree", "documents", "document", "search"}

ASSUME AskChatAssumption ==
  /\ "library" \in ScopeKinds /\ ScopeKinds \subseteq AllScopeKinds
  /\ MaxQuestions \in Nat

VARIABLES
  place,        \* where the panel is: "closed", "drawer" or "dock"
  given,        \* initialScope
  scope,        \* the scope that is selected
  question,     \* what is typed; 0 is nothing
  typedSoFar,   \* how many questions were typed
  response,     \* the answer that is shown
  pendingRemote,\* the request that was refused
  ask,          \* the request that is under way
  remote,       \* the server: chat is assigned to a remote provider
  warns,        \* the server: warn_before_remote
  seenWarns,    \* the client's copy of it: useAICapabilities
  available,    \* the client's copy of the state of chat: useAIHealth
  refusedSince  \* history: a question was refused, and none answered since

askChatVars ==
  <<place, given, scope, question, typedSoFar, response, pendingRemote, ask,
    remote, warns, seenWarns, available, refusedSince>>

-----------------------------------------------------------------------------
(* Scopes and requests.                                                    *)

NoTarget == "none"
FolderKinds == {"folder", "folder_tree"} \cap ScopeKinds

Scope(kind, target) == [kind |-> kind, target |-> target]
Library == Scope("library", NoTarget)
AllScopes == [kind : ScopeKinds, target : Targets \cup {NoTarget}]

\* scopeToRequest.
AskBody(s, q, confirm) == [scope |-> s, question |-> q, confirm |-> confirm]
NoBody == AskBody(Library, 0, FALSE)

NoResponse == [shown |-> FALSE, scope |-> Library, moved |-> FALSE]

NoAsk == [at |-> "none", body |-> NoBody, moved |-> FALSE]
NewAsk(body) == [NoAsk EXCEPT !.at = "sent", !.body = body]

AskPending == ask.at # "none"

\* The scope that a page gives its drawer.
Givable(s) == (s.kind = "library") = (s.target = NoTarget)

\* The early returns of submit: a scope that has to point at something.
ScopeFits(s) == s.kind = "library" \/ s.target # NoTarget

-----------------------------------------------------------------------------
(* The panel.                                                              *)

\* The effect on the scope that is given: everything starts anew, but not the
\* request that is under way.
ResetTo(s) ==
  /\ given' = s
  /\ scope' = s
  /\ question' = 0
  /\ response' = NoResponse /\ pendingRemote' = NoBody
  /\ refusedSince' = FALSE

OpenPanel ==
  /\ place = "closed"
  /\ place' \in {"drawer", "dock"}
  /\ \E s \in AllScopes :
       Givable(s) /\ (place' = "dock" => s = Library) /\ ResetTo(s)
  /\ UNCHANGED <<typedSoFar, ask, remote, warns, seenWarns, available>>

\* The drawer stays open while its page changes what it is about.
PageChanges ==
  /\ place = "drawer"
  /\ \E s \in AllScopes : Givable(s) /\ s # given /\ ResetTo(s)
  /\ ask' = IF AskPending THEN [ask EXCEPT !.moved = TRUE] ELSE ask
  /\ UNCHANGED <<place, typedSoFar, remote, warns, seenWarns, available>>

\* The panel is unmounted: nobody takes the answer any more.
ClosePanel ==
  /\ place # "closed"
  /\ place' = "closed"
  /\ ResetTo(Library)
  /\ ask' = NoAsk
  /\ UNCHANGED <<typedSoFar, remote, warns, seenWarns, available>>

TypingOffered == place # "closed" /\ ~AskPending /\ available

TypeQuestion ==
  /\ TypingOffered
  /\ typedSoFar < MaxQuestions
  /\ typedSoFar' = typedSoFar + 1 /\ question' = typedSoFar'
  /\ UNCHANGED <<place, given, scope, response, pendingRemote, ask, remote,
                 warns, seenWarns, available, refusedSince>>

\* What a scope of another kind points at: what this one does, or the given one.
TargetOf(kind) ==
  IF kind = "library" THEN NoTarget
  ELSE IF kind \in FolderKinds /\ scope.kind \in FolderKinds THEN scope.target
  ELSE IF {kind, given.kind} \subseteq FolderKinds \/ kind = given.kind
  THEN given.target
  ELSE NoTarget

\* Mutant: the answer of before stays.
KeepsAnswer == UNCHANGED response

ClearsAnswer == response' = NoResponse

Moves == ask' = IF AskPending THEN [ask EXCEPT !.moved = TRUE] ELSE ask

\* The selector of the drawer is there while an answer is awaited.
SelectKind(kind) ==
  /\ place = "drawer" /\ kind # scope.kind
  /\ scope' = Scope(kind, TargetOf(kind))
  /\ ClearsAnswer
  /\ Moves
  /\ UNCHANGED <<place, given, question, typedSoFar, pendingRemote, remote,
                 warns, seenWarns, available, refusedSince>>

SelectFolder(f) ==
  /\ place = "drawer" /\ scope.kind \in FolderKinds /\ f # scope.target
  /\ scope' = [scope EXCEPT !.target = f]
  /\ Moves
  /\ UNCHANGED <<place, given, question, typedSoFar, response, pendingRemote,
                 remote, warns, seenWarns, available, refusedSince>>

\* The pills of the dock.
SelectPill(s) ==
  /\ place = "dock"
  /\ s \in {Library} \cup {Scope("folder_tree", f) : f \in Targets}
  /\ s # scope
  /\ scope' = s
  /\ ClearsAnswer
  /\ Moves
  /\ UNCHANGED <<place, given, question, typedSoFar, pendingRemote, remote,
                 warns, seenWarns, available, refusedSince>>

AskOffered == place # "closed" /\ available /\ ~AskPending
ChatConfirmOffered ==
  place # "closed" /\ pendingRemote # NoBody /\ seenWarns /\ ~AskPending

SubmitQuestion(confirm) ==
  /\ IF confirm THEN ChatConfirmOffered ELSE AskOffered
  /\ question # 0 /\ ScopeFits(scope)
  /\ ask' = NewAsk(AskBody(scope, question, confirm))
  /\ UNCHANGED <<place, given, scope, question, typedSoFar, response,
                 pendingRemote, remote, warns, seenWarns, available,
                 refusedSince>>

AskAnother ==
  /\ response.shown /\ ~AskPending
  /\ response' = NoResponse /\ question' = 0
  /\ UNCHANGED <<place, given, scope, typedSoFar, pendingRemote, ask, remote,
                 warns, seenWarns, available, refusedSince>>

-----------------------------------------------------------------------------
(* The server and its answers.                                             *)

\* ask_workspace: 403 without confirmation; or an answer, or another error.
ServeAsk ==
  /\ ask.at = "sent"
  /\ \E end \in IF warns /\ remote /\ ~ask.body.confirm THEN {"refused"}
                ELSE {"answered", "failed"} :
       ask' = [ask EXCEPT !.at = end]
  /\ UNCHANGED <<place, given, scope, question, typedSoFar, response,
                 pendingRemote, remote, warns, seenWarns, available,
                 refusedSince>>

ForgetsRefusal == pendingRemote' = NoBody

ArriveAnswer ==
  /\ ask.at = "answered"
  /\ ForgetsRefusal
  /\ response' = [shown |-> TRUE, scope |-> ask.body.scope, moved |-> ask.moved]
  /\ ask' = NoAsk
  /\ refusedSince' = FALSE
  /\ UNCHANGED <<place, given, scope, question, typedSoFar, remote, warns,
                 seenWarns, available>>

ArriveRefusal ==
  /\ ask.at = "refused"
  /\ pendingRemote' = ask.body
  /\ ask' = NoAsk
  /\ refusedSince' = TRUE
  /\ UNCHANGED <<place, given, scope, question, typedSoFar, response, remote,
                 warns, seenWarns, available>>

ArriveError ==
  /\ ask.at = "failed"
  /\ response' = NoResponse
  /\ ask' = NoAsk
  /\ UNCHANGED <<place, given, scope, question, typedSoFar, pendingRemote,
                 remote, warns, seenWarns, available, refusedSince>>

\* An administrator changes the assignment or the policy.
ChangePolicy ==
  /\ \/ remote' = ~remote /\ UNCHANGED warns
     \/ warns' = ~warns /\ UNCHANGED remote
  /\ UNCHANGED <<place, given, scope, question, typedSoFar, response,
                 pendingRemote, ask, seenWarns, available, refusedSince>>

\* The two queries are fetched again; a provider may be reached or not.
Refresh ==
  /\ seenWarns' = warns /\ available' \in BOOLEAN
  /\ UNCHANGED <<place, given, scope, question, typedSoFar, response,
                 pendingRemote, ask, remote, warns, refusedSince>>

-----------------------------------------------------------------------------
AskChatInit ==
  /\ place = "closed" /\ given = Library /\ scope = Library
  /\ question = 0 /\ typedSoFar = 0
  /\ response = NoResponse /\ pendingRemote = NoBody /\ ask = NoAsk
  /\ remote \in BOOLEAN /\ warns \in BOOLEAN /\ seenWarns = warns
  /\ available = TRUE /\ refusedSince = FALSE

AskChatNext ==
  \/ OpenPanel \/ PageChanges \/ ClosePanel \/ TypeQuestion
  \/ \E kind \in ScopeKinds : SelectKind(kind)
  \/ \E f \in Targets : SelectFolder(f)
  \/ \E s \in AllScopes : SelectPill(s)
  \/ \E confirm \in BOOLEAN : SubmitQuestion(confirm)
  \/ AskAnother
  \/ ServeAsk \/ ArriveAnswer \/ ArriveRefusal \/ ArriveError
  \/ ChangePolicy \/ Refresh

AskChatSpec == AskChatInit /\ [][AskChatNext]_askChatVars

-----------------------------------------------------------------------------
(* Properties.                                                             *)

Questions == 0..MaxQuestions
Bodies == [scope : AllScopes, question : Questions, confirm : BOOLEAN]

\* Every variable keeps its type.
AskChatTypeOK ==
  /\ place \in {"closed", "drawer", "dock"}
  /\ given \in AllScopes /\ scope \in AllScopes
  /\ question \in Questions /\ typedSoFar \in Questions
  /\ response \in [shown : BOOLEAN, scope : AllScopes, moved : BOOLEAN]
  /\ pendingRemote \in Bodies
  /\ ask \in [at : {"none", "sent", "answered", "refused", "failed"},
              body : Bodies, moved : BOOLEAN]
  /\ remote \in BOOLEAN /\ warns \in BOOLEAN /\ seenWarns \in BOOLEAN
  /\ available \in BOOLEAN /\ refusedSince \in BOOLEAN

\* An answer is shown under a scope of the kind it was asked about (in the dock,
\* under that very scope), whatever was selected and given since, unless that
\* was done while it was on its way.
AnswerFitsScope ==
  response.shown /\ ~response.moved =>
    /\ response.scope.kind = scope.kind
    /\ place = "dock" => response.scope = scope

\* A question goes out as confirmed only after one was refused in this panel,
\* and none answered since.
ConfirmedAfterRefusal ==
  [][ask'.body.confirm /\ ~ask.body.confirm => refusedSince]_askChatVars
=============================================================================
