------------------------------ MODULE QueryCache ------------------------------
(***************************************************************************)
(* The hooks of the web client (lib/api/hooks.ts) and the query cache they *)
(* share: what a page shows of the server, when it is asked for again, and *)
(* which queries a mutation invalidates.                                   *)
(*                                                                         *)
(* Queries do not depend on each other, so the module follows any one of   *)
(* them on any one page that shows it, together with the mutations that    *)
(* the page offers.  The answer of a query is abstracted to the changes it *)
(* has missed.                                                             *)
(***************************************************************************)
EXTENDS Naturals, Sequences, FiniteSets, SequencesExt, TLC

CONSTANT MaxChanges   \* bound: how many mutations the user makes

ASSUME CacheAssumption == MaxChanges \in Nat

-----------------------------------------------------------------------------
(* Queries: the key each is cached under, and the parts of the server's    *)
(* data that its answer shows.                                             *)

Query(key, shows) == [key |-> key, shows |-> shows]

SessionQueries == [session |-> Query(<<"session">>, {"account"})]

ProfileQueries ==
  [usage |-> Query(<<"auth", "usage">>, {"originals"}),
   sessions |-> Query(<<"auth", "sessions">>, {"logins"}),
   apiTokens |-> Query(<<"auth", "api-tokens">>, {"tokens"})]

UserQueries ==
  [users |-> Query(<<"users">>, {"users", "originals"}),
   passwordResets |-> Query(<<"password-resets">>, {"resets"}),
   invites |-> Query(<<"invites">>, {"invites"})]

FolderQueries ==
  [folders |-> Query(<<"folders">>, {"folders", "filing", "life"}),
   trashedFolders |-> Query(<<"folders", "trashed">>, {"folders"}),
   trashCount |-> Query(<<"trash", "count">>, {"folders", "life"}),
   tags |-> Query(<<"tags">>, {"tags", "tagging", "originals"})]

\* What a row and the viewer show of a document (type Document).
DocumentParts ==
  {"title", "filing", "life", "stage", "tagging", "folder names", "tag names"}

DocumentQueries ==
  [documents |-> Query(<<"documents", "params">>, DocumentParts),
   inboxOverview |-> Query(<<"inbox-overview">>, {"queue", "stage"}),
   inboxActivity |-> Query(<<"inbox-activity", "params">>,
                           {"queue", "stage", "title"}),
   libraryOverview |-> Query(<<"library-overview">>,
                             {"originals", "life", "tags", "tagging",
                              "folders", "counters"}),
   document |-> Query(<<"documents", "id">>, DocumentParts),
   documentContent |-> Query(<<"documents", "id", "content">>, {"text"}),
   inboxCount |-> Query(<<"inbox-count">>, {"queue"})]

JobQueries == [jobs |-> Query(<<"jobs", "all", "all">>, {"jobs"})]

AIQueries ==
  [aiProviders |-> Query(<<"ai", "providers">>, {"providers"}),
   aiPolicy |-> Query(<<"ai", "policy">>, {"policy"}),
   aiAssignments |-> Query(<<"ai", "assignments">>,
                           {"assignments", "provider names"}),
   aiSuggestions |-> Query(<<"ai", "suggestions", "all">>, {"suggestions"})]

SystemQueries == [logs |-> Query(<<"logs", "filters">>, {"logs"})]

BackupQueries ==
  [backupSettings |-> Query(<<"backups", "settings">>, {"schedule"}),
   backups |-> Query(<<"backups">>, {"backups"}),
   restoreStatus |-> Query(<<"backups", "restore-status">>, {"restore"})]

QueryHooks ==
  SessionQueries @@ ProfileQueries @@ UserQueries @@ FolderQueries
  @@ DocumentQueries @@ JobQueries @@ AIQueries @@ SystemQueries
  @@ BackupQueries

Queries == DOMAIN QueryHooks

\* Those that ask again by a timer of their own, whatever they show.  (The
\* status of a restore does so from when one is asked for.)
Polled == {"passwordResets", "trashCount", "jobs", "aiSuggestions",
           "restoreStatus"}

-----------------------------------------------------------------------------
(* Mutations: what the server changes and which keys are invalidated.      *)

Hook(changes, keys) == [changes |-> changes, keys |-> keys]

AccountHooks ==
  [updateProfile |-> Hook({"account"}, {<<"session">>}),
   createApiToken |-> Hook({"tokens"}, {<<"auth", "api-tokens">>}),
   revokeApiToken |-> Hook({"tokens"}, {<<"auth", "api-tokens">>}),
   revokeSession |-> Hook({"logins"}, {<<"auth", "sessions">>}),
   signOutOthers |-> Hook({"logins"}, {<<"auth", "sessions">>}),
   avatar |-> Hook({"account"}, {<<"session">>})]

UserHooks ==
  [approveReset |-> Hook({"resets"}, {<<"password-resets">>}),
   rejectReset |-> Hook({"resets"}, {<<"password-resets">>}),
   updateUser |-> Hook({"users"}, {<<"users">>}),
   deleteUser |-> Hook({"users"}, {<<"users">>}),
   createInvite |-> Hook({"invites"}, {<<"invites">>}),
   revokeInvite |-> Hook({"invites"}, {<<"invites">>})]

FolderKeys == {<<"folders">>, <<"documents">>, <<"trash">>}
FolderHooks ==
  [createFolder |-> Hook({"folders"}, {<<"folders">>}),
   updateFolder |-> Hook({"folders", "folder names"}, {<<"folders">>}),
   trashFolder |-> Hook({"folders", "life"}, FolderKeys),
   restoreFolder |-> Hook({"folders", "life", "filing"}, FolderKeys),
   purgeFolder |-> Hook({"folders", "life"}, FolderKeys),
   emptyTrash |-> Hook({"folders", "life"}, FolderKeys)]

TagKeys == {<<"tags">>, <<"library-overview">>}
TagHooks ==
  [createTag |-> Hook({"tags"}, TagKeys),
   updateTag |-> Hook({"tags", "tag names"}, TagKeys),
   deleteTag |-> Hook({"tags", "tagging"}, TagKeys),
   mergeTags |-> Hook({"tags", "tagging"}, TagKeys)]

StatisticsHooks ==
  [resetStatistics |->
     Hook({"counters"}, {<<"library-overview">>, <<"inbox-overview">>})]

DocumentHooks ==
  [updateMetadata |-> Hook({"title", "tagging", "filing"}, {<<"documents">>}),
   trashDocument |->
     Hook({"life"}, {<<"documents">>, <<"folders">>, <<"trash">>}),
   restoreDocument |->
     Hook({"life", "filing"}, {<<"documents">>, <<"folders">>, <<"trash">>}),
   deleteDocument |-> Hook({"life"}, {<<"documents">>, <<"trash">>}),
   bulkAction |->
     Hook({"life", "filing", "tagging"},
          {<<"documents">>, <<"folders">>, <<"tags">>, <<"trash">>,
           <<"inbox-count">>})]

InboxKeys ==
  {<<"documents">>, <<"inbox-overview">>, <<"inbox-activity">>}
InboxHooks ==
  [process |-> Hook({"queue", "filing", "stage", "folders"},
                    InboxKeys \cup {<<"folders">>, <<"inbox-count">>}),
   removeFromQueue |-> Hook({"queue", "life"},
                            InboxKeys \cup {<<"inbox-count">>}),
   retryPreflight |-> Hook({"stage"}, InboxKeys)]

WorkHooks ==
  [retryOcr |-> Hook({"stage", "text", "jobs"},
                     {<<"documents">>, <<"documents", "id", "content">>,
                      <<"jobs">>}),
   reprocessEmbeddings |->
     Hook({"stage", "jobs"}, {<<"documents">>, <<"jobs">>}),
   reprocessSuggestions |->
     Hook({"stage", "jobs", "suggestions"},
          {<<"documents">>, <<"jobs">>, <<"ai", "suggestions", "all">>})]

UploadHooks ==
  [upload |->
     Hook({"queue", "stage", "life"}, {<<"documents">>, <<"folders">>})]

JobHooks == [cancelJob |-> Hook({"jobs"}, {<<"jobs">>})]

AIHooks ==
  [createProvider |-> Hook({"providers"}, {<<"ai", "providers">>}),
   updateProvider |->
     Hook({"providers", "provider names"}, {<<"ai", "providers">>}),
   deleteProvider |-> Hook({"providers"}, {<<"ai", "providers">>}),
   updatePolicy |-> Hook({"policy"}, {<<"ai", "policy">>}),
   updateAssignment |-> Hook({"assignments"}, {<<"ai", "assignments">>})]

SuggestionHooks ==
  [acceptSuggestion |->
     Hook({"suggestions", "title", "filing", "tags", "tagging"},
          {<<"ai", "suggestions">>, <<"documents">>, <<"documents", "id">>,
           <<"tags">>, <<"folders">>}),
   rejectSuggestion |-> Hook({"suggestions"}, {<<"ai", "suggestions">>})]

LogHooks == [clearLogs |-> Hook({"logs"}, {<<"logs">>})]

BackupHooks ==
  [updateBackupSettings |-> Hook({"schedule"}, {<<"backups", "settings">>}),
   createBackup |-> Hook({"backups", "schedule"},
                         {<<"backups">>, <<"backups", "settings">>}),
   verifyBackup |-> Hook({"backups"}, {<<"backups">>}),
   deleteBackup |-> Hook({"backups"}, {<<"backups">>}),
   restoreBackup |-> Hook({"restore", "backups"},
                          {<<"backups", "restore-status">>, <<"backups">>})]

Hooks ==
  AccountHooks @@ UserHooks @@ FolderHooks @@ TagHooks @@ StatisticsHooks
  @@ DocumentHooks @@ InboxHooks @@ WorkHooks @@ UploadHooks @@ JobHooks
  @@ AIHooks @@ SuggestionHooks @@ LogHooks @@ BackupHooks

Changed(h, q) == Hooks[h].changes \cap QueryHooks[q].shows # {}

\* invalidateQueries matches every key that begins with the one it is given.
Invalidated(h, q) ==
  \E key \in Hooks[h].keys : IsPrefix(key, QueryHooks[q].key)

\* Those that put the document that the server returns into the cache.
SetsDocument(h, q) ==
  /\ q = "document"
  /\ h \in {"updateMetadata", "retryOcr", "reprocessEmbeddings",
            "reprocessSuggestions"}

-----------------------------------------------------------------------------
(* Pages: what each shows, the shell included, and what it offers.         *)

Page(queries, hooks) ==
  [queries |-> queries \cup {"session", "inboxCount", "trashCount"},
   hooks |-> hooks]

SettingsPages ==
  [profile |-> Page({"usage", "sessions", "apiTokens"}, DOMAIN AccountHooks),
   users |-> Page({"users", "passwordResets", "invites"}, DOMAIN UserHooks),
   library |-> Page({"libraryOverview"},
                    DOMAIN TagHooks \cup DOMAIN StatisticsHooks),
   ai |-> Page({"aiProviders", "aiAssignments", "aiPolicy"}, DOMAIN AIHooks),
   logs |-> Page({"logs"}, DOMAIN LogHooks),
   backup |-> Page({"backups", "backupSettings", "restoreStatus"},
                   DOMAIN BackupHooks)]

DocumentPages ==
  [documents |->
     Page({"documents", "document", "documentContent", "folders", "tags",
           "jobs"},
          DOMAIN WorkHooks \cup
          {"updateMetadata", "trashDocument", "bulkAction", "createFolder",
           "updateFolder", "trashFolder", "createTag", "updateTag",
           "deleteTag"}),
   inbox |->
     Page({"documents", "folders", "inboxOverview", "inboxActivity",
           "aiSuggestions", "jobs"},
          DOMAIN InboxHooks \cup DOMAIN SuggestionHooks \cup
          DOMAIN UploadHooks \cup {"updateMetadata", "reprocessSuggestions"}),
   jobs |-> Page({"jobs"}, DOMAIN JobHooks),
   trash |->
     Page({"documents", "trashedFolders"},
          {"restoreDocument", "deleteDocument", "restoreFolder", "purgeFolder",
           "emptyTrash", "bulkAction"})]

Pages == SettingsPages @@ DocumentPages

\* What pages show late: a mutation changes what a query of the same page shows
\* and does not invalidate it.  A tag or a folder that is renamed goes on in
\* the rows of the documents by its old name, a document that is filed or
\* tagged in the viewer is not counted anew, nor is one that is removed from
\* the queue, a provider that is renamed or disabled goes on in the
\* assignments, and an upload does not reach the badge of the inbox.
Late ==
  {<<"updateTag", "documents">>, <<"updateTag", "document">>,
   <<"deleteTag", "documents">>, <<"deleteTag", "document">>,
   <<"updateFolder", "documents">>, <<"updateFolder", "document">>,
   <<"updateMetadata", "folders">>, <<"updateMetadata", "tags">>,
   <<"updateMetadata", "inboxActivity">>,
   <<"acceptSuggestion", "inboxActivity">>,
   <<"reprocessSuggestions", "inboxActivity">>,
   <<"reprocessSuggestions", "inboxOverview">>,
   <<"removeFromQueue", "folders">>, <<"upload", "inboxCount">>,
   <<"upload", "inboxActivity">>, <<"upload", "inboxOverview">>,
   <<"updateProvider", "aiAssignments">>}

\* What has no other way to be shown.
Known(h, q) == q \in Polled \/ <<h, q>> \in Late

\* About the tables above: a page uses hooks and queries that are there, and a
\* mutation invalidates what it changes of its page, unless that is Known.
ASSUME HooksAssumption ==
  \A p \in DOMAIN Pages :
    /\ Pages[p].hooks \subseteq DOMAIN Hooks
    /\ \A h \in Pages[p].hooks, q \in Pages[p].queries :
         Changed(h, q) => Known(h, q) \/ Invalidated(h, q)

VARIABLES
  query, page,   \* the query that is followed, and a page that shows it
  shown,         \* whether the page is mounted
  answer,        \* its data, and the changes that it has missed
  invalid,       \* it was invalidated, and not fetched since
  request,       \* the fetch that is under way, and what it has missed
  mutation,      \* the mutation that is under way
  joined,        \* history: an invalidation met a fetch that goes on
  changes        \* how many so far

cacheVars ==
  <<query, page, shown, answer, invalid, request, mutation, joined, changes>>

Worker == "worker"
NoData == [loaded |-> FALSE, missed |-> {}]
NoRequest == [on |-> FALSE, read |-> FALSE, missed |-> {}]
NewRequest == [NoRequest EXCEPT !.on = TRUE]
NoMutation == [hook |-> "none", state |-> "none", missed |-> {}]

\* A change at the server: what was read before it has missed it.
ServerChanges(by) ==
  /\ answer' = IF answer.loaded THEN [answer EXCEPT !.missed = @ \cup {by}]
               ELSE answer
  /\ request' = IF request.read THEN [request EXCEPT !.missed = @ \cup {by}]
                ELSE request

\* The worker, or another browser.
WorkerChanges ==
  /\ changes < MaxChanges
  /\ changes' = changes + 1
  /\ ServerChanges(Worker)
  /\ mutation' = IF mutation.state = "done"
                 THEN [mutation EXCEPT !.missed = {Worker}] ELSE mutation
  /\ UNCHANGED <<query, page, shown, invalid, joined>>

-----------------------------------------------------------------------------
(* Fetching.                                                               *)

Fetch ==
  /\ request' = NewRequest
  /\ UNCHANGED <<query, page, shown, answer, invalid, mutation, joined,
                 changes>>

\* A component that shows the query is mounted, or the window has the focus
\* again: data that is old (here: at any time) or invalidated is asked for.
Mount ==
  /\ ~shown
  /\ shown' = TRUE
  /\ \/ request' = IF request.on THEN request ELSE NewRequest
     \/ answer.loaded /\ ~invalid /\ UNCHANGED request
  /\ UNCHANGED <<query, page, answer, invalid, mutation, joined, changes>>

\* The page is left: a fetch that is under way goes on.
Unmount ==
  /\ shown
  /\ shown' = FALSE
  /\ UNCHANGED <<query, page, answer, invalid, request, mutation, joined,
                 changes>>

Refocus == shown /\ ~request.on /\ Fetch

\* refetchInterval.
PollQuery == query \in Polled /\ Refocus

Read ==
  /\ request.on /\ ~request.read
  /\ request' = [request EXCEPT !.read = TRUE]
  /\ UNCHANGED <<query, page, shown, answer, invalid, mutation, joined,
                 changes>>

Return ==
  /\ request.read
  /\ answer' = [loaded |-> TRUE, missed |-> request.missed]
  /\ invalid' = FALSE
  /\ request' = NoRequest
  /\ UNCHANGED <<query, page, shown, mutation, joined, changes>>

\* The request and its retry fail: the data stays as it is.
FetchFails ==
  /\ request.on
  /\ request' = NoRequest
  /\ UNCHANGED <<query, page, shown, answer, invalid, mutation, joined,
                 changes>>

-----------------------------------------------------------------------------
(* Mutations (bound: one at a time).                                       *)

Mutate(h) ==
  /\ shown /\ h \in Pages[page].hooks
  /\ mutation = NoMutation /\ changes < MaxChanges
  /\ changes' = changes + 1
  /\ mutation' = [NoMutation EXCEPT !.hook = h, !.state = "open"]
  /\ UNCHANGED <<query, page, shown, answer, invalid, request, joined>>

Serve ==
  /\ mutation.state = "open"
  /\ mutation' = [mutation EXCEPT !.state = "done"]
  /\ IF Changed(mutation.hook, query) THEN ServerChanges(mutation.hook)
     ELSE UNCHANGED <<answer, request>>
  /\ UNCHANGED <<query, page, shown, invalid, joined, changes>>

\* Mutant: a fetch that is under way is waited for (cancelRefetch: false).
RefetchesUnlessBusy(loaded) == shown /\ ~request.on

\* Is the query fetched anew when it is invalidated?  A fetch that is under way
\* is given up for that, unless it is the first load.
Refetches(loaded) == shown /\ (loaded \/ ~request.on)

\* onSuccess.  A query that is invalidated is fetched anew if it is shown,
\* unless its first load is under way: that one is joined.
Succeeded ==
  LET h == mutation.hook
      set == SetsDocument(h, query)
      loaded == answer.loaded \/ set
  IN  /\ mutation.state = "done"
      /\ mutation' = NoMutation
      /\ answer' = IF set THEN [loaded |-> TRUE, missed |-> mutation.missed]
                   ELSE answer
      /\ IF Invalidated(h, query)
         THEN /\ invalid' = TRUE
              /\ request' = IF Refetches(loaded) THEN NewRequest ELSE request
              /\ joined' = (joined \/ (request.on /\ ~(shown /\ loaded)))
         ELSE UNCHANGED <<invalid, request, joined>>
      /\ UNCHANGED <<query, page, shown, changes>>

\* The server refuses it, or its answer is lost.
Refused ==
  /\ mutation.state = "open"
  /\ mutation' = NoMutation
  /\ UNCHANGED <<query, page, shown, answer, invalid, request, joined,
                 changes>>

CacheInit ==
  /\ page \in DOMAIN Pages /\ query \in Pages[page].queries
  /\ shown = FALSE
  /\ answer = NoData /\ invalid = FALSE /\ request = NoRequest
  /\ mutation = NoMutation /\ joined = FALSE /\ changes = 0

CacheNext ==
  \/ WorkerChanges \/ Mount \/ Unmount \/ Refocus
  \/ PollQuery \/ Read \/ Return \/ FetchFails
  \/ Serve \/ Succeeded \/ Refused
  \/ \E h \in Pages[page].hooks : Mutate(h)

CacheSpec == CacheInit /\ [][CacheNext]_cacheVars

-----------------------------------------------------------------------------
(* Properties.                                                             *)

\* Every variable keeps its type.
ChangeType == DOMAIN Hooks \cup {Worker}
CacheTypeOK ==
  /\ page \in DOMAIN Pages /\ query \in Pages[page].queries
  /\ shown \in BOOLEAN /\ invalid \in BOOLEAN /\ joined \in BOOLEAN
  /\ answer \in [loaded : BOOLEAN, missed : SUBSET ChangeType]
  /\ request \in [on : BOOLEAN, read : BOOLEAN, missed : SUBSET ChangeType]
  /\ mutation \in [hook : DOMAIN Hooks \cup {"none"},
                   state : {"none", "open", "done"}, missed : SUBSET {Worker}]
  /\ changes \in 0..MaxChanges

\* When nothing is under way, the page shows what its user has done: whatever
\* fetches were on their way meanwhile, no answer from before a mutation stays,
\* but for those that no hook invalidates (Late), that a first load or one for
\* a page that was left brings in, or that could not be fetched again.
OwnChangesAreShown ==
  (/\ shown /\ request = NoRequest /\ mutation = NoMutation
   /\ ~joined /\ ~invalid) =>
    \A h \in answer.missed \ {Worker} :
      Known(h, query)
=============================================================================
