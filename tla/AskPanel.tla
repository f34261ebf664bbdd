------------------------------ MODULE AskPanel ------------------------------
(***************************************************************************)
(* The panel "Ask this document" of the web client                         *)
(* (components/ask/DocumentAskPanel.tsx) with the hooks it asks through    *)
(* (lib/api/hooks.ts) and the modal that mounts it: one question at a      *)
(* time, follow-ups that queue behind it, Stop, New chat, Clear, and an    *)
(* optimistic thread laid over the one the server has saved.               *)
(*                                                                         *)
(* A submission gets a number when it is made.  Handlers of one event run  *)
(* to the end with all their microtasks: an abort rejects the request in   *)
(* the same task, so its catch, finally and drain are part of the action   *)
(* that aborts.  The server is external: a question that it has been sent  *)
(* is answered, saved or not, even when nobody waits for it any more.      *)
(***************************************************************************)
EXTENDS Naturals, Sequences, FiniteSets, SequencesExt

CONSTANTS
  MaxAsks,        \* bound: how many questions are submitted
  MaxChatResets,  \* bound: how often a chat is replaced or cleared
  MaxPanelOpens   \* bound: how often the panel is opened

ASSUME AskAssumption ==
  MaxAsks \in Nat \ {0} /\ MaxChatResets \in Nat /\ MaxPanelOpens \in Nat \ {0}

Asks == 1..MaxAsks
NoPanelAsk == 0

VARIABLES
  asks, panelOpens, chatResets,  \* how many so far
  mounted,     \* the modal shows the panel instead of the inspector
  draft,       \* whether the composer holds text
  queue,       \* queueRef: the follow-ups that wait, oldest first
  run,         \* the question of runAskAndDrain, or NoPanelAsk
  skip,        \* skipDrainRef
  error,       \* "none", "failed" or "remote" (the button to confirm)
  overlay,     \* localMessages: whether there are any, and which
  closed,      \* run, queue and skip of a panel that was unmounted
  cache,       \* the query of the conversation: its data, if it has any
  fetch,       \* its request: whether one is under way, and what it has read
  reset,       \* the request of New chat or Clear
  remoteAsk,   \* the server refuses a question that is not confirmed
  askRequest,  \* each question at the server, and how often it was sent
  pressed,     \* history: the questions sent by the button that confirms
  saved        \* the turns of the conversation that the server has saved

panelVars == <<draft, queue, run, skip, error, overlay>>
serverVars == <<remoteAsk, saved, reset, chatResets>>
askPanelVars ==
  <<asks, panelOpens, mounted, panelVars, closed, cache, fetch, askRequest,
    pressed, serverVars>>

-----------------------------------------------------------------------------
NoReset == [state |-> "none", by |-> 0]

(* The thread: a turn is a question with or without its answer.            *)

Turn(n, answered) == [ask |-> n, answered |-> answered]
Turns(numbers) == [i \in DOMAIN numbers |-> Turn(numbers[i], TRUE)]

\* How many messages a thread has.
Messages(thread) ==
  Len(thread) + Cardinality({i \in DOMAIN thread : thread[i].answered})

NoOverlay == [on |-> FALSE, thread |-> <<>>]
Overlay(thread) == [on |-> TRUE, thread |-> thread]

Thread(o, c) == IF o.on THEN o.thread ELSE Turns(c.data)

\* The optimistic question of n is taken out, if it is there: it is filtered by
\* its id, which no other message has.
Without(thread, n) ==
  LET asked == {i \in DOMAIN thread : thread[i] = Turn(n, FALSE)}
  IN  IF asked = {} THEN thread
      ELSE RemoveAt(thread, CHOOSE i \in asked : TRUE)

\* What a turn that gets no answer leaves of the overlay.
Rollback(n) ==
  LET base == Without(Thread(overlay, cache), n)
  IN  IF base = <<>> THEN NoOverlay ELSE Overlay(base)

\* Mutant: it is dropped while a turn runs.
DropOverlayEarly(o, c, r, q) ==
  IF o.on /\ Messages(Turns(c.data)) >= Messages(o.thread)
  THEN NoOverlay ELSE o

\* The effect that drops the overlay: no turn runs, none waits and the
\* server's thread is as long.
DropOverlay(o, c, r, q) ==
  IF /\ o.on
     /\ r = NoPanelAsk /\ q = <<>>
     /\ Messages(Turns(c.data)) >= Messages(o.thread)
  THEN NoOverlay ELSE o

\* What the panel shows.
ShownTurns == Thread(overlay, cache)
IsNewSession == ShownTurns = <<>> /\ run = NoPanelAsk /\ queue = <<>>

\* The controls it offers: suggested prompts, Stop (it takes the place of Send
\* while the composer is empty), the button that confirms, New chat and Clear
\* (bound: one of these two is under way at a time).
PromptOffered == IsNewSession /\ cache.loaded
StopOffered == run # NoPanelAsk /\ ~draft
PanelConfirmOffered == error = "remote"
NewChatOffered(kind) ==
  /\ reset = NoReset /\ chatResets < MaxChatResets
  /\ kind = "clear" => ShownTurns # <<>> \/ queue # <<>>

-----------------------------------------------------------------------------
(* Requests.                                                               *)

NeverSent == [state |-> "none", confirm |-> FALSE, chat |-> 0, posts |-> 0]
Answers == {"saved", "unsaved"}
Refusals == {"remote", "failed"}

\* Mutant: the request belongs to the chat to come.
PostToNextChat(reqs, n, confirm) ==
  [reqs EXCEPT ![n] = [state |-> "open", confirm |-> confirm,
                       chat |-> chatResets + 1, posts |-> @.posts + 1]]

\* The request of question n goes out.
Post(reqs, n, confirm) ==
  [reqs EXCEPT ![n] = [state |-> "open", confirm |-> confirm,
                       chat |-> chatResets, posts |-> @.posts + 1]]

NoFetch == [on |-> FALSE, read |-> FALSE, data |-> <<>>]
NewFetch == [NoFetch EXCEPT !.on = TRUE]

\* useAskDocument.onSuccess invalidates the query: one that is shown and has
\* data is asked for anew, a first load under way is joined, and one that is
\* not shown is marked.
Invalidate ==
  /\ cache' = [cache EXCEPT !.stale = ~mounted]
  /\ fetch' = IF ~mounted \/ (fetch.on /\ ~cache.loaded) THEN fetch
              ELSE NewFetch

\* setQueryData of New chat and Clear: a load under way goes on.
Emptied == [data |-> <<>>, loaded |-> TRUE, stale |-> FALSE]

-----------------------------------------------------------------------------
(* runAskAndDrain: its start, and its end with or without a next turn.     *)

StartTurn(n, o, reqs, confirm) ==
  /\ run' = n
  /\ overlay' = Overlay(Append(Thread(o, cache), Turn(n, FALSE)))
  /\ askRequest' = Post(reqs, n, confirm)
  /\ error' = "none"

\* Mutant: the follow-up that starts stays in the queue.
EndTurnKeepsQueue(drain, sk, q, o, err) ==
  /\ skip' = FALSE
  /\ IF drain /\ ~sk /\ q # <<>>
     THEN queue' = q /\ StartTurn(Head(q), o, askRequest, FALSE)
     ELSE /\ run' = NoPanelAsk
          /\ queue' = q
          /\ overlay' = DropOverlay(o, cache', NoPanelAsk, q)
          /\ error' = err
          /\ UNCHANGED askRequest

\* drain: the turn was answered or stopped; sk and q are the refs it finds, o
\* the overlay it leaves, err the error it shows.
EndTurn(drain, sk, q, o, err) ==
  /\ skip' = FALSE
  /\ IF drain /\ ~sk /\ q # <<>>
     THEN /\ queue' = Tail(q)
          /\ StartTurn(Head(q), o, askRequest, FALSE)
     ELSE /\ run' = NoPanelAsk
          /\ queue' = q
          /\ overlay' = DropOverlay(o, cache', NoPanelAsk, q)
          /\ error' = err
          /\ UNCHANGED askRequest

\* The turn that runs has its answer.
Succeed ==
  LET base == Without(Thread(overlay, cache), run)
  IN  EndTurn(TRUE, skip, queue, Overlay(Append(base, Turn(run, TRUE))),
              "none")

\* The turn that runs has failed: its question is in the composer again.
Fail(err) == EndTurn(FALSE, skip, queue, Rollback(run), err) /\ draft' = TRUE

\* An abort: the request is given up.  An answer whose body was on its way is
\* lost too: parseErrorBody returns null and the turn fails by a TypeError.
Abort(sk, q) ==
  \/ /\ UNCHANGED <<cache, fetch>>
     /\ EndTurn(TRUE, sk, q, Rollback(run), "none")
     /\ draft' = (draft \/ q = <<>>)
  \/ /\ askRequest[run].state \in Answers
     /\ Invalidate
     /\ EndTurn(FALSE, sk, q, Rollback(run), "failed")
     /\ draft' = TRUE

-----------------------------------------------------------------------------
(* The composer.                                                           *)

Type ==
  /\ mounted /\ ~draft
  /\ draft' = TRUE
  /\ UNCHANGED <<asks, panelOpens, mounted, queue, run, skip, error, overlay,
                 closed, cache, fetch, askRequest, pressed, serverVars>>

Erase ==
  /\ mounted /\ draft
  /\ draft' = FALSE
  /\ UNCHANGED <<asks, panelOpens, mounted, queue, run, skip, error, overlay,
                 closed, cache, fetch, askRequest, pressed, serverVars>>

\* submit: Send, Enter and Retry do not confirm, a suggested prompt is sent
\* instead of the draft, and the button of a refused question confirms.
SubmitAsk(by) ==
  LET n == asks + 1
      confirm == by = "confirm"
  IN  /\ mounted /\ n \in Asks
      /\ CASE by = "send" -> draft
           [] by = "prompt" -> PromptOffered
           [] by = "confirm" -> draft /\ PanelConfirmOffered
      /\ asks' = n
      /\ draft' = FALSE
      /\ pressed' = IF confirm THEN pressed \cup {n} ELSE pressed
      /\ IF run # NoPanelAsk
         THEN /\ queue' = Append(queue, n)
              /\ UNCHANGED <<run, overlay, askRequest, error>>
         ELSE /\ StartTurn(n, overlay, askRequest, confirm)
              /\ UNCHANGED queue
      /\ UNCHANGED <<panelOpens, mounted, skip, closed, cache, fetch,
                     serverVars>>

\* stopAsk.
Stop ==
  /\ mounted /\ StopOffered
  /\ Abort(FALSE, queue)
  /\ UNCHANGED <<asks, panelOpens, mounted, closed, pressed, serverVars>>

\* handleNewChat and handleClear: the turn is given up and the queue emptied,
\* then the server is asked to replace or delete the conversation.
StartReset(kind) ==
  /\ mounted /\ NewChatOffered(kind)
  /\ reset' = [state |-> "open", by |-> panelOpens]
  /\ IF run # NoPanelAsk
     THEN Abort(TRUE, <<>>)
     ELSE /\ skip' = TRUE
          /\ queue' = <<>>
          /\ overlay' = DropOverlay(overlay, cache, NoPanelAsk, <<>>)
          /\ UNCHANGED <<draft, run, error, askRequest, cache, fetch>>
  /\ UNCHANGED <<asks, panelOpens, mounted, closed, pressed, remoteAsk, saved,
                 chatResets>>

\* The rest of them, when the server has answered: the data of the query is
\* set, which does not stop a request for it that is under way.
FinishReset ==
  /\ reset.state = "done"
  /\ reset' = NoReset
  /\ cache' = Emptied
  /\ IF mounted /\ reset.by = panelOpens
     THEN /\ overlay' = DropOverlay(Overlay(<<>>), cache', run, queue)
          /\ error' = "none"
     ELSE /\ overlay' = DropOverlay(overlay, cache', run, queue)
          /\ UNCHANGED error
  /\ UNCHANGED <<asks, panelOpens, mounted, draft, queue, run, skip, closed,
                 fetch, askRequest, pressed, remoteAsk, saved, chatResets>>

\* The request of a reset fails: nothing follows, and neither the turn nor the
\* queue comes back.
FailReset ==
  /\ reset.state = "open"
  /\ reset' = NoReset
  /\ UNCHANGED <<asks, panelOpens, mounted, panelVars, closed, cache, fetch,
                 askRequest, pressed, remoteAsk, saved, chatResets>>

-----------------------------------------------------------------------------
(* Answers arrive.                                                         *)

\* mutateAsync settles for the question of the panel that is open.
Arrive ==
  /\ mounted /\ run # NoPanelAsk
  /\ \/ /\ askRequest[run].state \in Answers
        /\ Invalidate
        /\ Succeed
        /\ UNCHANGED draft
     \/ /\ askRequest[run].state \in Refusals
        /\ UNCHANGED <<cache, fetch>>
        /\ Fail(askRequest[run].state)
  /\ UNCHANGED <<asks, panelOpens, mounted, closed, pressed, serverVars>>

NothingClosed == [run |-> NoPanelAsk, queue |-> <<>>, skip |-> FALSE]

\* The end of a turn of a panel that is not mounted: only its refs matter.
AfterClosed(drain, sk, q) ==
  IF drain /\ ~sk /\ q # <<>>
  THEN /\ closed' = [run |-> Head(q), queue |-> Tail(q), skip |-> FALSE]
       /\ askRequest' = Post(askRequest, Head(q), FALSE)
  ELSE closed' = NothingClosed /\ UNCHANGED askRequest

\* It settles for a question of a panel that was closed.
ArriveClosed ==
  /\ closed.run # NoPanelAsk
  /\ \/ /\ askRequest[closed.run].state \in Answers
        /\ Invalidate
        /\ AfterClosed(TRUE, closed.skip, closed.queue)
     \/ /\ askRequest[closed.run].state \in Refusals
        /\ AfterClosed(FALSE, closed.skip, closed.queue)
        /\ UNCHANGED <<cache, fetch>>
  /\ UNCHANGED <<asks, panelOpens, mounted, panelVars, pressed, serverVars>>

\* The conversation is loaded.
LoadReturns ==
  /\ fetch.read
  /\ cache' = [data |-> fetch.data, loaded |-> TRUE, stale |-> FALSE]
  /\ fetch' = NoFetch
  /\ overlay' = DropOverlay(overlay, cache', run, queue)
  /\ UNCHANGED <<asks, panelOpens, mounted, draft, queue, run, skip, error,
                 closed, askRequest, pressed, serverVars>>

\* It cannot be loaded; what was loaded before is shown on.
LoadFails ==
  /\ fetch.on
  /\ fetch' = NoFetch
  /\ UNCHANGED <<asks, panelOpens, mounted, panelVars, closed, cache,
                 askRequest, pressed, serverVars>>

\* The window gets the focus or the connection is back, and the data is old;
\* or the user tries again to load what could not be loaded.
ReloadPanel ==
  /\ mounted /\ ~fetch.on
  /\ fetch' = NewFetch
  /\ UNCHANGED <<asks, panelOpens, mounted, panelVars, closed, cache,
                 askRequest, pressed, serverVars>>

-----------------------------------------------------------------------------
(* The modal.                                                              *)

\* The state of a panel that is mounted (and of one that is not).
FreshPanel ==
  /\ draft' = FALSE /\ queue' = <<>> /\ run' = NoPanelAsk
  /\ skip' = TRUE                    \* the effect of the document's id
  /\ error' = "none" /\ overlay' = NoOverlay

\* The panel is mounted: the query loads if it has no data or old data.
Open ==
  /\ ~mounted /\ panelOpens < MaxPanelOpens
  /\ panelOpens' = panelOpens + 1
  /\ mounted' = TRUE
  /\ FreshPanel
  /\ \/ fetch' = IF fetch.on THEN fetch ELSE NewFetch
     \/ cache.loaded /\ ~cache.stale /\ UNCHANGED fetch
  /\ UNCHANGED <<asks, closed, cache, askRequest, pressed, serverVars>>

\* It is closed, alone or with the modal: the turn that runs is aborted and
\* ends on the refs of the panel that is gone.  Bound: one such panel a time.
Close ==
  /\ mounted /\ closed = NothingClosed
  /\ mounted' = FALSE
  /\ FreshPanel
  /\ \/ run = NoPanelAsk /\ UNCHANGED <<closed, askRequest, cache>>
     \/ run # NoPanelAsk /\ AfterClosed(TRUE, skip, queue) /\ UNCHANGED cache
     \/ /\ run # NoPanelAsk /\ askRequest[run].state \in Answers
        /\ AfterClosed(FALSE, skip, queue)
        /\ cache' = [cache EXCEPT !.stale = TRUE]
  /\ UNCHANGED <<asks, panelOpens, fetch, pressed, serverVars>>

\* The modal goes to another document: the effect of the id empties the refs
\* and aborts before the panel is unmounted.
Switch ==
  /\ mounted
  /\ mounted' = FALSE
  /\ FreshPanel
  /\ UNCHANGED <<asks, panelOpens, closed, cache, fetch, askRequest, pressed,
                 serverVars>>

-----------------------------------------------------------------------------
(* The server.                                                             *)

\* It answers a question and saves the turn, unless the conversation it began
\* with is gone by then; or it fails, or refuses to ask a remote provider.
Answer(n) ==
  /\ askRequest[n].state = "open"
  /\ \E s \in Answers \cup Refusals :
       /\ (s = "remote") <=> (remoteAsk /\ ~askRequest[n].confirm)
       /\ s = "saved" => askRequest[n].chat = chatResets
       /\ askRequest' = [askRequest EXCEPT ![n].state = s]
       /\ saved' = IF s = "saved" THEN Append(saved, n) ELSE saved
  /\ UNCHANGED <<asks, panelOpens, mounted, panelVars, closed, cache, fetch,
                 pressed, remoteAsk, reset, chatResets>>

ServeReset ==
  /\ reset.state = "open"
  /\ reset' = [reset EXCEPT !.state = "done"]
  /\ saved' = <<>>
  /\ chatResets' = chatResets + 1
  /\ UNCHANGED <<asks, panelOpens, mounted, panelVars, closed, cache, fetch,
                 askRequest, pressed, remoteAsk>>

ServeLoad ==
  /\ fetch.on /\ ~fetch.read
  /\ fetch' = [on |-> TRUE, read |-> TRUE, data |-> saved]
  /\ UNCHANGED <<asks, panelOpens, mounted, panelVars, closed, cache,
                 askRequest, pressed, serverVars>>

-----------------------------------------------------------------------------
AskPanelInit ==
  /\ asks = 0 /\ panelOpens = 0 /\ chatResets = 0
  /\ mounted = FALSE
  /\ draft = FALSE /\ queue = <<>> /\ run = NoPanelAsk /\ skip = FALSE
  /\ error = "none" /\ overlay = NoOverlay
  /\ closed = NothingClosed
  /\ cache = [data |-> <<>>, loaded |-> FALSE, stale |-> FALSE]
  /\ fetch = NoFetch
  /\ reset = NoReset /\ remoteAsk \in BOOLEAN
  /\ askRequest = [n \in Asks |-> NeverSent]
  /\ pressed = {}
  /\ saved = <<>>

User ==
  \/ Type \/ Erase \/ Stop
  \/ \E by \in {"send", "prompt", "confirm"} : SubmitAsk(by)
  \/ \E kind \in {"new", "clear"} : StartReset(kind)
  \/ ReloadPanel \/ Open \/ Close \/ Switch

Arrivals ==
  Arrive \/ ArriveClosed \/ LoadReturns \/ FinishReset \/ FailReset

Server == (\E n \in Asks : Answer(n)) \/ ServeReset \/ ServeLoad

AskPanelNext == User \/ Arrivals \/ LoadFails \/ Server

AskPanelSpec == AskPanelInit /\ [][AskPanelNext]_askPanelVars

-----------------------------------------------------------------------------
(* Properties.                                                             *)

\* Every variable keeps its type.
TurnType == [ask : Asks, answered : BOOLEAN]
RequestType ==
  [state : {"none", "open"} \cup Answers \cup Refusals,
   confirm : BOOLEAN, chat : 0..MaxChatResets, posts : Nat]
AskPanelTypeOK ==
  /\ asks \in 0..MaxAsks /\ panelOpens \in 0..MaxPanelOpens
  /\ chatResets \in 0..MaxChatResets
  /\ mounted \in BOOLEAN /\ draft \in BOOLEAN /\ skip \in BOOLEAN
  /\ run \in Asks \cup {NoPanelAsk}
  /\ queue \in Seq(Asks)
  /\ error \in {"none"} \cup Refusals
  /\ overlay \in [on : BOOLEAN, thread : Seq(TurnType)]
  /\ closed \in
       [run : Asks \cup {NoPanelAsk}, queue : Seq(Asks), skip : BOOLEAN]
  /\ cache \in [data : Seq(Asks), loaded : BOOLEAN, stale : BOOLEAN]
  /\ fetch \in [on : BOOLEAN, read : BOOLEAN, data : Seq(Asks)]
  /\ reset \in [state : {"none", "open", "done"}, by : 0..MaxPanelOpens]
  /\ remoteAsk \in BOOLEAN
  /\ askRequest \in [Asks -> RequestType]
  /\ pressed \in SUBSET Asks
  /\ saved \in Seq(Asks)

\* However loads of the saved thread and the overlay interleave, no turn is
\* shown twice, and a question without an answer is shown only while it runs.
ThreadFits ==
  /\ \A i, j \in DOMAIN ShownTurns :
       ShownTurns[i].ask = ShownTurns[j].ask => i = j
  /\ \A i \in DOMAIN ShownTurns :
       ShownTurns[i].answered \/ ShownTurns[i].ask = run

\* A submission is sent to the server once at the most, by the panel that took
\* it or on after that was closed; and a follow-up never inherits the consent to
\* a remote provider that the user gave for another question.
SentOnce == \A n \in Asks : askRequest[n].posts <= 1
ConsentIsPerQuestion == \A n \in Asks : askRequest[n].confirm => n \in pressed
PostsAreMeant == SentOnce /\ ConsentIsPerQuestion

\* Follow-ups that are queued start when the turn before them ends
\* (DocumentAskPanel.tsx:159, :244).
QueuedFollowUpsStart ==
  mounted /\ run = NoPanelAsk /\ error = "none" => queue = <<>>
=============================================================================
