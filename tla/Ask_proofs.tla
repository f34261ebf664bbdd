----------------------------- MODULE Ask_proofs -----------------------------
(***************************************************************************)
(* Theorems about AskPanel and AskChat, and about the types of the         *)
(* components that a signed-in user meets at documents, taken together.    *)
(*                                                                         *)
(* AskPanel, for any number of submissions, of chats and of panels: each   *)
(* submission goes out at most once, and none confirms but the one whose   *)
(* button does, which rests on the queues of follow-ups, of the panel that *)
(* is open and of one that was closed.  The thread that is shown has each  *)
(* question once, which rests on that, on what was saved and on the turns  *)
(* that are laid over it.                                                  *)
(*                                                                         *)
(* AskChat, for every set of kinds and targets and any number of questions:*)
(* an answer is shown under the scope it is about, and consent to a remote *)
(* provider is asked for first.                                            *)
(*                                                                         *)
(* MCWebDocuments, whose constants have values: its type invariant follows *)
(* from those of the components, which are proved here and in              *)
(* Documents_proofs for all values.                                        *)
(***************************************************************************)
EXTENDS MCWebDocuments, Documents_proofs, SequenceTheorems, TLAPS

-----------------------------------------------------------------------------
(* AskPanel: queues of follow-ups.                                         *)

Waiting(q) == {q[i] : i \in DOMAIN q}
Distinct(q) == \A i, j \in DOMAIN q : q[i] = q[j] => i = j

LEMMA NobodyWaits ==
  <<>> \in Seq(Asks) /\ Waiting(<<>>) = {} /\ Distinct(<<>>)
  BY DEF Waiting, Distinct

LEMMA FirstLeaves ==
  ASSUME NEW q \in Seq(Asks), Distinct(q), q # <<>>
  PROVE  /\ Head(q) \in Waiting(q) /\ Head(q) \in Asks
         /\ Tail(q) \in Seq(Asks) /\ Distinct(Tail(q))
         /\ Waiting(Tail(q)) \subseteq Waiting(q) \ {Head(q)}
<1>1. /\ Head(q) \in Asks /\ Head(q) = q[1]
      /\ Tail(q) \in Seq(Asks) /\ Len(q) \in Nat \ {0}
      /\ DOMAIN q = 1..Len(q) /\ DOMAIN Tail(q) = 1..(Len(q) - 1)
      /\ \A i \in 1..(Len(q) - 1) : Tail(q)[i] = q[i + 1]
  BY HeadTailProperties, EmptySeq, LenProperties
<1>2. \A i \in DOMAIN Tail(q) : i + 1 \in DOMAIN q /\ i + 1 # 1
  BY <1>1
<1>3. Head(q) \in Waiting(q)
  BY <1>1 DEF Waiting
<1>4. Distinct(Tail(q))
  <2> SUFFICES ASSUME NEW i \in DOMAIN Tail(q), NEW j \in DOMAIN Tail(q),
                      Tail(q)[i] = Tail(q)[j]
               PROVE  i = j
    BY DEF Distinct
  <2>1. q[i + 1] = q[j + 1]
    BY <1>1
  <2>2. i + 1 = j + 1
    BY <1>2, <2>1 DEF Distinct
  <2> QED
    BY <1>1, <2>2
<1>5. ASSUME NEW i \in DOMAIN Tail(q)
      PROVE  Tail(q)[i] \in Waiting(q) \ {Head(q)}
  <2>1. Tail(q)[i] = q[i + 1] /\ 1 \in DOMAIN q
    BY <1>1
  <2>2. q[i + 1] # q[1]
    BY <1>2, <2>1 DEF Distinct
  <2> QED
    BY <1>1, <1>2, <2>1, <2>2 DEF Waiting
<1> QED
  BY <1>1, <1>3, <1>4, <1>5 DEF Waiting

LEMMA LastJoins ==
  ASSUME NEW q \in Seq(Asks), Distinct(q), NEW n \in Asks, n \notin Waiting(q)
  PROVE  /\ Append(q, n) \in Seq(Asks) /\ Distinct(Append(q, n))
         /\ Waiting(Append(q, n)) = Waiting(q) \cup {n}
<1>1. /\ Append(q, n) \in Seq(Asks) /\ Len(q) \in Nat
      /\ DOMAIN q = 1..Len(q) /\ DOMAIN Append(q, n) = 1..(Len(q) + 1)
      /\ \A i \in 1..Len(q) : Append(q, n)[i] = q[i]
      /\ Append(q, n)[Len(q) + 1] = n
  BY AppendProperties, LenProperties
<1>2. DOMAIN Append(q, n) = DOMAIN q \cup {Len(q) + 1}
      /\ Len(q) + 1 \notin DOMAIN q
  BY <1>1
<1>3. \A i \in DOMAIN q : q[i] # n
  BY DEF Waiting
<1>4. Distinct(Append(q, n))
  BY <1>1, <1>2, <1>3 DEF Distinct
<1>5. Waiting(Append(q, n)) = Waiting(q) \cup {n}
  BY <1>1, <1>2 DEF Waiting
<1> QED
  BY <1>1, <1>4, <1>5

-----------------------------------------------------------------------------
(* The inductive invariant.                                                *)

AnyRequest ==
  [state : {"none", "open"} \cup Answers \cup Refusals,
   confirm : BOOLEAN, chat : Nat, posts : Nat]

QueuesTyped ==
  /\ asks \in 0..MaxAsks /\ chatResets \in Nat
  /\ queue \in Seq(Asks) /\ closed.queue \in Seq(Asks)
  /\ askRequest \in [Asks -> AnyRequest]

\* Who waits in a queue waits there once and nowhere else, was submitted, and
\* has not been sent.
WaitsOnce ==
  /\ Distinct(queue) /\ Distinct(closed.queue)
  /\ Waiting(queue) \cap Waiting(closed.queue) = {}
  /\ \A n \in Waiting(queue) \cup Waiting(closed.queue) :
       n <= asks /\ askRequest[n].posts = 0
  /\ \A n \in Asks : n > asks => askRequest[n].posts = 0

QueueInv == QueuesTyped /\ WaitsOnce /\ SentOnce /\ ConsentIsPerQuestion

LEMMA PostTypes ==
  ASSUME NEW r \in [Asks -> AnyRequest], NEW n \in Asks,
         NEW confirm \in BOOLEAN, chatResets \in Nat
  PROVE  /\ Post(r, n, confirm) \in [Asks -> AnyRequest]
         /\ Post(r, n, confirm)[n].confirm = confirm
         /\ Post(r, n, confirm)[n].posts = r[n].posts + 1
         /\ \A m \in Asks \ {n} : Post(r, n, confirm)[m] = r[m]
  BY DEF Post, AnyRequest

LEMMA QueueInit == AskPanelInit => QueueInv
<1> SUFFICES ASSUME AskPanelInit PROVE QueueInv
  OBVIOUS
<1>1. NeverSent \in AnyRequest /\ NeverSent.posts = 0 /\ ~NeverSent.confirm
  BY DEF NeverSent, AnyRequest
<1>2. queue = <<>> /\ closed.queue = <<>> /\ asks = 0 /\ chatResets = 0
  BY DEF AskPanelInit, NothingClosed
<1>3. QueuesTyped
  BY <1>1, <1>2, AskAssumption, NobodyWaits DEF AskPanelInit, QueuesTyped
<1>4. \A n \in Asks : askRequest[n].posts = 0 /\ ~askRequest[n].confirm
  BY <1>1 DEF AskPanelInit
<1>5. WaitsOnce
  BY <1>2, <1>4, NobodyWaits DEF WaitsOnce
<1> QED
  BY <1>3, <1>4, <1>5 DEF QueueInv, SentOnce, ConsentIsPerQuestion

-----------------------------------------------------------------------------
(* How a step treats the two queues and the requests.                      *)

Kept ==
  /\ queue' \in Seq(Asks) /\ closed'.queue \in Seq(Asks)
  /\ Distinct(queue') /\ Distinct(closed'.queue)
  /\ Waiting(queue') \cap Waiting(closed'.queue) = {}

\* Nothing is sent.
LEMMA QuietStep ==
  ASSUME QueueInv, UNCHANGED <<asks, pressed>>, chatResets' \in Nat,
         Kept,
         Waiting(queue') \cup Waiting(closed'.queue)
           \subseteq Waiting(queue) \cup Waiting(closed.queue),
         askRequest' \in [Asks -> AnyRequest],
         \A n \in Asks : /\ askRequest'[n].posts = askRequest[n].posts
                         /\ askRequest'[n].confirm = askRequest[n].confirm
  PROVE  QueueInv'
<1>0. Waiting(queue) \cup Waiting(closed.queue) \subseteq Asks
  BY ElementOfSeq, LenProperties DEF QueueInv, QueuesTyped, Waiting
<1>1. QueuesTyped'
  BY DEF QueueInv, QueuesTyped, Kept
<1>2. WaitsOnce'
  BY <1>0 DEF QueueInv, WaitsOnce, Kept
<1>3. SentOnce' /\ ConsentIsPerQuestion'
  BY DEF QueueInv, SentOnce, ConsentIsPerQuestion
<1> QED
  BY <1>1, <1>2, <1>3 DEF QueueInv

\* A submission that was not sent goes out, and waits no more.
LEMMA SendStep ==
  ASSUME QueueInv, NEW n \in Asks, NEW confirm \in BOOLEAN,
         askRequest[n].posts = 0,
         askRequest' = Post(askRequest, n, confirm), chatResets' = chatResets,
         asks' \in {asks, asks + 1}, asks' \in 0..MaxAsks, n <= asks',
         pressed \subseteq pressed', confirm => n \in pressed',
         Kept,
         Waiting(queue') \cup Waiting(closed'.queue)
           \subseteq (Waiting(queue) \cup Waiting(closed.queue)) \ {n}
  PROVE  QueueInv'
<1>0. Waiting(queue) \cup Waiting(closed.queue) \subseteq Asks
  BY ElementOfSeq, LenProperties DEF QueueInv, QueuesTyped, Waiting
<1>1. /\ askRequest \in [Asks -> AnyRequest] /\ chatResets \in Nat
      /\ asks \in Nat
  BY AskAssumption DEF QueueInv, QueuesTyped
<1>2. /\ askRequest' \in [Asks -> AnyRequest]
      /\ askRequest'[n].confirm = confirm
      /\ askRequest'[n].posts = 1
      /\ \A m \in Asks \ {n} : askRequest'[m] = askRequest[m]
  BY <1>1, PostTypes
<1>3. QueuesTyped'
  BY <1>1, <1>2 DEF QueuesTyped, Kept
<1>4. \A m \in Waiting(queue') \cup Waiting(closed'.queue) :
        m <= asks' /\ askRequest'[m].posts = 0
  BY <1>0, <1>1, <1>2, AskAssumption DEF QueueInv, WaitsOnce, Asks
<1>5. \A m \in Asks : m > asks' => askRequest'[m].posts = 0
  BY <1>1, <1>2, AskAssumption DEF QueueInv, WaitsOnce, Asks
<1>6. WaitsOnce'
  BY <1>4, <1>5 DEF WaitsOnce, Kept
<1>7. SentOnce'
  BY <1>2 DEF QueueInv, SentOnce
<1>8. ConsentIsPerQuestion'
  BY <1>2 DEF QueueInv, ConsentIsPerQuestion
<1> QED
  BY <1>3, <1>6, <1>7, <1>8 DEF QueueInv

\* A turn of the open panel ends: the first that waits starts, or none does.
LEMMA EndTurnStep ==
  ASSUME QueueInv, NEW drain, NEW sk, NEW q \in {queue, <<>>}, NEW o, NEW err,
         EndTurn(drain, sk, q, o, err),
         UNCHANGED <<asks, pressed, closed, chatResets>>
  PROVE  QueueInv'
<1>1. /\ q \in Seq(Asks) /\ Distinct(q)
      /\ closed.queue \in Seq(Asks) /\ Distinct(closed.queue)
      /\ Waiting(q) \subseteq Waiting(queue)
      /\ Waiting(q) \cap Waiting(closed.queue) = {}
  BY NobodyWaits DEF QueueInv, QueuesTyped, WaitsOnce
<1>2. CASE /\ q # <<>> /\ queue' = Tail(q)
           /\ askRequest' = Post(askRequest, Head(q), FALSE)
  <2>1. /\ Head(q) \in Waiting(q) /\ Head(q) \in Asks
        /\ Tail(q) \in Seq(Asks) /\ Distinct(Tail(q))
        /\ Waiting(Tail(q)) \subseteq Waiting(q) \ {Head(q)}
    BY <1>1, <1>2, FirstLeaves
  <2>2. askRequest[Head(q)].posts = 0 /\ Head(q) <= asks
    BY <1>1, <2>1 DEF QueueInv, WaitsOnce
  <2>3. Kept
    BY <1>1, <1>2, <2>1 DEF Kept
  <2>4. Waiting(queue') \cup Waiting(closed'.queue)
          \subseteq (Waiting(queue) \cup Waiting(closed.queue)) \ {Head(q)}
    BY <1>1, <1>2, <2>1
  <2>5. asks' \in 0..MaxAsks
    BY DEF QueueInv, QueuesTyped
  <2> QED
    BY <1>2, <2>1, <2>2, <2>3, <2>4, <2>5, SendStep
<1>3. CASE queue' = q /\ UNCHANGED askRequest
  <2>1. Kept
    BY <1>1, <1>3 DEF Kept
  <2> QED
    BY <1>1, <1>3, <2>1, QuietStep DEF QueueInv, QueuesTyped
<1> QED
  BY <1>2, <1>3 DEF EndTurn, StartTurn

\* A turn of a closed panel ends, or one ends because its panel closes.
LEMMA AfterClosedStep ==
  ASSUME QueueInv, NEW drain, NEW sk, NEW q, AfterClosed(drain, sk, q),
         \/ q = closed.queue /\ queue' = queue
         \/ closed.queue = <<>> /\ q = queue /\ queue' = <<>>,
         UNCHANGED <<asks, pressed, chatResets>>
  PROVE  QueueInv'
<1>1. /\ q \in Seq(Asks) /\ Distinct(q)
      /\ queue' \in Seq(Asks) /\ Distinct(queue')
      /\ Waiting(queue') \cap Waiting(q) = {}
      /\ Waiting(queue') \cup Waiting(q)
           \subseteq Waiting(queue) \cup Waiting(closed.queue)
  BY NobodyWaits DEF QueueInv, QueuesTyped, WaitsOnce
<1>2. CASE /\ q # <<>> /\ closed'.queue = Tail(q)
           /\ askRequest' = Post(askRequest, Head(q), FALSE)
  <2>1. /\ Head(q) \in Waiting(q) /\ Head(q) \in Asks
        /\ Tail(q) \in Seq(Asks) /\ Distinct(Tail(q))
        /\ Waiting(Tail(q)) \subseteq Waiting(q) \ {Head(q)}
    BY <1>1, <1>2, FirstLeaves
  <2>2. askRequest[Head(q)].posts = 0 /\ Head(q) <= asks
    BY <1>1, <2>1 DEF QueueInv, WaitsOnce
  <2>3. Kept
    BY <1>1, <1>2, <2>1 DEF Kept
  <2>4. Waiting(queue') \cup Waiting(closed'.queue)
          \subseteq (Waiting(queue) \cup Waiting(closed.queue)) \ {Head(q)}
    BY <1>1, <1>2, <2>1
  <2>5. asks' \in 0..MaxAsks
    BY DEF QueueInv, QueuesTyped
  <2> QED
    BY <1>2, <2>1, <2>2, <2>3, <2>4, <2>5, SendStep
<1>3. CASE closed'.queue = <<>> /\ UNCHANGED askRequest
  <2>1. Kept
    BY <1>1, <1>3, NobodyWaits DEF Kept
  <2>2. Waiting(queue') \cup Waiting(closed'.queue)
          \subseteq Waiting(queue) \cup Waiting(closed.queue)
    BY <1>1, <1>3, NobodyWaits
  <2> QED
    BY <1>3, <2>1, <2>2, QuietStep DEF QueueInv, QueuesTyped
<1>4. CASE /\ closed' = [run |-> Head(q), queue |-> Tail(q), skip |-> FALSE]
           /\ askRequest' = Post(askRequest, Head(q), FALSE) /\ q # <<>>
  <2>1. closed'.queue = Tail(q)
    BY <1>4
  <2> QED
    BY <1>2, <1>4, <2>1
<1>5. CASE closed' = NothingClosed /\ UNCHANGED askRequest
  <2>1. closed'.queue = <<>>
    BY <1>5 DEF NothingClosed
  <2> QED
    BY <1>3, <1>5, <2>1
<1> QED
  BY <1>4, <1>5, Zenon DEF AfterClosed

\* The queue stays, or is given up, and nothing is sent.
LEMMA StillStep ==
  ASSUME QueueInv, UNCHANGED <<asks, pressed, closed, askRequest>>,
         chatResets' \in Nat, queue' \in {queue, <<>>}
  PROVE  QueueInv'
<1>1. Kept
  BY NobodyWaits DEF QueueInv, QueuesTyped, WaitsOnce, Kept
<1>2. Waiting(queue') \cup Waiting(closed'.queue)
        \subseteq Waiting(queue) \cup Waiting(closed.queue)
  BY NobodyWaits
<1> QED
  BY <1>1, <1>2, QuietStep DEF QueueInv, QueuesTyped

-----------------------------------------------------------------------------
(* The steps.                                                              *)

LEMMA SubmitStep ==
  ASSUME QueueInv, NEW by, SubmitAsk(by)
  PROVE  QueueInv'
<1> DEFINE n == asks + 1
           confirm == by = "confirm"
<1>1. /\ n \in Asks /\ asks' = n /\ n \in 0..MaxAsks
      /\ UNCHANGED <<closed, chatResets>>
      /\ pressed' = IF confirm THEN pressed \cup {n} ELSE pressed
  BY AskAssumption DEF SubmitAsk, serverVars, Asks
<1>2. /\ askRequest[n].posts = 0
      /\ n \notin Waiting(queue) /\ n \notin Waiting(closed.queue)
  BY <1>1, AskAssumption DEF QueueInv, QueuesTyped, WaitsOnce, Asks
<1>3. CASE UNCHANGED queue /\ askRequest' = Post(askRequest, n, confirm)
  <2>1. confirm \in BOOLEAN
    OBVIOUS
  <2>2. Kept
    BY <1>1, <1>3 DEF Kept, QueueInv, QueuesTyped, WaitsOnce
  <2>3. Waiting(queue') \cup Waiting(closed'.queue)
          \subseteq (Waiting(queue) \cup Waiting(closed.queue)) \ {n}
    BY <1>1, <1>2, <1>3
  <2>4. pressed \subseteq pressed' /\ (confirm => n \in pressed')
    BY <1>1
  <2>5. n <= asks'
    BY <1>1, AskAssumption DEF Asks
  <2> HIDE DEF n, confirm
  <2>6. asks' \in {asks, asks + 1} /\ asks' \in 0..MaxAsks
    BY <1>1 DEF n
  <2> QED
    BY <1>1, <1>2, <1>3, <2>1, <2>2, <2>3, <2>4, <2>5, <2>6, SendStep
<1>4. CASE queue' = Append(queue, n) /\ UNCHANGED askRequest
  <2>1. /\ Append(queue, n) \in Seq(Asks) /\ Distinct(Append(queue, n))
        /\ Waiting(Append(queue, n)) = Waiting(queue) \cup {n}
    BY <1>1, <1>2, LastJoins DEF QueueInv, QueuesTyped, WaitsOnce
  <2>2. QueuesTyped'
    BY <1>1, <1>4, <2>1 DEF QueueInv, QueuesTyped
  <2>3. WaitsOnce'
    <3>1. \A m \in Waiting(queue') \cup Waiting(closed'.queue) :
            m <= asks' /\ askRequest'[m].posts = 0
      <4>1. Waiting(queue) \cup Waiting(closed.queue) \subseteq Asks
        BY ElementOfSeq, LenProperties DEF QueueInv, QueuesTyped, Waiting
      <4>2. \A m \in Asks : m <= asks => m <= asks'
        BY <1>1, AskAssumption DEF QueueInv, QueuesTyped, Asks
      <4>3. n <= asks'
        BY <1>1, AskAssumption DEF Asks
      <4> QED
        BY <1>1, <1>2, <1>4, <2>1, <4>1, <4>2, <4>3 DEF QueueInv, WaitsOnce
    <3>2. \A m \in Asks : m > asks' => askRequest'[m].posts = 0
      BY <1>1, <1>4, AskAssumption DEF QueueInv, QueuesTyped, WaitsOnce, Asks
    <3> QED
      BY <1>1, <1>2, <1>4, <2>1, <3>1, <3>2 DEF QueueInv, WaitsOnce
  <2>4. SentOnce' /\ ConsentIsPerQuestion'
    BY <1>1, <1>4 DEF QueueInv, SentOnce, ConsentIsPerQuestion
  <2> QED
    BY <2>2, <2>3, <2>4 DEF QueueInv
<1> QED
  BY <1>3, <1>4 DEF SubmitAsk, StartTurn

LEMMA QueueStep ==
  QueueInv /\ [AskPanelNext]_askPanelVars => QueueInv'
<1> SUFFICES ASSUME QueueInv, [AskPanelNext]_askPanelVars PROVE QueueInv'
  OBVIOUS
<1>0. chatResets \in Nat /\ chatResets + 1 \in Nat
  BY DEF QueueInv, QueuesTyped
<1>1. CASE \/ Type \/ Erase \/ ReloadPanel \/ LoadReturns \/ LoadFails
           \/ FinishReset \/ FailReset \/ ServeReset \/ ServeLoad
           \/ UNCHANGED askPanelVars
  BY <1>0, <1>1, StillStep
  DEF Type, Erase, ReloadPanel, LoadReturns, LoadFails, FinishReset, FailReset,
      ServeReset, ServeLoad, askPanelVars, panelVars, serverVars
<1>2. CASE Open \/ Switch
  BY <1>0, <1>2, StillStep DEF Open, Switch, FreshPanel, serverVars
<1>3. ASSUME NEW by \in {"send", "prompt", "confirm"}, SubmitAsk(by)
      PROVE  QueueInv'
  BY <1>3, SubmitStep
<1>4. ASSUME NEW sk, NEW q \in {queue, <<>>}, Abort(sk, q),
             UNCHANGED <<asks, pressed, closed, chatResets>>
      PROVE  QueueInv'
  BY <1>4, EndTurnStep DEF Abort
<1>5. CASE Stop
  BY <1>4, <1>5 DEF Stop, serverVars
<1>6. ASSUME NEW kind \in {"new", "clear"}, StartReset(kind)
      PROVE  QueueInv'
  BY <1>0, <1>4, <1>6, StillStep DEF StartReset
<1>7. CASE Arrive
  BY <1>7, EndTurnStep DEF Arrive, Succeed, Fail, serverVars
<1>8. CASE ArriveClosed
  BY <1>8, AfterClosedStep DEF ArriveClosed, panelVars, serverVars
<1>9. CASE Close
  <2>1. closed.queue = <<>> /\ queue' = <<>>
        /\ UNCHANGED <<asks, pressed, chatResets>>
    BY <1>9 DEF Close, FreshPanel, NothingClosed, serverVars
  <2>2. \/ UNCHANGED <<closed, askRequest>>
        \/ AfterClosed(TRUE, skip, queue) \/ AfterClosed(FALSE, skip, queue)
    BY <1>9 DEF Close
  <2> QED
    BY <1>0, <2>1, <2>2, StillStep, AfterClosedStep
<1>10. ASSUME NEW n \in Asks, Answer(n)
       PROVE  QueueInv'
  <2>1. PICK s \in Answers \cup Refusals :
               askRequest' = [askRequest EXCEPT ![n].state = s]
    BY <1>10 DEF Answer
  <2>2. /\ askRequest' \in [Asks -> AnyRequest]
        /\ \A m \in Asks : /\ askRequest'[m].posts = askRequest[m].posts
                           /\ askRequest'[m].confirm = askRequest[m].confirm
    BY <2>1 DEF QueueInv, QueuesTyped, AnyRequest
  <2>3. UNCHANGED <<asks, pressed, chatResets, queue, closed>>
    BY <1>10 DEF Answer, panelVars
  <2>4. Kept
    BY <2>3 DEF Kept, QueueInv, QueuesTyped, WaitsOnce
  <2> QED
    BY <1>0, <2>2, <2>3, <2>4, QuietStep
<1> QED
  BY <1>1, <1>2, <1>3, <1>5, <1>6, <1>7, <1>8, <1>9, <1>10
  DEF AskPanelNext, User, Arrivals, Server

-----------------------------------------------------------------------------
LEMMA QueueInvariant == AskPanelSpec => []QueueInv
  BY QueueInit, QueueStep, PTL DEF AskPanelSpec

\* No submission is sent to the server twice, and none goes to a remote provider
\* on the consent given to another one, whatever is stopped, replaced, closed or
\* answered late while it waits.
THEOREM EveryPostIsMeant == AskPanelSpec => []PostsAreMeant
<1>1. QueueInv => PostsAreMeant
  BY DEF QueueInv, PostsAreMeant
<1> QED
  BY <1>1, QueueInvariant, PTL

-----------------------------------------------------------------------------
(* AskPanel: the types of what has no part in the thread, which do not     *)
(* rest on it.  A chat is replaced only within the bound.                  *)

CacheType == [data : Seq(Asks), loaded : BOOLEAN, stale : BOOLEAN]
FetchType == [on : BOOLEAN, read : BOOLEAN, data : Seq(Asks)]
ClosedType == [run : Asks \cup {NoPanelAsk}, queue : Seq(Asks), skip : BOOLEAN]
AskResetType == [state : {"none", "open", "done"}, by : 0..MaxPanelOpens]
ErrorType == {"none"} \cup Refusals

CountsTyped ==
  /\ panelOpens \in 0..MaxPanelOpens /\ chatResets \in 0..MaxChatResets
  /\ reset \in AskResetType /\ remoteAsk \in BOOLEAN /\ pressed \in SUBSET Asks
  /\ reset.state = "open" => chatResets < MaxChatResets

PanelTyped ==
  /\ mounted \in BOOLEAN /\ draft \in BOOLEAN /\ skip \in BOOLEAN
  /\ run \in Asks \cup {NoPanelAsk} /\ error \in ErrorType

DataTyped == cache \in CacheType /\ fetch \in FetchType /\ saved \in Seq(Asks)

RequestsTyped == closed \in ClosedType /\ askRequest \in [Asks -> RequestType]

TypesInv == CountsTyped /\ PanelTyped /\ DataTyped /\ RequestsTyped

LEMMA TypesInit == AskPanelInit => TypesInv
<1> SUFFICES ASSUME AskPanelInit PROVE TypesInv
  OBVIOUS
<1>1. CountsTyped
  BY AskAssumption DEF AskPanelInit, CountsTyped, NoReset, AskResetType
<1>2. PanelTyped
  BY DEF AskPanelInit, PanelTyped, ErrorType
<1>3. DataTyped
  BY NobodyWaits DEF AskPanelInit, DataTyped, CacheType, FetchType, NoFetch
<1>4. NeverSent \in RequestType
  BY AskAssumption DEF NeverSent, RequestType
<1>5. RequestsTyped
  BY <1>4, NobodyWaits
  DEF AskPanelInit, RequestsTyped, NothingClosed, ClosedType
<1> QED
  BY <1>1, <1>2, <1>3, <1>5 DEF TypesInv

LEMMA PostTyped ==
  ASSUME TypesInv, NEW n \in Asks, NEW confirm \in BOOLEAN
  PROVE  Post(askRequest, n, confirm) \in [Asks -> RequestType]
  BY DEF TypesInv, CountsTyped, RequestsTyped, RequestType, Post

LEMMA InvalidateTyped ==
  ASSUME TypesInv, Invalidate, saved' = saved
  PROVE  DataTyped'
<1>1. NewFetch \in FetchType
  BY NobodyWaits DEF NewFetch, NoFetch, FetchType
<1>2. cache' \in CacheType
  BY DEF Invalidate, TypesInv, DataTyped, PanelTyped, CacheType
<1> QED
  BY <1>1, <1>2 DEF Invalidate, TypesInv, DataTyped

LEMMA EndTurnTyped ==
  ASSUME TypesInv, QueueInv, NEW drain, NEW sk, NEW q \in {queue, <<>>}, NEW o,
         NEW err \in ErrorType, EndTurn(drain, sk, q, o, err), closed' = closed
  PROVE  /\ skip' \in BOOLEAN /\ run' \in Asks \cup {NoPanelAsk}
         /\ error' \in ErrorType /\ RequestsTyped'
<1>1. CASE q # <<>> /\ StartTurn(Head(q), o, askRequest, FALSE)
  <2>1. Head(q) \in Asks
    BY <1>1, FirstLeaves DEF QueueInv, QueuesTyped, WaitsOnce
  <2>2. Post(askRequest, Head(q), FALSE) \in [Asks -> RequestType]
    BY <2>1, PostTyped
  <2> QED
    BY <1>1, <2>1, <2>2
    DEF EndTurn, StartTurn, TypesInv, RequestsTyped, ErrorType
<1>2. CASE run' = NoPanelAsk /\ error' = err /\ UNCHANGED askRequest
  BY <1>2 DEF EndTurn, TypesInv, RequestsTyped
<1> QED
  BY <1>1, <1>2 DEF EndTurn

LEMMA AfterClosedTyped ==
  ASSUME TypesInv, QueueInv, NEW drain, NEW sk,
         NEW q \in {queue, closed.queue}, AfterClosed(drain, sk, q)
  PROVE  RequestsTyped'
<1>1. CASE /\ q # <<>>
           /\ closed' = [run |-> Head(q), queue |-> Tail(q), skip |-> FALSE]
           /\ askRequest' = Post(askRequest, Head(q), FALSE)
  <2>1. Head(q) \in Asks /\ Tail(q) \in Seq(Asks)
    BY <1>1, FirstLeaves DEF QueueInv, QueuesTyped, WaitsOnce
  <2>2. Post(askRequest, Head(q), FALSE) \in [Asks -> RequestType]
    BY <2>1, PostTyped
  <2> QED
    BY <1>1, <2>1, <2>2 DEF RequestsTyped, ClosedType
<1>2. CASE closed' = NothingClosed /\ UNCHANGED askRequest
  BY <1>2, NobodyWaits
  DEF TypesInv, RequestsTyped, NothingClosed, ClosedType
<1> QED
  BY <1>1, <1>2, Zenon DEF AfterClosed

LEMMA AbortTyped ==
  ASSUME TypesInv, QueueInv, NEW sk, NEW q \in {queue, <<>>}, Abort(sk, q),
         closed' = closed, mounted' = mounted, saved' = saved
  PROVE  PanelTyped' /\ DataTyped' /\ RequestsTyped'
<1>1. \/ EndTurn(TRUE, sk, q, Rollback(run), "none")
      \/ EndTurn(FALSE, sk, q, Rollback(run), "failed")
  BY DEF Abort
<1>5. "none" \in ErrorType /\ "failed" \in ErrorType
  BY DEF ErrorType, Refusals
<1>2. /\ skip' \in BOOLEAN /\ run' \in Asks \cup {NoPanelAsk}
      /\ error' \in ErrorType /\ RequestsTyped'
  BY <1>1, <1>5, EndTurnTyped
<1>3. DataTyped'
  BY InvalidateTyped DEF Abort, TypesInv, DataTyped
<1>4. draft' \in BOOLEAN /\ mounted' \in BOOLEAN
  BY DEF Abort, TypesInv, PanelTyped
<1> QED
  BY <1>2, <1>3, <1>4 DEF PanelTyped

LEMMA TypesStep ==
  QueueInv /\ TypesInv /\ [AskPanelNext]_askPanelVars => TypesInv'
<1> SUFFICES ASSUME QueueInv, TypesInv, [AskPanelNext]_askPanelVars
             PROVE  TypesInv'
  OBVIOUS
<1>0. CountsTyped /\ PanelTyped /\ DataTyped /\ RequestsTyped
  BY DEF TypesInv
<1>1. ASSUME UNCHANGED <<panelOpens, chatResets, reset, remoteAsk, pressed>>
      PROVE  CountsTyped'
  BY <1>0, <1>1 DEF CountsTyped
<1>2. ASSUME UNCHANGED <<mounted, skip, run, error>>, draft' \in BOOLEAN
      PROVE  PanelTyped'
  BY <1>0, <1>2 DEF PanelTyped
<1>3. ASSUME UNCHANGED <<cache, fetch, saved>>
      PROVE  DataTyped'
  BY <1>0, <1>3 DEF DataTyped
<1>4. ASSUME UNCHANGED <<closed, askRequest>>
      PROVE  RequestsTyped'
  BY <1>0, <1>4 DEF RequestsTyped
<1>5. draft \in BOOLEAN /\ NewFetch \in FetchType /\ NoFetch \in FetchType
  BY <1>0, NobodyWaits DEF PanelTyped, NewFetch, NoFetch, FetchType
<1>6. CASE Type \/ Erase \/ UNCHANGED askPanelVars
  BY <1>1, <1>2, <1>3, <1>4, <1>5, <1>6
  DEF Type, Erase, askPanelVars, panelVars, serverVars, TypesInv
<1>7. CASE ReloadPanel \/ LoadFails \/ ServeLoad \/ LoadReturns
  <2>1. CountsTyped' /\ PanelTyped' /\ RequestsTyped'
    BY <1>1, <1>2, <1>4, <1>5, <1>7
    DEF ReloadPanel, LoadFails, ServeLoad, LoadReturns, panelVars, serverVars
  <2>2. DataTyped'
    <3>1. CASE ReloadPanel \/ LoadFails
      BY <1>0, <1>5, <3>1 DEF ReloadPanel, LoadFails, serverVars, DataTyped
    <3>2. CASE ServeLoad
      <4>1. /\ fetch' = [on |-> TRUE, read |-> TRUE, data |-> saved]
            /\ UNCHANGED <<cache, saved>>
        BY <3>2 DEF ServeLoad, serverVars
      <4> QED
        BY <1>0, <4>1 DEF DataTyped, FetchType
    <3>3. CASE LoadReturns
      <4>1. /\ cache' = [data |-> fetch.data, loaded |-> TRUE, stale |-> FALSE]
            /\ fetch' = NoFetch /\ saved' = saved
        BY <3>3 DEF LoadReturns, serverVars
      <4>2. fetch.data \in Seq(Asks)
        BY <1>0 DEF DataTyped, FetchType
      <4>3. cache' \in CacheType
        BY <4>1, <4>2 DEF CacheType
      <4> QED
        BY <1>0, <1>5, <4>1, <4>3 DEF DataTyped
    <3> QED
      BY <1>7, <3>1, <3>2, <3>3
  <2> QED
    BY <2>1, <2>2 DEF TypesInv
<1>8. CASE FinishReset \/ FailReset \/ ServeReset
  <2>1. PanelTyped' /\ RequestsTyped'
    BY <1>0, <1>8
    DEF FinishReset, FailReset, ServeReset, panelVars, PanelTyped, ErrorType,
        RequestsTyped
  <2>2. DataTyped'
    <3>1. Emptied \in CacheType
      BY NobodyWaits DEF Emptied, CacheType
    <3> QED
      BY <1>0, <1>8, <3>1, NobodyWaits
      DEF FinishReset, FailReset, ServeReset, DataTyped
  <2>3. CountsTyped'
    BY <1>0, <1>8, AskAssumption
    DEF FinishReset, FailReset, ServeReset, CountsTyped, AskResetType, NoReset
  <2> QED
    BY <2>1, <2>2, <2>3 DEF TypesInv
<1>9. ASSUME FreshPanel, mounted' \in BOOLEAN
      PROVE  PanelTyped'
  BY <1>9 DEF FreshPanel, PanelTyped, ErrorType
<1>10. CASE Open \/ Switch
  <2>1. PanelTyped' /\ RequestsTyped'
    BY <1>4, <1>9, <1>10 DEF Open, Switch
  <2>2. DataTyped'
    BY <1>0, <1>5, <1>10 DEF Open, Switch, DataTyped, serverVars
  <2>3. CountsTyped'
    BY <1>0, <1>10, AskAssumption DEF Open, Switch, CountsTyped, serverVars
  <2> QED
    BY <2>1, <2>2, <2>3 DEF TypesInv
<1>11. CASE Close
  <2>1. PanelTyped' /\ CountsTyped'
    BY <1>1, <1>9, <1>11 DEF Close, serverVars
  <2>2. DataTyped'
    BY <1>0, <1>11 DEF Close, DataTyped, CacheType, serverVars
  <2>3. RequestsTyped'
    BY <1>4, <1>11, AfterClosedTyped DEF Close
  <2> QED
    BY <2>1, <2>2, <2>3 DEF TypesInv
<1>12. CASE ArriveClosed
  <2>1. PanelTyped' /\ CountsTyped'
    BY <1>1, <1>2, <1>5, <1>12 DEF ArriveClosed, panelVars, serverVars
  <2>2. DataTyped'
    BY <1>3, <1>12, InvalidateTyped DEF ArriveClosed, serverVars
  <2>3. RequestsTyped'
    BY <1>12, AfterClosedTyped DEF ArriveClosed
  <2> QED
    BY <2>1, <2>2, <2>3 DEF TypesInv
<1>13. CASE Stop
  <2>1. PanelTyped' /\ DataTyped' /\ RequestsTyped'
    BY <1>13, AbortTyped DEF Stop, serverVars
  <2> QED
    BY <1>1, <1>13, <2>1 DEF Stop, serverVars, TypesInv
<1>14. ASSUME NEW kind \in {"new", "clear"}, StartReset(kind)
       PROVE  TypesInv'
  <2>1. CountsTyped'
    BY <1>0, <1>14
    DEF StartReset, NewChatOffered, CountsTyped, AskResetType
  <2>2. CASE run # NoPanelAsk
    BY <1>14, <2>1, <2>2, AbortTyped DEF StartReset, TypesInv
  <2>3. CASE run = NoPanelAsk
    BY <1>0, <1>3, <1>4, <1>14, <2>1, <2>3
    DEF StartReset, PanelTyped, TypesInv
  <2> QED
    BY <2>2, <2>3
<1>15. CASE Arrive
  <2>1. CountsTyped' /\ UNCHANGED <<mounted, closed, saved>>
    BY <1>1, <1>15 DEF Arrive, serverVars
  <2>2. DataTyped'
    BY <1>3, <1>15, <2>1, InvalidateTyped DEF Arrive
  <2>3. draft' \in BOOLEAN /\ mounted' \in BOOLEAN
    BY <1>0, <1>15, <2>1 DEF Arrive, Fail, PanelTyped
  <2> DEFINE o == Overlay(Append(Without(Thread(overlay, cache), run),
                                 Turn(run, TRUE)))
             err == askRequest[run].state
  <2>4. \/ EndTurn(TRUE, skip, queue, o, "none")
        \/ err \in Refusals /\ EndTurn(FALSE, skip, queue, Rollback(run), err)
    BY <1>15 DEF Arrive, Succeed, Fail
  <2>6. "none" \in ErrorType /\ Refusals \subseteq ErrorType
    BY DEF ErrorType
  <2> HIDE DEF o, err
  <2>5. /\ skip' \in BOOLEAN /\ run' \in Asks \cup {NoPanelAsk}
        /\ error' \in ErrorType /\ RequestsTyped'
    BY <2>1, <2>4, <2>6, EndTurnTyped
  <2> QED
    BY <2>1, <2>2, <2>3, <2>5 DEF TypesInv, PanelTyped
<1>16. ASSUME NEW n \in Asks, Answer(n)
       PROVE  TypesInv'
  <2>1. CountsTyped' /\ PanelTyped'
    BY <1>1, <1>2, <1>5, <1>16 DEF Answer, panelVars
  <2>2. PICK s \in Answers \cup Refusals :
          /\ askRequest' = [askRequest EXCEPT ![n].state = s]
          /\ saved' = IF s = "saved" THEN Append(saved, n) ELSE saved
    BY <1>16 DEF Answer
  <2>3. DataTyped'
    BY <1>0, <1>16, <2>2, AppendProperties DEF Answer, DataTyped
  <2>4. RequestsTyped'
    BY <1>0, <1>16, <2>2 DEF Answer, RequestsTyped, RequestType
  <2> QED
    BY <2>1, <2>3, <2>4 DEF TypesInv
<1>17. ASSUME NEW by, SubmitAsk(by)
       PROVE  TypesInv'
  <2> DEFINE n == asks + 1
             confirm == by = "confirm"
  <2>1. n \in Asks /\ UNCHANGED <<mounted, skip, closed, cache, fetch>>
        /\ UNCHANGED <<panelOpens, chatResets, reset, remoteAsk, saved>>
        /\ draft' = FALSE /\ pressed' \in {pressed, pressed \cup {n}}
    BY <1>17 DEF SubmitAsk, serverVars
  <2>2. CountsTyped' /\ DataTyped'
    BY <1>0, <1>3, <2>1 DEF CountsTyped
  <2>3. CASE UNCHANGED <<run, error, askRequest>>
    BY <1>2, <1>4, <2>1, <2>2, <2>3 DEF TypesInv
  <2>4. CASE StartTurn(n, overlay, askRequest, confirm)
    <3>1. confirm \in BOOLEAN
      OBVIOUS
    <3> HIDE DEF n, confirm
    <3>2. Post(askRequest, n, confirm) \in [Asks -> RequestType]
      BY <2>1, <3>1, PostTyped
    <3>3. PanelTyped' /\ RequestsTyped'
      BY <1>0, <2>1, <2>4, <3>2
      DEF StartTurn, PanelTyped, RequestsTyped, ErrorType
    <3> QED
      BY <2>2, <3>3 DEF TypesInv
  <2> QED
    BY <1>17, <2>3, <2>4 DEF SubmitAsk
<1> QED
  BY <1>6, <1>7, <1>8, <1>10, <1>11, <1>12, <1>13, <1>14, <1>15, <1>16, <1>17
  DEF AskPanelNext, User, Arrivals, Server

LEMMA TypesInvariant == AskPanelSpec => []TypesInv
  BY TypesInit, TypesStep, QueueInvariant, PTL DEF AskPanelSpec

-----------------------------------------------------------------------------
(* AskPanel: the thread that is shown.                                     *)

AskedIn(thread) == {thread[i].ask : i \in DOMAIN thread}

Sent == {n \in Asks : askRequest[n].posts > 0}

\* Each question is there once, and has its answer unless it is r.
Fits(thread, r) ==
  /\ \A i, j \in DOMAIN thread : thread[i].ask = thread[j].ask => i = j
  /\ \A i \in DOMAIN thread : thread[i].answered <=> thread[i].ask # r

\* A turn that runs is laid over the saved thread, with those before it, unless
\* New chat or Clear has taken them away; nothing is shown that was not sent.
Laid(o, r, sent) ==
  /\ r \in sent \cup {NoPanelAsk}
  /\ r # NoPanelAsk => o.on
  /\ o \in [on : BOOLEAN, thread : Seq(TurnType)]
  /\ Fits(o.thread, r)
  /\ AskedIn(o.thread) \subseteq sent

\* What the server has saved now, or had when it was read.
Saved == {n \in Asks : askRequest[n].state = "saved"}
AllSaved(data) ==
  data \in Seq(Asks) /\ Distinct(data) /\ Waiting(data) \subseteq Saved

NewUntilSent ==
  \A n \in Asks : askRequest[n].posts = 0 => askRequest[n].state = "none"

SavedOnce ==
  /\ AllSaved(saved) /\ AllSaved(fetch.data) /\ AllSaved(cache.data)
  /\ NewUntilSent

ThreadInv == SavedOnce /\ Laid(overlay, run, Sent)

LEMMA NoTurns ==
  /\ <<>> \in Seq(TurnType) /\ AskedIn(<<>>) = {}
  /\ \A r : Fits(<<>>, r)
  BY DEF AskedIn, Fits

LEMMA SavedTurns ==
  ASSUME QueueInv, SavedOnce, NEW data, AllSaved(data)
  PROVE  /\ Turns(data) \in Seq(TurnType)
         /\ Fits(Turns(data), NoPanelAsk)
         /\ AskedIn(Turns(data)) \subseteq Sent
<1>1. /\ Len(data) \in Nat /\ DOMAIN data = 1..Len(data)
      /\ \A i \in DOMAIN data : data[i] \in Asks
  BY LenProperties, ElementOfSeq DEF AllSaved
<1>2. /\ DOMAIN Turns(data) = DOMAIN data
      /\ \A i \in DOMAIN data : /\ Turns(data)[i] \in TurnType
                                /\ Turns(data)[i].ask = data[i]
                                /\ Turns(data)[i].answered
  BY <1>1 DEF Turns, Turn, TurnType
<1>3. Turns(data) \in Seq(TurnType)
  <2>1. Turns(data) \in [1..Len(data) -> TurnType]
    BY <1>1, <1>2 DEF Turns
  <2> QED
    BY <1>1, <2>1
<1>4. Fits(Turns(data), NoPanelAsk)
  BY <1>1, <1>2 DEF Fits, AllSaved, Distinct, Asks, NoPanelAsk
<1>5. Saved \subseteq Sent
  BY DEF SavedOnce, NewUntilSent, QueueInv, QueuesTyped, AnyRequest, Sent, Saved
<1>6. AskedIn(Turns(data)) = Waiting(data)
  BY <1>2 DEF AskedIn, Waiting
<1> QED
  BY <1>3, <1>4, <1>5, <1>6 DEF AllSaved

\* The question that runs is taken out, and the other turns keep their order.
LEMMA OthersStay ==
  ASSUME NEW thread \in Seq(TurnType), NEW r \in Asks, Fits(thread, r)
  PROVE  /\ Without(thread, r) \in Seq(TurnType)
         /\ Fits(Without(thread, r), NoPanelAsk)
         /\ AskedIn(Without(thread, r)) \subseteq AskedIn(thread) \ {r}
<1> DEFINE asked == {i \in DOMAIN thread : thread[i] = Turn(r, FALSE)}
<1>1. /\ Len(thread) \in Nat /\ DOMAIN thread = 1..Len(thread)
      /\ \A i \in DOMAIN thread : thread[i] \in TurnType
  BY LenProperties, ElementOfSeq
<1>2. \A i \in DOMAIN thread : thread[i].ask = r => i \in asked
  BY <1>1 DEF Fits, Turn, TurnType
<1>3. CASE asked = {}
  <2>1. Without(thread, r) = thread
    BY <1>3 DEF Without
  <2>2. \A i \in DOMAIN thread : thread[i].ask # r
    <3> HIDE DEF asked
    <3> QED
      BY <1>2, <1>3
  <2>5. \A i \in DOMAIN thread : thread[i].ask # NoPanelAsk
    BY <1>1 DEF TurnType, Asks, NoPanelAsk
  <2>3. Fits(thread, NoPanelAsk)
    BY <2>2, <2>5 DEF Fits
  <2>4. AskedIn(thread) \subseteq AskedIn(thread) \ {r}
    BY <2>2 DEF AskedIn
  <2> QED
    BY <2>1, <2>3, <2>4
<1>4. CASE asked # {}
  <2> DEFINE k == CHOOSE i \in asked : TRUE
             rest == RemoveAt(thread, k)
             len == Len(thread)
  <2>1. k \in asked
    BY <1>4
  <2>2. Without(thread, r) = rest
    BY <1>4 DEF Without
  <2> HIDE DEF k
  <2>3. k \in 1..len /\ thread[k].ask = r
    BY <1>1, <2>1 DEF Turn
  <2>4. /\ rest \in Seq(TurnType) /\ DOMAIN rest = 1..(len - 1)
        /\ \A i \in 1..(len - 1) :
             rest[i] = IF i < k THEN thread[i] ELSE thread[i + 1]
    <3> DEFINE a == SubSeq(thread, 1, k - 1)
               b == SubSeq(thread, k + 1, len)
    <3>3. rest = a \o b
      BY DEF RemoveAt
    <3>4. len \in Nat /\ k \in 1..len /\ len \in Int /\ k \in Int
      BY <1>1, <2>3
    <3> HIDE DEF rest, len
    <3>0. /\ \A i \in 1..(k - 1) : thread[i] \in TurnType
          /\ \A i \in (k + 1)..len : thread[i] \in TurnType
      BY <1>1, <3>4 DEF len
    <3>1. /\ a \in Seq(TurnType) /\ Len(a) = k - 1
          /\ \A i \in 1..(k - 1) : a[i] = thread[i]
      BY <3>0, <3>4, SubSeqProperties
    <3>2. /\ b \in Seq(TurnType) /\ Len(b) = len - k
          /\ \A i \in 1..(len - k) : b[i] = thread[k + i]
      BY <3>0, <3>4, SubSeqProperties
    <3> HIDE DEF a, b
    <3>5. /\ a \o b \in Seq(TurnType) /\ Len(a \o b) = len - 1
          /\ \A i \in 1..(len - 1) :
               (a \o b)[i] = IF i <= k - 1 THEN a[i] ELSE b[i - (k - 1)]
      <4>1. /\ a \o b \in Seq(TurnType) /\ Len(a \o b) = Len(a) + Len(b)
            /\ \A i \in 1..(Len(a) + Len(b)) :
                 (a \o b)[i] = IF i <= Len(a) THEN a[i] ELSE b[i - Len(a)]
        BY <3>1, <3>2, ConcatProperties
      <4>2. Len(a) + Len(b) = len - 1
        BY <3>1, <3>2, <3>4
      <4> QED
        BY <3>1, <4>1, <4>2
    <3>6. ASSUME NEW i \in 1..(len - 1)
          PROVE  rest[i] = IF i < k THEN thread[i] ELSE thread[i + 1]
      <4>1. CASE i < k
        BY <3>1, <3>3, <3>4, <3>5, <4>1
      <4>2. CASE ~(i < k)
        <5>1. i - (k - 1) \in 1..(len - k) /\ k + (i - (k - 1)) = i + 1
          BY <3>4, <4>2
        <5>2. ~(i <= k - 1)
          BY <3>4, <4>2
        <5> QED
          BY <3>2, <3>3, <3>5, <4>2, <5>1, <5>2
      <4> QED
        BY <4>1, <4>2
    <3> QED
      BY <3>3, <3>4, <3>5, <3>6, LenProperties
  <2> HIDE DEF rest, len
  <2> DEFINE At(i) == IF i < k THEN i ELSE i + 1
  <2>5. ASSUME NEW i \in DOMAIN rest
        PROVE  /\ At(i) \in DOMAIN thread /\ At(i) # k
               /\ rest[i] = thread[At(i)]
    BY <1>1, <2>3, <2>4 DEF len
  <2>6. ASSUME NEW i \in DOMAIN rest
        PROVE  /\ rest[i].ask # r /\ rest[i].answered
               /\ rest[i].ask # NoPanelAsk
    <3>1. thread[At(i)].ask # r
      BY <1>1, <2>3, <2>5 DEF Fits, len
    <3> QED
      BY <1>1, <2>5, <3>1 DEF Fits, TurnType, Asks, NoPanelAsk
  <2>7. ASSUME NEW i \in DOMAIN rest, NEW j \in DOMAIN rest,
               rest[i].ask = rest[j].ask
        PROVE  i = j
    <3>1. At(i) = At(j)
      BY <2>5, <2>7 DEF Fits
    <3> QED
      BY <1>1, <2>3, <2>4, <3>1 DEF len
  <2> QED
    BY <2>2, <2>4, <2>5, <2>6, <2>7 DEF Fits, AskedIn
<1> QED
  BY <1>3, <1>4

LEMMA TurnJoins ==
  ASSUME NEW thread \in Seq(TurnType), Fits(thread, NoPanelAsk),
         NEW n \in Asks, n \notin AskedIn(thread), NEW answered \in BOOLEAN
  PROVE  /\ Append(thread, Turn(n, answered)) \in Seq(TurnType)
         /\ Fits(Append(thread, Turn(n, answered)),
                 IF answered THEN NoPanelAsk ELSE n)
         /\ AskedIn(Append(thread, Turn(n, answered)))
              = AskedIn(thread) \cup {n}
<1> DEFINE t == Turn(n, answered)
           longer == Append(thread, t)
<1>1. t \in TurnType /\ t.ask = n /\ t.answered = answered
  BY DEF Turn, TurnType
<1> HIDE DEF t
<1>2. /\ longer \in Seq(TurnType) /\ Len(thread) \in Nat
      /\ DOMAIN thread = 1..Len(thread)
      /\ DOMAIN longer = DOMAIN thread \cup {Len(thread) + 1}
      /\ Len(thread) + 1 \notin DOMAIN thread
      /\ \A i \in DOMAIN thread : longer[i] = thread[i]
      /\ longer[Len(thread) + 1] = t
  BY <1>1, AppendProperties, LenProperties
<1> HIDE DEF longer
<1>3. \A i \in DOMAIN thread : thread[i].ask # n /\ thread[i].answered
  <2>1. \A i \in DOMAIN thread : thread[i] \in TurnType
    BY <1>2, ElementOfSeq
  <2>2. \A i \in DOMAIN thread : thread[i].ask # NoPanelAsk
    BY <2>1 DEF TurnType, Asks, NoPanelAsk
  <2> QED
    BY <2>2 DEF AskedIn, Fits
<1>4. n # NoPanelAsk
  BY DEF Asks, NoPanelAsk
<1>5. ASSUME NEW i \in DOMAIN longer, NEW j \in DOMAIN longer,
             longer[i].ask = longer[j].ask
      PROVE  i = j
  BY <1>1, <1>2, <1>3, <1>5 DEF Fits
<1>6. ASSUME NEW i \in DOMAIN longer
      PROVE  longer[i].answered <=>
               longer[i].ask # IF answered THEN NoPanelAsk ELSE n
  <2>1. CASE i \in DOMAIN thread
    BY <1>2, <1>3, <2>1 DEF Fits
  <2>2. CASE i = Len(thread) + 1
    BY <1>1, <1>2, <1>4, <2>2
  <2> QED
    BY <1>2, <2>1, <2>2
<1>7. AskedIn(longer) = AskedIn(thread) \cup {n}
  BY <1>1, <1>2 DEF AskedIn
<1> QED
  BY <1>2, <1>5, <1>6, <1>7 DEF Fits, longer, t

\* How a step treats the requests.
Grows == Saved \subseteq Saved' /\ Sent \subseteq Sent' /\ NewUntilSent'

LEMMA PostGrows ==
  ASSUME QueueInv, SavedOnce, NEW n \in Asks, askRequest[n].posts = 0,
         NEW confirm \in BOOLEAN, askRequest' = Post(askRequest, n, confirm)
  PROVE  Grows /\ Sent' = Sent \cup {n} /\ n \notin Sent
<1>1. /\ askRequest \in [Asks -> AnyRequest] /\ chatResets \in Nat
      /\ askRequest' \in [Asks -> AnyRequest]
      /\ askRequest'[n].posts = 1
      /\ \A m \in Asks \ {n} : askRequest'[m] = askRequest[m]
  BY PostTypes DEF QueueInv, QueuesTyped
<1>2. Sent' = Sent \cup {n} /\ n \notin Sent
  BY <1>1 DEF Sent
<1>3. n \notin Saved
  BY DEF SavedOnce, NewUntilSent, Saved
<1>4. Saved \subseteq Saved'
  BY <1>1, <1>3 DEF Saved
<1>5. NewUntilSent'
  BY <1>1 DEF SavedOnce, NewUntilSent
<1> QED
  BY <1>2, <1>4, <1>5 DEF Grows

LEMMA NothingGrows ==
  ASSUME SavedOnce, UNCHANGED askRequest
  PROVE  Grows /\ Sent' = Sent
  BY DEF SavedOnce, Grows, Saved, Sent, NewUntilSent

\* What is loaded is what was saved.
LEMMA DataStay ==
  ASSUME SavedOnce, Grows, saved' \in {saved, <<>>},
         fetch'.data \in {fetch.data, saved, <<>>},
         cache'.data \in {cache.data, fetch.data, <<>>}
  PROVE  SavedOnce'
<1>1. AllSaved(<<>>)
  BY NobodyWaits DEF AllSaved
<1> DEFINE Data == {saved, fetch.data, cache.data, <<>>}
<1>2. \A data \in Data : /\ data \in Seq(Asks) /\ Distinct(data)
                         /\ Waiting(data) \subseteq Saved'
  BY <1>1 DEF SavedOnce, AllSaved, Grows
<1> QED
  BY <1>2 DEF SavedOnce, AllSaved, Grows

\* The overlay when no turn runs, or none is there.
LEMMA NothingLaid == \A sent : Laid(NoOverlay, NoPanelAsk, sent)
  BY NoTurns DEF Laid, NoOverlay

LEMMA DroppedFits ==
  ASSUME NEW o, NEW r, NEW sent, Laid(o, r, sent), NEW c, NEW q
  PROVE  Laid(DropOverlay(o, c, r, q), r, sent)
  BY NothingLaid DEF DropOverlay

LEMMA ThreadOf ==
  ASSUME QueueInv, SavedOnce, NEW o, Laid(o, NoPanelAsk, Sent)
  PROVE  /\ Thread(o, cache) \in Seq(TurnType)
         /\ Fits(Thread(o, cache), NoPanelAsk)
         /\ AskedIn(Thread(o, cache)) \subseteq Sent
<1>1. CASE o.on
  BY <1>1 DEF Thread, Laid
<1>2. CASE ~o.on
  BY <1>2, SavedTurns DEF Thread, SavedOnce
<1> QED
  BY <1>1, <1>2

\* A turn starts with a question that was not sent.
LEMMA TurnStarts ==
  ASSUME QueueInv, SavedOnce, NEW o, Laid(o, NoPanelAsk, Sent),
         NEW n \in Asks, askRequest[n].posts = 0, NEW confirm \in BOOLEAN,
         StartTurn(n, o, askRequest, confirm)
  PROVE  Grows /\ Laid(overlay', run', Sent')
<1> DEFINE base == Thread(o, cache)
           longer == Append(base, Turn(n, FALSE))
<1>1. Grows /\ Sent' = Sent \cup {n} /\ n \notin Sent
  BY PostGrows DEF StartTurn
<1>2. /\ base \in Seq(TurnType) /\ Fits(base, NoPanelAsk)
      /\ AskedIn(base) \subseteq Sent
  BY ThreadOf
<1>3. run' = n /\ overlay' = Overlay(longer)
  BY DEF StartTurn
<1> HIDE DEF base
<1>4. /\ longer \in Seq(TurnType) /\ Fits(longer, n)
      /\ AskedIn(longer) = AskedIn(base) \cup {n}
  BY <1>1, <1>2, TurnJoins
<1> HIDE DEF longer
<1>5. Laid(overlay', run', Sent')
  BY <1>1, <1>2, <1>3, <1>4 DEF Laid, Overlay
<1> QED
  BY <1>1, <1>5

\* A turn of the open panel ends.
LEMMA TurnEnds ==
  ASSUME QueueInv, SavedOnce, NEW o, Laid(o, NoPanelAsk, Sent),
         NEW drain, NEW sk, NEW q \in {queue, <<>>}, NEW err,
         EndTurn(drain, sk, q, o, err)
  PROVE  Grows /\ Laid(overlay', run', Sent')
<1>1. CASE q # <<>> /\ StartTurn(Head(q), o, askRequest, FALSE)
  <2>1. /\ Head(q) \in Waiting(queue) /\ Head(q) \in Asks
    BY <1>1, FirstLeaves DEF QueueInv, QueuesTyped, WaitsOnce
  <2>2. askRequest[Head(q)].posts = 0
    BY <2>1 DEF QueueInv, WaitsOnce
  <2> QED
    BY <1>1, <2>1, <2>2, TurnStarts
<1>2. CASE /\ run' = NoPanelAsk /\ UNCHANGED askRequest
           /\ overlay' = DropOverlay(o, cache', NoPanelAsk, q)
  BY <1>2, DroppedFits, NothingGrows
<1> QED
  BY <1>1, <1>2 DEF EndTurn

\* What a turn that is given up, or answered, leaves of the overlay.
LEMMA RolledBack ==
  ASSUME ThreadInv, run # NoPanelAsk
  PROVE  Laid(Rollback(run), NoPanelAsk, Sent)
<1> DEFINE base == Without(Thread(overlay, cache), run)
<1>1. /\ Thread(overlay, cache) = overlay.thread
      /\ overlay.thread \in Seq(TurnType) /\ Fits(overlay.thread, run)
      /\ AskedIn(overlay.thread) \subseteq Sent /\ run \in Asks
  BY DEF ThreadInv, Laid, Thread, Sent
<1>2. /\ base \in Seq(TurnType) /\ Fits(base, NoPanelAsk)
      /\ AskedIn(base) \subseteq Sent
  BY <1>1, OthersStay
<1>3. Rollback(run) = IF base = <<>> THEN NoOverlay ELSE Overlay(base)
  BY DEF Rollback
<1> HIDE DEF base
<1>4. Laid(Overlay(base), NoPanelAsk, Sent)
  BY <1>2 DEF Laid, Overlay
<1> QED
  BY <1>3, <1>4, NothingLaid

LEMMA Answered ==
  ASSUME ThreadInv, run # NoPanelAsk
  PROVE  Laid(Overlay(Append(Without(Thread(overlay, cache), run),
                             Turn(run, TRUE))), NoPanelAsk, Sent)
<1> DEFINE base == Without(Thread(overlay, cache), run)
           longer == Append(base, Turn(run, TRUE))
<1>1. /\ Thread(overlay, cache) = overlay.thread
      /\ overlay.thread \in Seq(TurnType) /\ Fits(overlay.thread, run)
      /\ AskedIn(overlay.thread) \subseteq Sent /\ run \in Asks /\ run \in Sent
  BY DEF ThreadInv, Laid, Thread, Sent
<1>2. /\ base \in Seq(TurnType) /\ Fits(base, NoPanelAsk)
      /\ AskedIn(base) \subseteq Sent \ {run}
  BY <1>1, OthersStay
<1> HIDE DEF base
<1>3. /\ longer \in Seq(TurnType) /\ Fits(longer, NoPanelAsk)
      /\ AskedIn(longer) = AskedIn(base) \cup {run}
  BY <1>1, <1>2, TurnJoins
<1> HIDE DEF longer
<1>4. Laid(Overlay(longer), NoPanelAsk, Sent)
  BY <1>1, <1>2, <1>3 DEF Laid, Overlay
<1> QED
  BY <1>4, Zenon DEF longer, base

\* A turn of a closed panel ends, or one ends because its panel closes.
LEMMA ClosedGrows ==
  ASSUME QueueInv, SavedOnce, NEW drain, NEW sk,
         NEW q \in {queue, closed.queue}, AfterClosed(drain, sk, q)
  PROVE  Grows
<1>1. CASE q # <<>> /\ askRequest' = Post(askRequest, Head(q), FALSE)
  <2>1. /\ Head(q) \in Waiting(queue) \cup Waiting(closed.queue)
        /\ Head(q) \in Asks
    BY <1>1, FirstLeaves DEF QueueInv, QueuesTyped, WaitsOnce
  <2>2. askRequest[Head(q)].posts = 0
    BY <2>1 DEF QueueInv, WaitsOnce
  <2> QED
    BY <1>1, <2>1, <2>2, PostGrows
<1>2. CASE UNCHANGED askRequest
  BY <1>2, NothingGrows
<1> QED
  BY <1>1, <1>2 DEF AfterClosed

LEMMA ThreadInit == AskPanelInit => ThreadInv
<1> SUFFICES ASSUME AskPanelInit PROVE ThreadInv
  OBVIOUS
<1>1. /\ saved = <<>> /\ fetch.data = <<>> /\ cache.data = <<>>
      /\ run = NoPanelAsk /\ overlay = NoOverlay
  BY DEF AskPanelInit, NoFetch
<1>2. AllSaved(<<>>)
  BY NobodyWaits DEF AllSaved
<1>3. NewUntilSent
  BY DEF AskPanelInit, NewUntilSent, NeverSent
<1> QED
  BY <1>1, <1>2, <1>3, NothingLaid DEF ThreadInv, SavedOnce

\* Steps of the open panel that end a turn.
LEMMA AbortThread ==
  ASSUME TypesInv, QueueInv, ThreadInv, run # NoPanelAsk, saved' = saved,
         NEW sk, NEW q \in {queue, <<>>}, Abort(sk, q)
  PROVE  ThreadInv'
<1>1. Laid(Rollback(run), NoPanelAsk, Sent)
  BY RolledBack
<1>2. \E drain, err : EndTurn(drain, sk, q, Rollback(run), err)
  BY DEF Abort
<1>3. Grows /\ Laid(overlay', run', Sent')
  BY <1>1, <1>2, TurnEnds DEF ThreadInv
<1>4. /\ fetch'.data \in {fetch.data, saved, <<>>}
      /\ cache'.data \in {cache.data, fetch.data, <<>>}
  BY DEF Abort, Invalidate, NewFetch, NoFetch, TypesInv, DataTyped, CacheType
<1> QED
  BY <1>3, <1>4, DataStay DEF ThreadInv

LEMMA ArriveThread ==
  ASSUME TypesInv, QueueInv, ThreadInv, Arrive
  PROVE  ThreadInv'
<1>1. run # NoPanelAsk /\ saved' = saved
  BY DEF Arrive, serverVars
<1>2. /\ fetch'.data \in {fetch.data, saved, <<>>}
      /\ cache'.data \in {cache.data, fetch.data, <<>>}
  BY DEF Arrive, Invalidate, NewFetch, NoFetch, TypesInv, DataTyped, CacheType
<1>3. CASE Succeed
  <2>1. Grows /\ Laid(overlay', run', Sent')
    BY <1>1, <1>3, Answered, TurnEnds DEF ThreadInv, Succeed
  <2> QED
    BY <1>1, <1>2, <2>1, DataStay DEF ThreadInv
<1>4. ASSUME NEW err, Fail(err)
      PROVE  ThreadInv'
  <2>1. Grows /\ Laid(overlay', run', Sent')
    BY <1>1, <1>4, RolledBack, TurnEnds DEF ThreadInv, Fail
  <2> QED
    BY <1>1, <1>2, <2>1, DataStay DEF ThreadInv
<1> QED
  BY <1>3, <1>4 DEF Arrive

LEMMA AnswerThread ==
  ASSUME QueueInv, ThreadInv, NEW n \in Asks, Answer(n)
  PROVE  ThreadInv'
<1>1. PICK s \in Answers \cup Refusals :
        /\ askRequest' = [askRequest EXCEPT ![n].state = s]
        /\ saved' = IF s = "saved" THEN Append(saved, n) ELSE saved
  BY DEF Answer
<1>2. /\ UNCHANGED <<cache, fetch, run, overlay>>
      /\ askRequest[n].state = "open"
  BY DEF Answer, panelVars
<1>3. /\ askRequest'[n].posts = askRequest[n].posts
      /\ askRequest'[n].state = s
      /\ \A m \in Asks \ {n} : askRequest'[m] = askRequest[m]
  BY <1>1 DEF QueueInv, QueuesTyped, AnyRequest
<1>4. Sent' = Sent /\ NewUntilSent'
  BY <1>2, <1>3 DEF Sent, ThreadInv, SavedOnce, NewUntilSent
<1>5. n \notin Saved /\ Saved' = IF s = "saved" THEN Saved \cup {n} ELSE Saved
  BY <1>2, <1>3 DEF Saved
<1>6. Grows
  BY <1>4, <1>5 DEF Grows
<1>7. AllSaved(fetch.data)' /\ AllSaved(cache.data)'
  BY <1>2, <1>6 DEF ThreadInv, SavedOnce, AllSaved, Grows
<1>8. AllSaved(saved)'
  <2>1. CASE s = "saved"
    <3>1. n \notin Waiting(saved)
      BY <1>5 DEF ThreadInv, SavedOnce, AllSaved
    <3>2. /\ Append(saved, n) \in Seq(Asks) /\ Distinct(Append(saved, n))
          /\ Waiting(Append(saved, n)) = Waiting(saved) \cup {n}
      BY <3>1, LastJoins DEF ThreadInv, SavedOnce, AllSaved
    <3>3. Waiting(saved) \subseteq Saved
      BY DEF ThreadInv, SavedOnce, AllSaved
    <3> QED
      BY <1>1, <1>5, <2>1, <3>2, <3>3 DEF AllSaved
  <2>2. CASE s # "saved"
    BY <1>1, <1>5, <2>2 DEF ThreadInv, SavedOnce, AllSaved
  <2> QED
    BY <2>1, <2>2
<1> QED
  BY <1>2, <1>4, <1>7, <1>8 DEF ThreadInv, SavedOnce

LEMMA ThreadStep ==
  TypesInv /\ QueueInv /\ ThreadInv /\ [AskPanelNext]_askPanelVars
    => ThreadInv'
<1> SUFFICES ASSUME TypesInv, QueueInv, ThreadInv, [AskPanelNext]_askPanelVars
             PROVE  ThreadInv'
  OBVIOUS
<1>0. SavedOnce /\ Laid(overlay, run, Sent)
  BY DEF ThreadInv
\* Nothing is sent, and the overlay stays.
<1>1. ASSUME UNCHANGED <<askRequest, run, overlay>>, saved' \in {saved, <<>>},
             fetch'.data \in {fetch.data, saved, <<>>},
             cache'.data \in {cache.data, fetch.data, <<>>}
      PROVE  ThreadInv'
  BY <1>0, <1>1, NothingGrows, DataStay DEF ThreadInv
<1>2. CASE \/ Type \/ Erase \/ ReloadPanel \/ LoadFails \/ FailReset
           \/ UNCHANGED askPanelVars
  BY <1>1, <1>2
  DEF Type, Erase, ReloadPanel, LoadFails, FailReset, askPanelVars, panelVars,
      serverVars, NewFetch, NoFetch
<1>3. CASE ServeReset \/ ServeLoad
  BY <1>1, <1>3 DEF ServeReset, ServeLoad, panelVars, serverVars
\* The saved thread may take the place of the overlay.
<1>4. ASSUME NEW o, Laid(o, run, Sent), UNCHANGED <<askRequest, run, saved>>,
             overlay' = DropOverlay(o, cache', run, queue),
             fetch'.data \in {fetch.data, saved, <<>>},
             cache'.data \in {cache.data, fetch.data, <<>>}
      PROVE  ThreadInv'
  BY <1>0, <1>4, DroppedFits, NothingGrows, DataStay DEF ThreadInv
<1>5. CASE LoadReturns
  BY <1>0, <1>4, <1>5 DEF LoadReturns, NoFetch, serverVars
<1>6. CASE FinishReset
  <2>1. Laid(Overlay(<<>>), run, Sent)
    BY <1>0, NoTurns DEF Laid, Overlay
  <2>2. UNCHANGED <<askRequest, run, saved, fetch>> /\ cache'.data = <<>>
    BY <1>6 DEF FinishReset, Emptied
  <2> QED
    BY <1>0, <1>4, <1>6, <2>1, <2>2 DEF FinishReset
\* The panel is mounted, or unmounted.
<1>7. ASSUME FreshPanel, Grows, saved' = saved,
             fetch'.data \in {fetch.data, saved, <<>>},
             cache'.data \in {cache.data, fetch.data, <<>>}
      PROVE  ThreadInv'
  BY <1>0, <1>7, NothingLaid, DataStay DEF ThreadInv, FreshPanel
<1>8. CASE Open \/ Switch
  BY <1>0, <1>7, <1>8, NothingGrows
  DEF Open, Switch, NewFetch, NoFetch, serverVars
<1>9. CASE Close
  <2>1. Grows
    BY <1>0, <1>9, NothingGrows, ClosedGrows DEF Close
  <2>2. FreshPanel /\ saved' = saved /\ fetch' = fetch
        /\ cache'.data = cache.data
    BY <1>9 DEF Close, serverVars, TypesInv, DataTyped, CacheType
  <2> QED
    BY <1>7, <2>1, <2>2
<1>10. CASE ArriveClosed
  <2>1. Grows
    BY <1>0, <1>10, ClosedGrows DEF ArriveClosed
  <2>2. /\ UNCHANGED <<run, overlay, saved>>
        /\ fetch'.data \in {fetch.data, saved, <<>>}
        /\ cache'.data \in {cache.data, fetch.data, <<>>}
    BY <1>10
    DEF ArriveClosed, Invalidate, NewFetch, NoFetch, panelVars, serverVars,
        TypesInv, DataTyped, CacheType
  <2>3. Laid(overlay', run', Sent')
    BY <1>0, <2>1, <2>2 DEF Laid, Grows
  <2> QED
    BY <1>0, <2>1, <2>2, <2>3, DataStay DEF ThreadInv
<1>11. ASSUME NEW by, SubmitAsk(by)
       PROVE  ThreadInv'
  <2> DEFINE n == asks + 1
             confirm == by = "confirm"
  <2>1. n \in Asks /\ UNCHANGED <<cache, fetch, saved>>
    BY <1>11 DEF SubmitAsk, serverVars
  <2>2. CASE UNCHANGED <<run, overlay, askRequest>>
    BY <1>1, <2>1, <2>2
  <2>3. CASE run = NoPanelAsk /\ StartTurn(n, overlay, askRequest, confirm)
    <3>1. askRequest[n].posts = 0
      BY <2>1, AskAssumption DEF QueueInv, QueuesTyped, WaitsOnce, Asks
    <3>2. confirm \in BOOLEAN
      OBVIOUS
    <3> HIDE DEF n, confirm
    <3>3. Grows /\ Laid(overlay', run', Sent')
      BY <1>0, <2>1, <2>3, <3>1, <3>2, TurnStarts
    <3> QED
      BY <1>0, <2>1, <3>3, DataStay DEF ThreadInv
  <2> QED
    BY <1>11, <2>2, <2>3 DEF SubmitAsk
<1>12. CASE Stop
  BY <1>12, AbortThread DEF Stop, StopOffered, serverVars
<1>13. ASSUME NEW kind \in {"new", "clear"}, StartReset(kind)
       PROVE  ThreadInv'
  <2>1. CASE run # NoPanelAsk
    BY <1>13, <2>1, AbortThread DEF StartReset
  <2>2. CASE run = NoPanelAsk
    <3>1. /\ UNCHANGED <<askRequest, run, saved, cache, fetch>>
          /\ overlay' = DropOverlay(overlay, cache, NoPanelAsk, <<>>)
      BY <1>13, <2>2 DEF StartReset
    <3>2. Laid(overlay', run', Sent')
      BY <1>0, <2>2, <3>1, DroppedFits, NothingGrows
    <3> QED
      BY <1>0, <3>1, <3>2, NothingGrows, DataStay DEF ThreadInv
  <2> QED
    BY <2>1, <2>2
<1>14. CASE Arrive
  BY <1>14, ArriveThread
<1>15. ASSUME NEW n \in Asks, Answer(n)
       PROVE  ThreadInv'
  BY <1>15, AnswerThread
<1> QED
  BY <1>2, <1>3, <1>5, <1>6, <1>8, <1>9, <1>10, <1>11, <1>12, <1>13, <1>14,
     <1>15
  DEF AskPanelNext, User, Arrivals, Server

LEMMA ThreadInvariant == AskPanelSpec => []ThreadInv
  BY ThreadInit, ThreadStep, TypesInvariant, QueueInvariant, PTL
  DEF AskPanelSpec

\* Every variable of the panel keeps its type; the thread does because a turn is
\* laid over it only once.
THEOREM AskPanelTypeCorrect == AskPanelSpec => []AskPanelTypeOK
<1>1. TypesInv /\ QueueInv /\ ThreadInv => AskPanelTypeOK
  BY DEF TypesInv, CountsTyped, PanelTyped, DataTyped, RequestsTyped, CacheType,
         FetchType, ClosedType, AskResetType, ErrorType, QueueInv, QueuesTyped,
         ThreadInv, Laid, AskPanelTypeOK
<1> QED
  BY <1>1, TypesInvariant, QueueInvariant, ThreadInvariant, PTL

\* However the loads of the conversation, the answers, Stop, New chat and the
\* closing of the panel interleave, the thread that is shown has no question
\* twice, and one without an answer only while it runs.
THEOREM ThreadsFit == AskPanelSpec => []ThreadFits
<1>1. QueueInv /\ ThreadInv => ThreadFits
  <2> SUFFICES ASSUME QueueInv, ThreadInv PROVE ThreadFits
    OBVIOUS
  <2>1. CASE overlay.on
    <3>1. ShownTurns = overlay.thread /\ Fits(overlay.thread, run)
      BY <2>1 DEF ThreadInv, Laid, ShownTurns, Thread
    <3> QED
      BY <3>1 DEF ThreadFits, Fits
  <2>2. CASE ~overlay.on
    <3>1. ShownTurns = Turns(cache.data) /\ run = NoPanelAsk
      BY <2>2 DEF ThreadInv, Laid, ShownTurns, Thread
    <3>2. Fits(Turns(cache.data), NoPanelAsk)
      BY SavedTurns DEF ThreadInv, SavedOnce
    <3> QED
      BY <3>1, <3>2 DEF ThreadFits, Fits
  <2> QED
    BY <2>1, <2>2
<1> QED
  BY <1>1, QueueInvariant, ThreadInvariant, PTL

-----------------------------------------------------------------------------
(* AskChat: type correctness.                                              *)

LEMMA ScopeTypes ==
  /\ Library \in AllScopes
  /\ \A kind \in ScopeKinds, t \in Targets \cup {NoTarget} :
       Scope(kind, t) \in AllScopes
  BY AskChatAssumption DEF Library, Scope, AllScopes

LEMMA BodyTypes ==
  /\ NoBody \in Bodies
  /\ \A s \in AllScopes, q \in Questions, c \in BOOLEAN :
       AskBody(s, q, c) \in Bodies
  BY ScopeTypes, AskChatAssumption DEF NoBody, AskBody, Bodies, Questions

AskSteps == {"none", "sent", "answered", "refused", "failed"}

LEMMA QuestionTypes ==
  /\ NoAsk.at = "none" /\ NoAsk.moved = FALSE /\ NoAsk.body = NoBody
  /\ NoAsk \in [at : AskSteps, body : Bodies, moved : BOOLEAN]
  /\ \A b \in Bodies :
       /\ NewAsk(b).at = "sent" /\ NewAsk(b).body = b
       /\ NewAsk(b).moved = FALSE
       /\ NewAsk(b) \in [at : AskSteps, body : Bodies, moved : BOOLEAN]
<1>1. NoAsk.at = "none" /\ NoAsk.moved = FALSE /\ NoAsk.body = NoBody
  BY DEF NoAsk
<1>2. NoAsk \in [at : AskSteps, body : Bodies, moved : BOOLEAN]
  BY BodyTypes DEF NoAsk, AskSteps
<1>3. ASSUME NEW b \in Bodies
      PROVE  /\ NewAsk(b).at = "sent" /\ NewAsk(b).body = b
             /\ NewAsk(b).moved = FALSE
             /\ NewAsk(b) \in [at : AskSteps, body : Bodies, moved : BOOLEAN]
  BY <1>1, <1>2 DEF NewAsk, AskSteps
<1> QED
  BY <1>1, <1>2, <1>3

\* A scope of another kind is a scope.
LEMMA TargetTypes ==
  ASSUME AskChatTypeOK, NEW kind \in ScopeKinds
  PROVE  TargetOf(kind) \in Targets \cup {NoTarget}
  BY DEF AskChatTypeOK, AllScopes, TargetOf

LEMMA NoResponseType ==
  NoResponse \in [shown : BOOLEAN, scope : AllScopes, moved : BOOLEAN]
  BY ScopeTypes DEF NoResponse

LEMMA ResetTypes ==
  ASSUME NEW s \in AllScopes, ResetTo(s)
  PROVE  /\ given' \in AllScopes /\ scope' \in AllScopes
         /\ question' \in Questions /\ refusedSince' \in BOOLEAN
         /\ pendingRemote' \in Bodies
         /\ response' \in [shown : BOOLEAN, scope : AllScopes, moved : BOOLEAN]
<1>1. 0 \in Questions
  BY AskChatAssumption DEF Questions
<1>2. NoResponse \in [shown : BOOLEAN, scope : AllScopes, moved : BOOLEAN]
  BY NoResponseType
<1> QED
  BY <1>1, <1>2, BodyTypes DEF ResetTo

\* The request keeps its type when the scope moves.
LEMMA MovesTypes ==
  ASSUME AskChatTypeOK, Moves
  PROVE  ask' \in [at : {"none", "sent", "answered", "refused", "failed"},
                   body : Bodies, moved : BOOLEAN]
  BY DEF AskChatTypeOK, Moves

LEMMA AskChatTypeInit == AskChatInit => AskChatTypeOK
<1>1. 0 \in Questions
  BY AskChatAssumption DEF Questions
<1> QED
  BY <1>1, ScopeTypes, BodyTypes, QuestionTypes, NoResponseType
  DEF AskChatInit, AskChatTypeOK, AskSteps

LEMMA AskChatTypeStep ==
  AskChatTypeOK /\ [AskChatNext]_askChatVars => AskChatTypeOK'
<1> SUFFICES ASSUME AskChatTypeOK, [AskChatNext]_askChatVars
             PROVE  AskChatTypeOK'
  OBVIOUS
<1> USE DEF AskChatTypeOK
<1>1. CASE OpenPanel
  BY <1>1, ResetTypes DEF OpenPanel
<1>2. CASE PageChanges
  BY <1>2, ResetTypes DEF PageChanges
<1>3. CASE ClosePanel
  BY <1>3, ResetTypes, ScopeTypes, QuestionTypes DEF ClosePanel, AskSteps
<1>4. CASE TypeQuestion
  BY <1>4, AskChatAssumption DEF TypeQuestion, Questions
<1>5. ASSUME NEW kind \in ScopeKinds, SelectKind(kind)
      PROVE  AskChatTypeOK'
  BY <1>5, TargetTypes, ScopeTypes, MovesTypes
  DEF SelectKind, ClearsAnswer, NoResponse
<1>6. ASSUME NEW f \in Targets, SelectFolder(f)
      PROVE  AskChatTypeOK'
  <2>1. [scope EXCEPT !.target = f] \in AllScopes
    BY DEF AllScopes
  <2> QED
    BY <1>6, <2>1, MovesTypes DEF SelectFolder
<1>7. ASSUME NEW s \in AllScopes, SelectPill(s)
      PROVE  AskChatTypeOK'
  BY <1>7, ScopeTypes, MovesTypes DEF SelectPill, ClearsAnswer, NoResponse
<1>8. ASSUME NEW confirm \in BOOLEAN, SubmitQuestion(confirm)
      PROVE  AskChatTypeOK'
  BY <1>8, BodyTypes, QuestionTypes DEF SubmitQuestion, AskSteps
<1>9. CASE AskAnother
  BY <1>9, NoResponseType, AskChatAssumption DEF AskAnother, Questions
<1>10. CASE ServeAsk
  BY <1>10 DEF ServeAsk
<1>11. CASE ArriveAnswer
  <2>1. ask.body.scope \in AllScopes /\ ask.moved \in BOOLEAN
    BY DEF Bodies
  <2> QED
    BY <1>11, <2>1, BodyTypes, QuestionTypes
    DEF ArriveAnswer, ForgetsRefusal, AskSteps
<1>12. CASE ArriveRefusal
  BY <1>12, QuestionTypes DEF ArriveRefusal, AskSteps
<1>13. CASE ArriveError
  <2>1. /\ ask' \in [at : AskSteps, body : Bodies, moved : BOOLEAN]
        /\ response' \in [shown : BOOLEAN, scope : AllScopes, moved : BOOLEAN]
    BY <1>13, QuestionTypes, NoResponseType DEF ArriveError
  <2> QED
    BY <1>13, <2>1 DEF ArriveError, AskSteps
<1>14. CASE ChangePolicy
  <2>1. remote' \in BOOLEAN /\ warns' \in BOOLEAN
    BY <1>14, Zenon DEF ChangePolicy
  <2>2. UNCHANGED <<place, given, scope, question, typedSoFar, response,
                    pendingRemote, ask, seenWarns, available, refusedSince>>
    BY <1>14, Zenon DEF ChangePolicy
  <2> QED
    BY <2>1, <2>2
<1>15. CASE Refresh
  BY <1>15 DEF Refresh
<1>16. CASE UNCHANGED askChatVars
  BY <1>16 DEF askChatVars
<1> QED
  BY <1>1, <1>2, <1>3, <1>4, <1>5, <1>6, <1>7, <1>8, <1>9, <1>10, <1>11,
     <1>12, <1>13, <1>14, <1>15, <1>16 DEF AskChatNext

\* Every variable keeps its type, whatever the kinds and targets are.
THEOREM AskChatTypeCorrect == AskChatSpec => []AskChatTypeOK
  BY AskChatTypeInit, AskChatTypeStep, PTL DEF AskChatSpec

-----------------------------------------------------------------------------
(* Answers and their scopes.                                               *)

\* A closed panel has neither a request nor an answer.
ClosedIsIdle == place = "closed" => ~AskPending /\ ~response.shown

\* The request is about the scope that is selected, unless that was changed
\* since it was sent.
AskFitsScope == AskPending /\ ~ask.moved => ask.body.scope = scope

ScopeInv ==
  AskChatTypeOK /\ ClosedIsIdle /\ AskFitsScope /\ AnswerFitsScope

LEMMA ScopeInit == AskChatInit => ScopeInv
  BY AskChatTypeInit, QuestionTypes
  DEF AskChatInit, ScopeInv, ClosedIsIdle, AskFitsScope, AnswerFitsScope,
      AskPending, NoResponse

LEMMA ScopeStep == ScopeInv /\ [AskChatNext]_askChatVars => ScopeInv'
<1> SUFFICES ASSUME ScopeInv, [AskChatNext]_askChatVars
             PROVE  (ClosedIsIdle /\ AskFitsScope /\ AnswerFitsScope)'
  BY AskChatTypeStep DEF ScopeInv
<1> USE DEF ScopeInv, ClosedIsIdle, AskFitsScope, AnswerFitsScope, AskPending
<1>0. /\ ask \in [at : {"none", "sent", "answered", "refused", "failed"},
                  body : Bodies, moved : BOOLEAN]
      /\ response \in [shown : BOOLEAN, scope : AllScopes, moved : BOOLEAN]
      /\ scope \in AllScopes
  BY DEF AskChatTypeOK
<1>1. CASE OpenPanel
  BY <1>1 DEF OpenPanel, ResetTo, NoResponse
<1>2. CASE PageChanges
  BY <1>0, <1>2 DEF PageChanges, ResetTo, NoResponse
<1>3. CASE ClosePanel
  BY <1>3, QuestionTypes DEF ClosePanel, ResetTo, NoResponse
<1>4. CASE TypeQuestion
  BY <1>4 DEF TypeQuestion, TypingOffered
<1>5. ASSUME NEW kind \in ScopeKinds, SelectKind(kind)
      PROVE  (ClosedIsIdle /\ AskFitsScope /\ AnswerFitsScope)'
  BY <1>0, <1>5 DEF SelectKind, ClearsAnswer, NoResponse, Moves
<1>6. ASSUME NEW f \in Targets, SelectFolder(f)
      PROVE  (ClosedIsIdle /\ AskFitsScope /\ AnswerFitsScope)'
  <2>1. scope'.kind = scope.kind /\ place' = "drawer"
    BY <1>0, <1>6 DEF SelectFolder, AllScopes
  <2> QED
    BY <1>0, <1>6, <2>1 DEF SelectFolder, Moves
<1>7. ASSUME NEW s \in AllScopes, SelectPill(s)
      PROVE  (ClosedIsIdle /\ AskFitsScope /\ AnswerFitsScope)'
  BY <1>0, <1>7 DEF SelectPill, ClearsAnswer, NoResponse, Moves
<1>8. ASSUME NEW confirm \in BOOLEAN, SubmitQuestion(confirm)
      PROVE  (ClosedIsIdle /\ AskFitsScope /\ AnswerFitsScope)'
  BY <1>8 DEF SubmitQuestion, AskOffered, ChatConfirmOffered, NewAsk, NoAsk,
              AskBody
<1>9. CASE AskAnother
  BY <1>9 DEF AskAnother, NoResponse
<1>10. CASE ServeAsk
  BY <1>0, <1>10 DEF ServeAsk
<1>11. CASE ArriveAnswer
  BY <1>11, QuestionTypes DEF ArriveAnswer
<1>12. CASE ArriveRefusal
  BY <1>12, QuestionTypes DEF ArriveRefusal
<1>13. CASE ArriveError
  BY <1>13, QuestionTypes DEF ArriveError, NoResponse
<1>14. CASE ChangePolicy
  BY <1>14 DEF ChangePolicy
<1>15. CASE Refresh
  BY <1>15 DEF Refresh
<1>16. CASE UNCHANGED askChatVars
  BY <1>16 DEF askChatVars
<1> QED
  BY <1>1, <1>2, <1>3, <1>4, <1>5, <1>6, <1>7, <1>8, <1>9, <1>10, <1>11,
     <1>12, <1>13, <1>14, <1>15, <1>16 DEF AskChatNext

\* An answer is shown under the scope it was asked about, unless that was
\* changed while it was on its way (AIChatPanel.tsx:267).
THEOREM AnswersFitTheirScope == AskChatSpec => []AnswerFitsScope
<1>1. ScopeInv => AnswerFitsScope
  BY DEF ScopeInv
<1> QED
  BY <1>1, ScopeInit, ScopeStep, PTL DEF AskChatSpec

-----------------------------------------------------------------------------
(* Consent.                                                                *)

\* What was refused is kept only since the last answer.
RefusalIsKnown == pendingRemote # NoBody => refusedSince

ConsentInv == AskChatTypeOK /\ RefusalIsKnown

LEMMA ConsentInit == AskChatInit => ConsentInv
  BY AskChatTypeInit DEF AskChatInit, ConsentInv, RefusalIsKnown

LEMMA ConsentStep == ConsentInv /\ [AskChatNext]_askChatVars => ConsentInv'
<1> SUFFICES ASSUME ConsentInv, [AskChatNext]_askChatVars
             PROVE  RefusalIsKnown'
  BY AskChatTypeStep DEF ConsentInv
<1> USE DEF ConsentInv, RefusalIsKnown
<1>1. CASE OpenPanel \/ PageChanges \/ ClosePanel
  BY <1>1 DEF OpenPanel, PageChanges, ClosePanel, ResetTo
<1>2. CASE ArriveAnswer \/ ArriveRefusal
  BY <1>2 DEF ArriveAnswer, ArriveRefusal, ForgetsRefusal
<1>3. CASE UNCHANGED <<pendingRemote, refusedSince>>
  BY <1>3
<1> QED
  BY <1>1, <1>2, <1>3
  DEF AskChatNext, TypeQuestion, SelectKind, SelectFolder, SelectPill,
      SubmitQuestion, AskAnother, ServeAsk, ArriveError, ChangePolicy, Refresh,
      askChatVars

LEMMA ConsentIsAsked ==
  ConsentInv /\ [AskChatNext]_askChatVars =>
    (ask'.body.confirm /\ ~ask.body.confirm => refusedSince)
<1> SUFFICES ASSUME ConsentInv, [AskChatNext]_askChatVars,
                    ask'.body.confirm, ~ask.body.confirm
             PROVE  refusedSince
  OBVIOUS
<1>0. ask \in [at : {"none", "sent", "answered", "refused", "failed"},
               body : Bodies, moved : BOOLEAN]
  BY DEF ConsentInv, AskChatTypeOK
<1>1. NoAsk.body.confirm = FALSE
  BY DEF NoAsk, NoBody, AskBody
<1>2. ASSUME NEW confirm \in BOOLEAN, SubmitQuestion(confirm)
      PROVE  refusedSince
  <2>1. ask'.body.confirm = confirm
    BY <1>2 DEF SubmitQuestion, NewAsk, NoAsk, AskBody
  <2> QED
    BY <1>2, <2>1 DEF SubmitQuestion, ChatConfirmOffered, ConsentInv,
                      RefusalIsKnown
<1>3. ask'.body = ask.body \/ ask' = NoAsk
      \/ \E confirm \in BOOLEAN : SubmitQuestion(confirm)
  BY <1>0
  DEF AskChatNext, OpenPanel, PageChanges, ClosePanel, TypeQuestion,
      SelectKind, SelectFolder, SelectPill, Moves, AskAnother, ServeAsk,
      ArriveAnswer, ArriveRefusal, ArriveError, ChangePolicy, Refresh,
      askChatVars
<1> QED
  BY <1>1, <1>2, <1>3

\* A question goes out as confirmed only after one was refused in this panel
\* (AIChatPanel.tsx:559).
THEOREM ConsentFollowsARefusal == AskChatSpec => ConfirmedAfterRefusal
  BY ConsentInit, ConsentStep, ConsentIsAsked, PTL
  DEF AskChatSpec, ConfirmedAfterRefusal
-----------------------------------------------------------------------------
(* The pages of documents and of questions in one instance, as it is       *)
(* checked.                                                                *)

\* In a run that follows one page while the others rest, every variable of all of
\* them keeps its type.
THEOREM DocumentsTypeCorrect == WebSpec => []DocumentsTypeOK
<1>1. WebInit => /\ LibraryInit /\ ViewerInit /\ FoldersInit /\ SearchInit
                 /\ TagsInit /\ AskPanelInit /\ AskChatInit
  BY DEF WebInit
<1>2. [WebNext]_webVars => [LibraryNext]_libVars
  BY DEF WebNext, webVars
<1>3. [WebNext]_webVars => [ViewerNext]_viewerVars
  BY DEF WebNext, webVars
<1>4. [WebNext]_webVars => [FoldersNext]_foldersVars
  BY DEF WebNext, webVars
<1>5. [WebNext]_webVars => [SearchNext]_searchVars
  BY DEF WebNext, webVars
<1>6. [WebNext]_webVars => [TagsNext]_tagsVars
  BY DEF WebNext, webVars
<1>7. [WebNext]_webVars => [AskPanelNext]_askPanelVars
  BY DEF WebNext, webVars
<1>8. [WebNext]_webVars => [AskChatNext]_askChatVars
  BY DEF WebNext, webVars
<1>9. WebSpec => /\ LibrarySpec /\ ViewerSpec /\ FoldersSpec /\ TagsSpec
                 /\ AskPanelSpec /\ AskChatSpec
  BY <1>1, <1>2, <1>3, <1>4, <1>6, <1>7, <1>8, PTL
  DEF WebSpec, LibrarySpec, ViewerSpec, FoldersSpec, TagsSpec, AskPanelSpec,
      AskChatSpec
<1>10. WebSpec => []SearchTypeOK
  BY <1>1, <1>5, SearchTypeInit, SearchTypeStep, PTL DEF WebSpec
<1> QED
  BY <1>9, <1>10, LibraryTypeCorrect, ViewerTypeCorrect, FoldersTypeCorrect,
     TagsTypeCorrect, AskPanelTypeCorrect, AskChatTypeCorrect, PTL
  DEF DocumentsTypeOK
=============================================================================
