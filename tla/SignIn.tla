-------------------------------- MODULE SignIn --------------------------------
(***************************************************************************)
(* Who the browser thinks is signed in: the pages outside the application  *)
(* (features/auth), the guards around them, the account menu, the page     *)
(* Profile, and the three places that have to agree: the cookies, the      *)
(* token of lib/csrf.ts and the query "session" of lib/api/hooks.ts.       *)
(*                                                                         *)
(* A session is a number, in the order they are created; its CSRF token is *)
(* the same number, and 0 is none.  A request carries the cookie and the   *)
(* token of the moment it is sent; it is served, and answered, later.      *)
(***************************************************************************)
EXTENDS Naturals

CONSTANTS
  MaxSessions,     \* bound: how many sessions are ever created
  MaxProfileEdits  \* bound: how often the account's record is changed

ASSUME SignInAssumption == MaxSessions \in Nat \ {0} /\ MaxProfileEdits \in Nat

VARIABLES
  live,          \* the server: the sessions that are valid
  created,       \* how many there have been
  profileEdits,  \* the server: the version of the account's record
  resetLink,     \* the server: a link to reset the password
  cookie,        \* the session of the browser's cookies
  csrf,          \* the module variable csrfToken
  session,       \* the query "session": what useSession returns
  me,            \* its request that is under way
  orphan,        \* a request of a query that was cleared: nobody waits for it
  submit,        \* what signs in or out: the mutation that is pending
  save,          \* another mutation that is pending
  authPage,      \* the route
  profileDraft,  \* the fields of the page Profile
  left,          \* history: the sessions this browser has signed out of
  crossed        \* history: an answer of /me arrived after the browser signed
                \* in or out, though asked for before

signInVars ==
  <<live, created, profileEdits, resetLink, cookie, csrf, session, me, orphan,
    submit, save, authPage, profileDraft, left, crossed>>

-----------------------------------------------------------------------------
Sessions == 0..MaxSessions

GuestPages == {"login", "register", "reset"}
AuthPages == GuestPages \cup {"documents", "profile"}

\* What the query holds: nothing yet, or a session (0: null) and its user.
NotLoaded == [loaded |-> FALSE, id |-> 0, user |-> 0]
Loaded(s, user) ==
  [loaded |-> TRUE, id |-> s, user |-> IF s = 0 THEN 0 ELSE user]

NoMe == [at |-> "none", cookie |-> 0, id |-> 0, user |-> 0, old |-> FALSE]
Orphan(m) == [m EXCEPT !.user = 0, !.old = TRUE]
SendMe(c) == [NoMe EXCEPT !.at = "sent", !.cookie = c]

NoDraft == [editing |-> FALSE, typed |-> FALSE]

SubmitKinds == {"login", "register", "reset", "logout", "password"}
SaveKinds == {"profile", "avatar", "others"}

NoSignCall == [kind |-> "none", at |-> "none", cookie |-> 0, token |-> 0,
               id |-> 0, user |-> 0]

\* getCsrfToken: the variable, or else the cookie, which it then keeps.
CsrfToken == IF csrf # 0 THEN csrf ELSE cookie

\* A mutation of apiFetch: the cookie, and the token in a header.
Send(kind) == [NoSignCall EXCEPT !.kind = kind, !.at = "sent",
                                 !.cookie = cookie, !.token = CsrfToken]

SignedIn(s) == s.loaded /\ s.id # 0

\* GuestGuard and AuthGuard: where one is sent to, once the query is loaded.
Guarded(target, s) ==
  IF ~s.loaded THEN target
  ELSE IF target \in GuestPages
  THEN IF s.id # 0 THEN "documents" ELSE target
  ELSE IF s.id = 0 THEN "login" ELSE target

\* The guards show their page, and not the loading screen.
Shown == session.loaded

-----------------------------------------------------------------------------
(* The query "session".                                                    *)

\* A guard is mounted, the window is focused or the query was invalidated.
FetchSession ==
  /\ me = NoMe
  /\ me' = SendMe(cookie)
  /\ UNCHANGED <<live, created, profileEdits, resetLink, cookie, csrf, session,
                 orphan, submit, save, authPage, profileDraft, left, crossed>>

\* GET /api/auth/me; it fails without a session, and may fail in any case.
Answered(m) ==
  LET failed == [NoMe EXCEPT !.at = "answered", !.old = m.old]
  IN  {failed} \cup
      {[failed EXCEPT !.id = s, !.user = profileEdits] :
         s \in live \cap {m.cookie}}

AnswerMe ==
  /\ \/ /\ me.at = "sent" /\ me' \in Answered(me) /\ UNCHANGED orphan
     \/ /\ orphan.at = "sent" /\ UNCHANGED me
        /\ \E m \in Answered(orphan) : orphan' = Orphan(m)
  /\ UNCHANGED <<live, created, profileEdits, resetLink, cookie, csrf, session,
                 submit, save, authPage, profileDraft, left, crossed>>

\* The effect on session.user: a user that is another object fills the fields.
Refilled(s) ==
  IF SignedIn(s) /\ ~(SignedIn(session) /\ s.user = session.user)
  THEN [profileDraft EXCEPT !.typed = FALSE] ELSE profileDraft

\* The query function of useSession and what the query then holds; an error of
\* any kind is a null session.
ArriveMe ==
  LET s == Loaded(me.id, me.user)
  IN  /\ me.at = "answered"
      /\ csrf' = me.id
      /\ session' = s /\ me' = NoMe
      /\ authPage' = Guarded(authPage, s)
      /\ profileDraft' = IF authPage' = authPage THEN Refilled(s) ELSE NoDraft
      /\ crossed' = (crossed \/ me.old)
      /\ UNCHANGED <<live, created, profileEdits, resetLink, cookie, orphan,
                     submit, save, left>>

ArriveOrphan ==
  /\ orphan.at = "answered"
  /\ csrf' = orphan.id
  /\ orphan' = NoMe
  /\ crossed' = TRUE
  /\ UNCHANGED <<live, created, profileEdits, resetLink, cookie, session, me,
                 submit, save, authPage, profileDraft, left>>

-----------------------------------------------------------------------------
(* The forms and buttons.                                                  *)

\* The links between the pages, and the back button.
GoTo(target) ==
  /\ Shown /\ target # authPage
  /\ (target \in GuestPages) = (authPage \in GuestPages)
  /\ authPage' = target
  /\ profileDraft' = NoDraft
  /\ UNCHANGED <<live, created, profileEdits, resetLink, cookie, csrf, session,
                 me, orphan, submit, save, left, crossed>>

\* A form waits for its answer.  Bound: so does the rest of the page.
Idle == submit = NoSignCall /\ save = NoSignCall

LoginOffered == Shown /\ authPage = "login"
RegisterOffered == Shown /\ authPage = "register"
PasswordResetOffered == Shown /\ authPage = "reset" /\ resetLink
LogoutOffered == Shown /\ authPage \notin GuestPages
PasswordOffered == Shown /\ authPage = "profile"

SubmitOffered(kind) ==
  CASE kind = "login" -> LoginOffered
    [] kind = "register" -> RegisterOffered
    [] kind = "reset" -> PasswordResetOffered
    [] kind = "logout" -> LogoutOffered
    [] kind = "password" -> PasswordOffered

\* onSubmit of the forms, handleLogout and savePassword.
Submit(kind) ==
  /\ SubmitOffered(kind) /\ Idle
  /\ submit' = Send(kind) /\ csrf' = CsrfToken
  /\ UNCHANGED <<live, created, profileEdits, resetLink, cookie, session, me,
                 orphan, save, authPage, profileDraft, left, crossed>>

StartEditing ==
  /\ Shown /\ authPage = "profile" /\ ~profileDraft.editing
  /\ profileDraft' = [profileDraft EXCEPT !.editing = TRUE]
  /\ UNCHANGED <<live, created, profileEdits, resetLink, cookie, csrf, session,
                 me, orphan, submit, save, authPage, left, crossed>>

TypeProfileName ==
  /\ Shown /\ authPage = "profile"
  /\ profileDraft.editing /\ ~profileDraft.typed
  /\ profileDraft' = [profileDraft EXCEPT !.typed = TRUE]
  /\ UNCHANGED <<live, created, profileEdits, resetLink, cookie, csrf, session,
                 me, orphan, submit, save, authPage, left, crossed>>

SaveOffered(kind) ==
  /\ Shown /\ authPage = "profile"
  /\ kind = "profile" => profileDraft.editing

\* saveProfile, onAvatarSelected, removeAvatar and the dialog of the sessions.
StartSave(kind) ==
  /\ SaveOffered(kind) /\ Idle
  /\ save' = Send(kind) /\ csrf' = CsrfToken
  /\ UNCHANGED <<live, created, profileEdits, resetLink, cookie, session, me,
                 orphan, submit, authPage, profileDraft, left, crossed>>

-----------------------------------------------------------------------------
(* The server.                                                             *)

\* authenticate_request and require_auth_csrf.
HasSession(c) == c.cookie \in live
TokenFits(c) == c.token = c.cookie
Served(c, at) == [NoSignCall EXCEPT !.kind = c.kind, !.at = at]

\* The answer that names the session created, for its user, or ended.
Done(c, s, user) ==
  [NoSignCall EXCEPT !.kind = c.kind, !.at = "done", !.id = s, !.user = user]

\* Login (which may be refused) and register create a session.
CreateSession ==
  /\ submit.at = "sent" /\ submit.kind \in {"login", "register"}
  /\ \/ /\ created < MaxSessions
        /\ created' = created + 1
        /\ live' = live \cup {created'}
        /\ submit' = Done(submit, created', profileEdits)
     \/ /\ submit' = Served(submit, "failed")
        /\ UNCHANGED <<created, live>>
  /\ UNCHANGED <<profileEdits, resetLink, cookie, csrf, session, me, orphan,
                 save, authPage, profileDraft, left, crossed>>

\* logout ends the session, change_my_password and reset_password end all.
EndSessions ==
  /\ submit.at = "sent"
  /\ IF submit.kind = "reset"
     THEN /\ resetLink /\ resetLink' = FALSE
          /\ live' = {} /\ submit' = Served(submit, "done")
     ELSE /\ submit.kind \in {"logout", "password"}
          /\ IF HasSession(submit) /\ TokenFits(submit)
             THEN /\ live' = IF submit.kind = "logout"
                             THEN live \ {submit.cookie} ELSE {}
                  /\ submit' = Done(submit, submit.cookie, 0)
             ELSE submit' = Served(submit, "failed") /\ UNCHANGED live
          /\ UNCHANGED resetLink
  /\ UNCHANGED <<created, profileEdits, cookie, csrf, session, me, orphan,
                 save, authPage, profileDraft, left, crossed>>

\* update_me, upload_avatar, delete_avatar and sign_out_other_sessions.
ServeSave ==
  /\ save.at = "sent"
  /\ IF HasSession(save) /\ TokenFits(save)
     THEN /\ save' = Served(save, "done")
          /\ IF save.kind = "others"
             THEN live' = {save.cookie} /\ UNCHANGED profileEdits
             ELSE /\ profileEdits' \in
                     {profileEdits, profileEdits + 1} \cap 0..MaxProfileEdits
                  /\ UNCHANGED live
     ELSE save' = Served(save, "failed") /\ UNCHANGED <<live, profileEdits>>
  /\ UNCHANGED <<created, resetLink, cookie, csrf, session, me, orphan, submit,
                 authPage, profileDraft, left, crossed>>

\* A session expires, is revoked from another device, or its user deactivated.
Expire(s) ==
  /\ s \in live
  /\ live' = live \ {s}
  /\ UNCHANGED <<created, profileEdits, resetLink, cookie, csrf, session, me,
                 orphan, submit, save, authPage, profileDraft, left, crossed>>

-----------------------------------------------------------------------------
(* The answers.                                                            *)

\* Bound: one request at a time runs on after its query is gone.
OneOrphan == me = NoMe \/ orphan = NoMe

Older(m) == IF m = NoMe THEN NoMe ELSE [m EXCEPT !.old = TRUE]

\* Mutant: the token of the answer is not taken.
KeptToken == csrf

\* handleSessionResponse.
SignInToken == submit.id

\* useLogin and useRegister: the response sets the cookies; then the token, the
\* query, and the page.
ArriveSignIn ==
  LET s == Loaded(submit.id, submit.user)
  IN  /\ submit.at = "done" /\ submit.kind \in {"login", "register"}
      /\ cookie' = submit.id /\ csrf' = SignInToken
      /\ session' = s
      /\ me' = Older(me) /\ UNCHANGED orphan
      /\ submit' = NoSignCall
      /\ authPage' = "documents"
      /\ profileDraft' = NoDraft
      /\ UNCHANGED <<live, created, profileEdits, resetLink, save, left,
                     crossed>>

\* Mutant: the cache is not cleared; the query keeps its request.
OnlyNull ==
  /\ session' = Loaded(0, 0) /\ me' = Older(me) /\ UNCHANGED orphan

\* qc.clear(): the query is another one, and the guard's page mounts it anew;
\* its request still runs the query function to its end.
Cleared ==
  /\ session' = NotLoaded
  /\ me' = SendMe(0)
  /\ orphan' = IF me = NoMe THEN orphan ELSE Orphan(me)

\* useLogout and useChangePassword: the cookies expire, the token and the cache
\* are cleared; then the login page.
ArriveSignOut ==
  /\ submit.at = "done" /\ submit.kind \in {"logout", "password"} /\ OneOrphan
  /\ cookie' = 0 /\ csrf' = 0
  /\ left' = left \cup {submit.id}
  /\ Cleared
  /\ submit' = NoSignCall
  /\ authPage' = "login"
  /\ profileDraft' = NoDraft
  /\ UNCHANGED <<live, created, profileEdits, resetLink, save, crossed>>

\* The other ends: an error that the form shows, or the notice that the password
\* was reset.
ArriveElse ==
  /\ submit.at = "failed" \/ (submit.at = "done" /\ submit.kind = "reset")
  /\ submit' = NoSignCall
  /\ authPage' = IF submit.kind = "reset" /\ submit.at = "done"
                 THEN Guarded("login", session) ELSE authPage
  /\ profileDraft' = IF authPage' = authPage THEN profileDraft ELSE NoDraft
  /\ UNCHANGED <<live, created, profileEdits, resetLink, cookie, csrf, session,
                 me, orphan, save, left, crossed>>

\* The hooks of the page Profile invalidate the session: a request that is under
\* way is cancelled for a new one, if the query has data.
ArriveSave ==
  LET refetch == save.at = "done" /\ save.kind # "others" /\ session.loaded
  IN  /\ save.at \in {"done", "failed"} /\ (refetch => OneOrphan)
      /\ save' = NoSignCall
      /\ me' = IF refetch THEN SendMe(cookie) ELSE me
      /\ orphan' = IF refetch /\ me # NoMe THEN Orphan(me) ELSE orphan
      /\ profileDraft' = IF save.kind = "profile" /\ save.at = "done"
                         THEN [profileDraft EXCEPT !.editing = FALSE]
                         ELSE profileDraft
      /\ UNCHANGED <<live, created, profileEdits, resetLink, cookie, csrf,
                     session, submit, authPage, left, crossed>>

-----------------------------------------------------------------------------
SignInInit ==
  /\ live = {} /\ created = 0 /\ profileEdits = 0
  /\ cookie = 0 /\ csrf = 0 /\ session = NotLoaded
  /\ me = SendMe(0) /\ orphan = NoMe /\ submit = NoSignCall /\ save = NoSignCall
  /\ authPage \in {"documents", "reset"} /\ resetLink = (authPage = "reset")
  /\ profileDraft = NoDraft
  /\ left = {} /\ crossed = FALSE

SignInNext ==
  \/ FetchSession \/ AnswerMe \/ ArriveMe \/ ArriveOrphan
  \/ \E target \in AuthPages : GoTo(target)
  \/ \E kind \in SubmitKinds : Submit(kind)
  \/ StartEditing \/ TypeProfileName \/ \E kind \in SaveKinds : StartSave(kind)
  \/ CreateSession \/ EndSessions \/ ServeSave
  \/ \E s \in 1..MaxSessions : Expire(s)
  \/ ArriveSignIn \/ ArriveSignOut \/ ArriveElse \/ ArriveSave

SignInSpec == SignInInit /\ [][SignInNext]_signInVars

-----------------------------------------------------------------------------
(* Properties.                                                             *)

MeType == [at : {"none", "sent", "answered"}, cookie : Sessions, id : Sessions,
           user : 0..MaxProfileEdits, old : BOOLEAN]
CallType(kinds) ==
  [kind : kinds \cup {"none"}, at : {"none", "sent", "done", "failed"},
   cookie : Sessions, token : Sessions, id : Sessions,
   user : 0..MaxProfileEdits]

\* Every variable keeps its type.
SignInTypeOK ==
  /\ live \subseteq Sessions /\ created \in Sessions
  /\ profileEdits \in 0..MaxProfileEdits
  /\ resetLink \in BOOLEAN /\ cookie \in Sessions /\ csrf \in Sessions
  /\ session \in [loaded : BOOLEAN, id : Sessions, user : 0..MaxProfileEdits]
  /\ me \in MeType /\ orphan \in MeType
  /\ submit \in CallType(SubmitKinds) /\ save \in CallType(SaveKinds)
  /\ authPage \in AuthPages
  /\ profileDraft \in [editing : BOOLEAN, typed : BOOLEAN]
  /\ left \subseteq Sessions /\ crossed \in BOOLEAN

\* Once the browser has signed out of a session, no late answer shows it as
\* signed in to that session again.
SignedOutStaysOut == session.loaded => session.id = 0 \/ session.id \notin left

\* The server never refuses the token of a browser whose session it accepts,
\* over any number of sign-ins and sign-outs, unless an answer of /me was
\* overtaken.
TokensFit ==
  ~crossed => \A c \in {submit, save} :
                c.at = "sent" /\ HasSession(c) => TokenFits(c)

\* A refetch of the session that finds the same user leaves alone what is typed
\* on the page Profile.
TypedNameStays ==
  [][(/\ profileDraft.typed /\ ~profileDraft'.typed
      /\ authPage' = authPage /\ SignedIn(session) /\ SignedIn(session'))
     => session'.user # session.user]_signInVars
=============================================================================
