-------------------------- MODULE Accounts_proofs ---------------------------
(***************************************************************************)
(* Theorems about UserAdmin, SignIn and QueryCache.                        *)
(*                                                                         *)
(* UserAdmin, for every set of accounts and administrators and any number  *)
(* of requests: an administrator remains, and a reset that was settled     *)
(* stays so.  SignIn, for any number of sessions and of changes of the     *)
(* account: whom the browser shows as signed in, the tokens it sends, and  *)
(* what is typed on the page Profile.  QueryCache, for any number of       *)
(* mutations: a page comes to show what its user has done.                 *)
(*                                                                         *)
(* MCWebAccounts, which composes the three and whose constants have        *)
(* values: its type invariant follows from theirs.                         *)
(***************************************************************************)
EXTENDS MCWebAccounts, FiniteSetTheorems, TLAPS

-----------------------------------------------------------------------------
(* UserAdmin: type correctness.                                            *)

RowsTypes == {<<>>} \cup [users : [Accounts -> AccountType],
                         resets : [Accounts -> ResetStates]]
DialogTypes == [type : ConfirmTypes \cup {"none"}, user : UserTarget,
                typed : {"none", "mismatch", "good"}]
UserCallTypes == [type : ConfirmTypes \cup {"none"}, user : UserTarget,
              step : {"none", "sent", "read", "done", "failed"}, admins : Nat]

LEMMA AccountTypes ==
  /\ NewAccount \in AccountType /\ Deleted \in AccountType
  /\ \A c \in UserCallTypes, a \in AccountType : Applied(c, a) \in AccountType
  /\ \A c \in UserCallTypes, r \in ResetStates : ResetAfter(c, r) \in ResetStates
<1>1. NewAccount \in AccountType
  BY DEF NewAccount, AccountType
<1>2. Deleted \in AccountType
  BY DEF Deleted, NewAccount, AccountType
<1>3. ASSUME NEW c \in UserCallTypes, NEW a \in AccountType
      PROVE  Applied(c, a) \in AccountType
  <2>1. /\ [a EXCEPT !.admin = c.type = "make_admin"] \in AccountType
        /\ [a EXCEPT !.active = c.type = "activate"] \in AccountType
    BY DEF AccountType
  <2> QED
    BY <1>2, <2>1 DEF Applied
<1>4. ASSUME NEW c \in UserCallTypes, NEW r \in ResetStates
      PROVE  ResetAfter(c, r) \in ResetStates
  BY DEF ResetAfter, ResetStates
<1> QED
  BY <1>1, <1>2, <1>3, <1>4

LEMMA DialogType ==
  /\ NoDialog \in DialogTypes
  /\ \A type \in ConfirmTypes, u \in Accounts : Dialog(type, u) \in DialogTypes
  BY DEF NoDialog, Dialog, DialogTypes, UserTarget

LEMMA UserCallIsTyped ==
  /\ NoCall \in UserCallTypes
  /\ \A type \in ConfirmTypes \cup {"none"}, u \in UserTarget :
       NewCall(type, u) \in UserCallTypes
  BY DEF NoCall, NewCall, UserCallTypes, UserTarget

LEMMA CountTypes ==
  /\ Cardinality(ActiveAdmins) \in Nat /\ Cardinality(AllAdmins) \in Nat
<1>1. IsFiniteSet(ActiveAdmins) /\ IsFiniteSet(AllAdmins)
  BY UserAdminAssumption, FS_Subset DEF ActiveAdmins, AllAdmins
<1> QED
  BY <1>1, FS_CardinalityType

LEMMA UserAdminTypeInit == UserAdminInit => UserAdminTypeOK
<1> SUFFICES ASSUME UserAdminInit PROVE UserAdminTypeOK
  OBVIOUS
<1>1. account \in [Accounts -> AccountType]
  <2>1. \A x \in BOOLEAN : [NewAccount EXCEPT !.admin = x] \in AccountType
    BY DEF NewAccount, AccountType
  <2>2. ASSUME NEW u \in Accounts
        PROVE  [NewAccount EXCEPT !.admin = u \in Admins] \in AccountType
    <3>1. (u \in Admins) \in BOOLEAN
      OBVIOUS
    <3> QED
      BY <2>1, <3>1, Zenon
  <2> QED
    BY <2>2 DEF UserAdminInit
<1>2. /\ resets \in [Accounts -> ResetStates]
      /\ userRows \in [Admins -> RowsTypes]
      /\ userDialog \in [Admins -> DialogTypes]
      /\ userCall \in [Admins -> UserCallTypes]
  BY DialogType, UserCallIsTyped DEF UserAdminInit, ResetStates, RowsTypes
<1>3. asked \in 0..MaxResets /\ calls \in 0..MaxCalls /\ overlapped \in BOOLEAN
  <2>1. asked = 0 /\ calls = 0 /\ overlapped \in BOOLEAN
    BY Zenon DEF UserAdminInit
  <2>2. 0 \in 0..MaxResets /\ 0 \in 0..MaxCalls
    BY UserAdminAssumption
  <2> QED
    BY <2>1, <2>2, Zenon
<1> QED
  BY <1>1, <1>2, <1>3, Zenon
  DEF UserAdminTypeOK, RowsTypes, DialogTypes, UserCallTypes

LEMMA UserAdminTypeStep ==
  UserAdminTypeOK /\ [UserAdminNext]_userVars => UserAdminTypeOK'
<1> SUFFICES ASSUME UserAdminTypeOK, [UserAdminNext]_userVars
             PROVE  UserAdminTypeOK'
  OBVIOUS
<1>0. /\ account \in [Accounts -> AccountType]
      /\ resets \in [Accounts -> ResetStates]
      /\ userRows \in [Admins -> RowsTypes]
      /\ userDialog \in [Admins -> DialogTypes]
      /\ userCall \in [Admins -> UserCallTypes]
      /\ asked \in 0..MaxResets /\ calls \in 0..MaxCalls
      /\ overlapped \in BOOLEAN
  BY DEF UserAdminTypeOK, RowsTypes, DialogTypes, UserCallTypes
<1>a. SUFFICES /\ account' \in [Accounts -> AccountType]
               /\ resets' \in [Accounts -> ResetStates]
               /\ userRows' \in [Admins -> RowsTypes]
               /\ userDialog' \in [Admins -> DialogTypes]
               /\ userCall' \in [Admins -> UserCallTypes]
               /\ asked' \in 0..MaxResets /\ calls' \in 0..MaxCalls
               /\ overlapped' \in BOOLEAN
  BY DEF UserAdminTypeOK, RowsTypes, DialogTypes, UserCallTypes
<1>b. [users |-> account, resets |-> resets] \in RowsTypes
  BY <1>0 DEF RowsTypes
<1>1. ASSUME NEW b \in Admins, LoadUsers(b)
      PROVE  userRows' \in [Admins -> RowsTypes]
             /\ UNCHANGED <<account, resets, asked, userDialog, userCall,
                            calls, overlapped>>
  BY <1>0, <1>1, <1>b DEF LoadUsers
<1>2. ASSUME NEW b \in Admins, TypePassword(b) \/ CloseDialog(b)
      PROVE  userDialog' \in [Admins -> DialogTypes]
             /\ UNCHANGED <<account, resets, asked, userRows, userCall, calls,
                            overlapped>>
  <2>1. ASSUME NEW t \in {"mismatch", "good"}
        PROVE  [userDialog EXCEPT ![b].typed = t] \in [Admins -> DialogTypes]
    BY <1>0 DEF DialogTypes
  <2>2. [userDialog EXCEPT ![b] = NoDialog] \in [Admins -> DialogTypes]
    BY <1>0, DialogType
  <2> QED
    BY <1>2, <2>1, <2>2 DEF TypePassword, CloseDialog
<1>3. ASSUME NEW b \in Admins, NEW type \in ConfirmTypes, NEW u \in Accounts,
             OpenDialog(b, type, u)
      PROVE  userDialog' \in [Admins -> DialogTypes]
             /\ UNCHANGED <<account, resets, asked, userRows, userCall, calls,
                            overlapped>>
  BY <1>0, <1>3, DialogType DEF OpenDialog
<1>4. ASSUME NEW b \in Admins, RunConfirm(b)
      PROVE  userCall' \in [Admins -> UserCallTypes] /\ calls' \in 0..MaxCalls
             /\ UNCHANGED <<account, resets, asked, userRows, userDialog,
                            overlapped>>
  <2>1. userDialog[b] \in DialogTypes
    BY <1>0
  <2>2. NewCall(userDialog[b].type, userDialog[b].user) \in UserCallTypes
    BY <2>1, UserCallIsTyped DEF DialogTypes
  <2> QED
    BY <1>0, <1>4, <2>2, UserAdminAssumption DEF RunConfirm
<1>5. ASSUME NEW b \in Admins, BeginCall(b)
      PROVE  userCall' \in [Admins -> UserCallTypes] /\ overlapped' \in BOOLEAN
             /\ UNCHANGED <<account, resets, asked, userRows, userDialog,
                            calls>>
  <2>1. overlapped' \in BOOLEAN
    BY <1>0, <1>5, Zenon DEF BeginCall
  <2>2. userCall' \in [Admins -> UserCallTypes]
    <3>1. PICK n \in Nat : userCall' \in
            {[userCall EXCEPT ![b].step = "read", ![b].admins = n],
             [userCall EXCEPT ![b].step = "failed"]}
      BY <1>5, CountTypes DEF BeginCall
    <3> DEFINE read == [userCall[b] EXCEPT !.step = "read", !.admins = n]
               failed == [userCall[b] EXCEPT !.step = "failed"]
    <3>2. read \in UserCallTypes /\ failed \in UserCallTypes
      BY <1>0 DEF UserCallTypes
    <3>3. \/ userCall' = [userCall EXCEPT ![b] = read]
          \/ userCall' = [userCall EXCEPT ![b] = failed]
      BY <1>0, <3>1
    <3> HIDE DEF read, failed
    <3> QED
      BY <1>0, <3>2, <3>3
  <2> QED
    BY <1>5, <2>1, <2>2 DEF BeginCall
<1>6. ASSUME NEW b \in Admins, CommitCall(b)
      PROVE  /\ account' \in [Accounts -> AccountType]
             /\ resets' \in [Accounts -> ResetStates]
             /\ userCall' \in [Admins -> UserCallTypes]
             /\ UNCHANGED <<asked, userRows, userDialog, calls, overlapped>>
  <2>1. userCall[b] \in UserCallTypes
    BY <1>0
  <2>2. userCall' \in [Admins -> UserCallTypes]
    BY <1>0, <1>6 DEF CommitCall, UserCallTypes
  <2> QED
    BY <1>0, <1>6, <2>1, <2>2, AccountTypes DEF CommitCall
<1>7. ASSUME NEW b \in Admins, SettleCall(b)
      PROVE  /\ userCall' \in [Admins -> UserCallTypes]
             /\ userDialog' \in [Admins -> DialogTypes]
             /\ userRows' \in [Admins -> RowsTypes]
             /\ UNCHANGED <<account, resets, asked, calls, overlapped>>
  BY <1>0, <1>7, <1>b, DialogType, UserCallIsTyped DEF SettleCall
<1>8. ASSUME NEW u \in Accounts, RequestReset(u)
      PROVE  /\ resets' \in [Accounts -> ResetStates]
             /\ asked' \in 0..MaxResets
             /\ UNCHANGED <<account, userRows, userDialog, userCall, calls,
                            overlapped>>
  BY <1>0, <1>8, UserAdminAssumption DEF RequestReset, ResetStates
<1>9. CASE UNCHANGED userVars
  BY <1>0, <1>9 DEF userVars
<1> QED
  BY <1>0, <1>1, <1>2, <1>3, <1>4, <1>5, <1>6, <1>7, <1>8, <1>9
  DEF UserAdminNext

\* Every variable keeps its type, for all accounts.
THEOREM UserAdminTypeCorrect == UserAdminSpec => []UserAdminTypeOK
  BY UserAdminTypeInit, UserAdminTypeStep, PTL DEF UserAdminSpec

-----------------------------------------------------------------------------
(* An administrator remains.                                               *)

\* As long as transactions do not overlap there is one at the most, and whoever
\* makes it is an administrator until it ends.
OneTransaction ==
  ~overlapped =>
    /\ \A b \in InTransaction : b \in ActiveAdmins
    /\ \A b1, b2 \in InTransaction : b1 = b2

AdminInv == UserAdminTypeOK /\ OneTransaction /\ AnAdminRemains

LEMMA AdminInit == UserAdminInit => AdminInv
<1> SUFFICES ASSUME UserAdminInit PROVE AdminInv
  OBVIOUS
<1>1. InTransaction = {}
  BY DEF UserAdminInit, InTransaction, NoCall
<1>2. ActiveAdmins = Admins
  BY UserAdminAssumption DEF UserAdminInit, ActiveAdmins, NewAccount
<1> QED
  BY <1>1, <1>2, UserAdminTypeInit, UserAdminAssumption
  DEF AdminInv, OneTransaction, AnAdminRemains

\* What a transaction is allowed leaves its own account an administrator.
LEMMA CommitSparesItself ==
  ASSUME UserAdminTypeOK, NEW b \in ActiveAdmins, b \in Admins, CommitCall(b)
  PROVE  b \in ActiveAdmins'
<1> DEFINE c == userCall[b]
<1>0. account \in [Accounts -> AccountType] /\ b \in Accounts
      /\ account[b].exists /\ account[b].admin /\ account[b].active
  BY DEF UserAdminTypeOK, ActiveAdmins
<1>1. CASE ~CallAllowed(c, b)
  BY <1>0, <1>1 DEF CommitCall, ActiveAdmins
<1>2. CASE CallAllowed(c, b) /\ c.user # b
  BY <1>0, <1>2 DEF CommitCall, ActiveAdmins
<1>3. CASE CallAllowed(c, b) /\ c.user = b
  <2>1. account'[b] = Applied(c, account[b])
    BY <1>0, <1>3 DEF CommitCall
  <2>2. c.type \notin {"remove_admin", "deactivate", "delete"}
    BY <1>0, <1>3
    DEF CallAllowed, ChangeAllowed, ResetTypes, RoleTypes, ActiveTypes
  <2>3. /\ Applied(c, account[b]).exists /\ Applied(c, account[b]).admin
        /\ Applied(c, account[b]).active
    BY <1>0, <2>2 DEF Applied, RoleTypes, ActiveTypes, AccountType
  <2> QED
    BY <1>0, <2>1, <2>3 DEF ActiveAdmins
<1> QED
  BY <1>1, <1>2, <1>3

LEMMA AdminStep == AdminInv /\ [UserAdminNext]_userVars => AdminInv'
<1> SUFFICES ASSUME AdminInv, [UserAdminNext]_userVars
             PROVE  (OneTransaction /\ AnAdminRemains)'
  BY UserAdminTypeStep DEF AdminInv
<1>0. userCall \in [Admins -> UserCallTypes] /\ overlapped \in BOOLEAN
  BY DEF AdminInv, UserAdminTypeOK, UserCallTypes
<1> USE DEF AdminInv, OneTransaction, AnAdminRemains
<1>1. ASSUME UNCHANGED <<account, overlapped>>, InTransaction' = InTransaction
      PROVE  (OneTransaction /\ AnAdminRemains)'
  <2>1. ActiveAdmins' = ActiveAdmins
    BY <1>1 DEF ActiveAdmins
  <2> QED
    BY <1>1, <2>1
<1>2. ASSUME NEW b \in Admins, BeginCall(b)
      PROVE  (OneTransaction /\ AnAdminRemains)'
  <2>1. ActiveAdmins' = ActiveAdmins
    BY <1>2 DEF BeginCall, ActiveAdmins
  <2>2. CASE Authorised(b)
    <3>1. overlapped' = (overlapped \/ InTransaction # {})
      BY <1>2, <2>2 DEF BeginCall
    <3>2. InTransaction' = InTransaction \cup {b}
      BY <1>0, <1>2, <2>2 DEF BeginCall, InTransaction, UserCallTypes
    <3> QED
      BY <2>1, <2>2, <3>1, <3>2 DEF Authorised
  <2>3. CASE ~Authorised(b)
    <3>1. InTransaction' = InTransaction /\ overlapped' = overlapped
      BY <1>0, <1>2, <2>3 DEF BeginCall, InTransaction, UserCallTypes
    <3> QED
      BY <2>1, <3>1
  <2> QED
    BY <2>2, <2>3
<1>3. ASSUME NEW b \in Admins, CommitCall(b)
      PROVE  (OneTransaction /\ AnAdminRemains)'
  <2>1. b \in InTransaction /\ overlapped' = overlapped
    BY <1>3 DEF CommitCall, InTransaction
  <2>2. InTransaction' = InTransaction \ {b}
    BY <1>0, <1>3 DEF CommitCall, InTransaction, UserCallTypes
  <2>3. ~overlapped => b \in ActiveAdmins'
    BY <1>3, <2>1, CommitSparesItself
  <2> QED
    BY <2>1, <2>2, <2>3
<1>4. ASSUME NEW b \in Admins,
             \/ LoadUsers(b) \/ TypePassword(b) \/ CloseDialog(b)
             \/ \E type \in ConfirmTypes, u \in Accounts :
                  OpenDialog(b, type, u)
      PROVE  (OneTransaction /\ AnAdminRemains)'
  <2>1. UNCHANGED <<account, overlapped, userCall>>
    BY <1>4 DEF LoadUsers, TypePassword, CloseDialog, OpenDialog
  <2> QED
    BY <1>1, <2>1 DEF InTransaction
<1>5. ASSUME NEW b \in Admins, RunConfirm(b) \/ SettleCall(b)
      PROVE  (OneTransaction /\ AnAdminRemains)'
  <2>1. /\ userCall[b].step # "read"
        /\ userCall'[b].step # "read"
        /\ \A x \in Admins \ {b} : userCall'[x] = userCall[x]
    BY <1>0, <1>5
    DEF RunConfirm, SettleCall, ConfirmOffered, Busy, NoCall, NewCall
  <2>2. InTransaction' = InTransaction
    BY <2>1 DEF InTransaction
  <2> QED
    BY <1>1, <1>5, <2>2 DEF RunConfirm, SettleCall
<1>6. ASSUME NEW u \in Accounts, RequestReset(u)
      PROVE  (OneTransaction /\ AnAdminRemains)'
  BY <1>1, <1>6 DEF RequestReset, InTransaction
<1>7. CASE UNCHANGED userVars
  BY <1>1, <1>7 DEF userVars, InTransaction
<1> QED
  BY <1>2, <1>3, <1>4, <1>5, <1>6, <1>7 DEF UserAdminNext

\* Whatever rows and dialogs the administrators go by, they cannot lock all of
\* them out, as long as their transactions do not overlap (users.py:281).
THEOREM SomebodyAdministrates == UserAdminSpec => []AnAdminRemains
<1>1. AdminInv => AnAdminRemains
  BY DEF AdminInv
<1> QED
  BY <1>1, AdminInit, AdminStep, PTL DEF UserAdminSpec

-----------------------------------------------------------------------------
(* Password resets.                                                        *)

LEMMA SettledStep ==
  ASSUME UserAdminTypeOK, [UserAdminNext]_userVars, NEW u \in Accounts,
         resets[u] \in {"approved", "rejected"}
  PROVE  resets'[u] \in {resets[u], "pending", "none"}
<1>0. resets \in [Accounts -> ResetStates]
  BY DEF UserAdminTypeOK
<1>1. ASSUME NEW b \in Admins, CommitCall(b)
      PROVE  resets'[u] \in {resets[u], "pending", "none"}
  <2>1. CASE CallAllowed(userCall[b], b) /\ userCall[b].user = u
    <3>1. resets'[u] = ResetAfter(userCall[b], resets[u])
      BY <1>0, <1>1, <2>1 DEF CommitCall
    <3>2. userCall[b].type \notin {"approve_reset", "reject_reset"}
      BY <2>1 DEF CallAllowed, ResetAllowed, ResetTypes
    <3> QED
      BY <3>1, <3>2 DEF ResetAfter
  <2>2. CASE ~(CallAllowed(userCall[b], b) /\ userCall[b].user = u)
    BY <1>0, <1>1, <2>2 DEF CommitCall
  <2> QED
    BY <2>1, <2>2
<1>2. ASSUME NEW x \in Accounts, RequestReset(x)
      PROVE  resets'[u] \in {resets[u], "pending", "none"}
  BY <1>0, <1>2 DEF RequestReset
<1>3. CASE UNCHANGED resets
  BY <1>3
<1> QED
  BY <1>1, <1>2, <1>3
  DEF UserAdminNext, LoadUsers, TypePassword, CloseDialog, RunConfirm,
      OpenDialog, BeginCall, SettleCall, userVars

\* What one administrator has approved or rejected is not settled another way
\* by the dialog of another (users.py:505).
THEOREM SettledResetsStay == UserAdminSpec => SettledResetStays
<1>1. UserAdminTypeOK /\ [UserAdminNext]_userVars =>
        [~overlapped /\ ~overlapped' =>
           \A u \in Accounts :
             resets[u] \in {"approved", "rejected"} =>
               resets'[u] \in {resets[u], "pending", "none"}]_userVars
  BY SettledStep
<1> QED
  BY <1>1, UserAdminTypeCorrect, PTL DEF UserAdminSpec, SettledResetStays

-----------------------------------------------------------------------------
(* SignIn: records.                                                        *)

Users == 0..MaxProfileEdits

LEMMA Zero == 0 \in Sessions /\ 0 \in Users
  BY SignInAssumption DEF Sessions, Users

LEMMA MeTypes ==
  /\ NoMe \in MeType /\ NoMe.at = "none" /\ NoMe.cookie = 0 /\ NoMe.id = 0
  /\ NoMe.user = 0 /\ ~NoMe.old
  /\ \A c \in Sessions : /\ SendMe(c) \in MeType /\ SendMe(c).at = "sent"
                         /\ SendMe(c).cookie = c /\ ~SendMe(c).old
  /\ \A m \in MeType : /\ Orphan(m) \in MeType
                       /\ Older(m) \in MeType /\ Older(m).at = m.at
                       /\ Older(m).cookie = m.cookie /\ Older(m).id = m.id
                       /\ Older(m).at # "none" => Older(m).old \/ m = NoMe
<1>1. /\ NoMe \in MeType /\ NoMe.at = "none" /\ NoMe.cookie = 0 /\ NoMe.id = 0
      /\ NoMe.user = 0 /\ ~NoMe.old
  BY Zero DEF NoMe, MeType, Users
<1>2. ASSUME NEW c \in Sessions
      PROVE  /\ SendMe(c) \in MeType /\ SendMe(c).at = "sent"
             /\ SendMe(c).cookie = c /\ ~SendMe(c).old
  BY <1>1 DEF SendMe, MeType
<1>3. ASSUME NEW m \in MeType
      PROVE  /\ Orphan(m) \in MeType
             /\ Older(m) \in MeType /\ Older(m).at = m.at
             /\ Older(m).cookie = m.cookie /\ Older(m).id = m.id
             /\ Older(m).at # "none" => Older(m).old \/ m = NoMe
  BY <1>1, Zero DEF Orphan, Older, MeType, Users
<1> QED
  BY <1>1, <1>2, <1>3

\* What /me answers: nobody, or the session of the cookie it was sent with.
LEMMA AnsweredTypes ==
  ASSUME SignInTypeOK, NEW m \in MeType, NEW a \in Answered(m)
  PROVE  /\ a \in MeType /\ a.at = "answered" /\ a.old = m.old
         /\ a.id = 0 \/ (a.id = m.cookie /\ a.id \in live)
<1> DEFINE failed == [NoMe EXCEPT !.at = "answered", !.old = m.old]
<1>1. /\ failed \in MeType /\ failed.at = "answered" /\ failed.old = m.old
      /\ failed.id = 0
  BY MeTypes DEF MeType
<1>2. ASSUME NEW s \in live \cap {m.cookie},
             a = [failed EXCEPT !.id = s, !.user = profileEdits]
      PROVE  /\ a \in MeType /\ a.at = "answered" /\ a.old = m.old
             /\ a.id = m.cookie /\ a.id \in live
  <2> HIDE DEF failed
  <2> QED
    BY <1>1, <1>2 DEF MeType, SignInTypeOK
<1> QED
  BY <1>1, <1>2 DEF Answered

CallSteps == {"none", "sent", "done", "failed"}

LEMMA CallTypes ==
  ASSUME NEW kinds
  PROVE  /\ NoSignCall \in CallType(kinds) /\ NoSignCall.at = "none"
         /\ NoSignCall.cookie = 0 /\ NoSignCall.id = 0
         /\ NoSignCall.kind = "none"
  BY Zero DEF NoSignCall, CallType, Users

LEMMA TokenTypes == SignInTypeOK => CsrfToken \in Sessions
  BY DEF SignInTypeOK, CsrfToken

LEMMA SendTypes ==
  ASSUME SignInTypeOK, NEW kinds, NEW kind \in kinds
  PROVE  /\ Send(kind) \in CallType(kinds)
         /\ Send(kind).kind = kind /\ Send(kind).at = "sent"
         /\ Send(kind).cookie = cookie /\ Send(kind).token = CsrfToken
         /\ Send(kind).id = 0
  BY CallTypes, TokenTypes DEF Send, CallType, SignInTypeOK

LEMMA ServedTypes ==
  ASSUME NEW kinds, NEW c \in CallType(kinds), NEW at \in CallSteps
  PROVE  /\ Served(c, at) \in CallType(kinds)
         /\ Served(c, at).kind = c.kind /\ Served(c, at).at = at
         /\ Served(c, at).cookie = 0 /\ Served(c, at).id = 0
  BY CallTypes DEF Served, CallType, CallSteps

LEMMA DoneTypes ==
  ASSUME NEW kinds, NEW c \in CallType(kinds), NEW i \in Sessions,
         NEW u \in Users
  PROVE  /\ Done(c, i, u) \in CallType(kinds)
         /\ Done(c, i, u).kind = c.kind /\ Done(c, i, u).at = "done"
         /\ Done(c, i, u).cookie = 0 /\ Done(c, i, u).id = i
<1>1. NoSignCall \in CallType(kinds) /\ NoSignCall.cookie = 0
  BY CallTypes
<1> QED
  BY <1>1 DEF Done, CallType, Users

LEMMA LoadedTypes ==
  /\ NotLoaded \in [loaded : BOOLEAN, id : Sessions, user : Users]
  /\ ~NotLoaded.loaded
  /\ \A s \in Sessions, u \in Users :
       /\ Loaded(s, u) \in [loaded : BOOLEAN, id : Sessions, user : Users]
       /\ Loaded(s, u).loaded /\ Loaded(s, u).id = s
  BY Zero DEF NotLoaded, Loaded

LEMMA GuardedTypes ==
  ASSUME NEW target \in AuthPages, NEW s
  PROVE  Guarded(target, s) \in AuthPages
  BY DEF Guarded, AuthPages, GuestPages

-----------------------------------------------------------------------------
(* Type correctness.                                                       *)

LEMMA SignInTypeInit == SignInInit => SignInTypeOK
<1> SUFFICES ASSUME SignInInit PROVE SignInTypeOK
  OBVIOUS
<1>1. /\ me \in MeType /\ orphan \in MeType
      /\ submit \in CallType(SubmitKinds) /\ save \in CallType(SaveKinds)
      /\ session \in [loaded : BOOLEAN, id : Sessions, user : Users]
  BY Zero, MeTypes, CallTypes, LoadedTypes DEF SignInInit
<1>2. /\ authPage \in AuthPages /\ resetLink \in BOOLEAN
      /\ profileDraft \in [editing : BOOLEAN, typed : BOOLEAN]
      /\ crossed \in BOOLEAN
  BY DEF SignInInit, AuthPages, GuestPages, NoDraft
<1>3. /\ live \subseteq Sessions /\ left \subseteq Sessions
      /\ created \in Sessions /\ profileEdits \in Users
      /\ cookie \in Sessions /\ csrf \in Sessions
  BY Zero DEF SignInInit
<1> QED
  BY <1>1, <1>2, <1>3 DEF SignInTypeOK, Users

LEMMA SignInTypeStep ==
  SignInTypeOK /\ [SignInNext]_signInVars => SignInTypeOK'
<1> SUFFICES ASSUME SignInTypeOK, [SignInNext]_signInVars
             PROVE  SignInTypeOK'
  OBVIOUS
<1>0. /\ me \in MeType /\ orphan \in MeType
      /\ submit \in CallType(SubmitKinds) /\ save \in CallType(SaveKinds)
      /\ profileEdits \in Users /\ authPage \in AuthPages
      /\ profileDraft \in [editing : BOOLEAN, typed : BOOLEAN]
  BY DEF SignInTypeOK, Users
<1>d. /\ NoDraft \in [editing : BOOLEAN, typed : BOOLEAN]
      /\ \A s : Refilled(s) \in [editing : BOOLEAN, typed : BOOLEAN]
  BY <1>0 DEF NoDraft, Refilled
<1> USE DEF SignInTypeOK
<1>1. CASE FetchSession
  BY <1>1, MeTypes DEF FetchSession
<1>2. CASE AnswerMe
  <2>1. CASE me' \in Answered(me) /\ UNCHANGED orphan
    BY <1>0, <1>2, <2>1, AnsweredTypes DEF AnswerMe
  <2>2. ASSUME UNCHANGED me, NEW m \in Answered(orphan), orphan' = Orphan(m)
        PROVE  SignInTypeOK'
    BY <1>0, <1>2, <2>2, AnsweredTypes, MeTypes DEF AnswerMe
  <2> QED
    BY <1>2, <2>1, <2>2 DEF AnswerMe
<1>3. CASE ArriveMe
  <2>1. me.id \in Sessions /\ me.user \in Users /\ me.old \in BOOLEAN
    BY <1>0 DEF MeType, Users
  <2>2. /\ session' \in [loaded : BOOLEAN, id : Sessions, user : Users]
        /\ authPage' \in AuthPages /\ me' \in MeType /\ csrf' \in Sessions
        /\ profileDraft' \in [editing : BOOLEAN, typed : BOOLEAN]
    BY <1>3, <1>d, <2>1, LoadedTypes, GuardedTypes, MeTypes DEF ArriveMe
  <2>3. crossed' \in BOOLEAN
    BY <1>3, <2>1, Zenon DEF ArriveMe
  <2> QED
    BY <1>3, <2>2, <2>3 DEF ArriveMe, Users
<1>4. CASE ArriveOrphan
  BY <1>0, <1>4, MeTypes DEF ArriveOrphan, MeType
<1>5. ASSUME NEW target \in AuthPages, GoTo(target)
      PROVE  SignInTypeOK'
  BY <1>5, <1>d DEF GoTo
<1>6. ASSUME NEW kind \in SubmitKinds, Submit(kind)
      PROVE  SignInTypeOK'
  BY <1>6, SendTypes, TokenTypes DEF Submit
<1>7. CASE StartEditing \/ TypeProfileName
  BY <1>0, <1>7 DEF StartEditing, TypeProfileName
<1>8. ASSUME NEW kind \in SaveKinds, StartSave(kind)
      PROVE  SignInTypeOK'
  BY <1>8, SendTypes, TokenTypes DEF StartSave
<1>9. CASE CreateSession
  <2>1. created' \in Sessions /\ live' \subseteq Sessions
    <3>1. \/ created < MaxSessions /\ created' = created + 1
         \/ created' = created
      BY <1>9 DEF CreateSession
    <3>2. created' \in Sessions
      BY <3>1, SignInAssumption DEF Sessions
    <3>3. live' = live \cup {created'} \/ live' = live
      BY <1>9 DEF CreateSession
    <3> QED
      BY <3>2, <3>3
  <2>2. submit' \in CallType(SubmitKinds)
    <3>1. "failed" \in CallSteps
      BY DEF CallSteps
    <3>2. CASE submit' = Served(submit, "failed")
      BY <1>0, <3>1, <3>2, ServedTypes
    <3>3. CASE submit' = Done(submit, created', profileEdits)
      BY <1>0, <2>1, <3>3, Zero, DoneTypes
    <3> QED
      BY <1>9, <3>2, <3>3 DEF CreateSession
  <2> QED
    BY <1>9, <2>1, <2>2 DEF CreateSession
<1>10. CASE EndSessions
  <2>1. submit.cookie \in Sessions
    BY <1>0 DEF CallType
  <2>2. submit' \in CallType(SubmitKinds)
    <3>1. "done" \in CallSteps /\ "failed" \in CallSteps
      BY DEF CallSteps
    <3>2. CASE submit' \in {Served(submit, "done"), Served(submit, "failed")}
      BY <1>0, <3>1, <3>2, ServedTypes
    <3>3. CASE submit' = Done(submit, submit.cookie, 0)
      BY <1>0, <2>1, <3>3, Zero, DoneTypes
    <3> QED
      BY <1>10, <3>2, <3>3 DEF EndSessions
  <2>3. live' \subseteq Sessions /\ resetLink' \in BOOLEAN
    BY <1>10 DEF EndSessions
  <2> QED
    BY <1>10, <2>2, <2>3 DEF EndSessions
<1>11. CASE ServeSave
  <2>1. save.cookie \in Sessions
    BY <1>0 DEF CallType
  <2>2. save' \in CallType(SaveKinds)
    <3>1. "done" \in CallSteps /\ "failed" \in CallSteps
      BY DEF CallSteps
    <3>2. save' \in {Served(save, "done"), Served(save, "failed")}
      BY <1>11 DEF ServeSave
    <3> QED
      BY <1>0, <3>1, <3>2, ServedTypes
  <2>3. live' \subseteq Sessions /\ profileEdits' \in Users
    BY <1>0, <1>11, <2>1 DEF ServeSave, Users
  <2> QED
    BY <1>11, <2>2, <2>3 DEF ServeSave, Users
<1>12. ASSUME NEW s \in 1..MaxSessions, Expire(s)
       PROVE  SignInTypeOK'
  BY <1>12 DEF Expire
<1>13. CASE ArriveSignIn
  <2>1. submit.id \in Sessions /\ submit.user \in Users
    BY <1>0 DEF CallType, Users
  <2>2. /\ session' \in [loaded : BOOLEAN, id : Sessions, user : Users]
        /\ me' \in MeType /\ csrf' \in Sessions /\ cookie' \in Sessions
        /\ submit' \in CallType(SubmitKinds)
    BY <1>0, <1>13, <2>1, LoadedTypes, MeTypes, CallTypes
    DEF ArriveSignIn, SignInToken
  <2> QED
    BY <1>13, <1>d, <2>2 DEF ArriveSignIn, Users, AuthPages
<1>14. CASE ArriveSignOut
  <2>1. submit.id \in Sessions
    BY <1>0 DEF CallType
  <2>2. /\ session' \in [loaded : BOOLEAN, id : Sessions, user : Users]
        /\ me' \in MeType /\ orphan' \in MeType
    BY <1>0, <1>14, Zero, LoadedTypes, MeTypes DEF ArriveSignOut, Cleared
  <2>3. submit' \in CallType(SubmitKinds)
    BY <1>14, CallTypes DEF ArriveSignOut
  <2>4. left' \subseteq Sessions /\ cookie' \in Sessions /\ csrf' \in Sessions
    BY <1>14, <2>1, Zero DEF ArriveSignOut
  <2> QED
    BY <1>14, <1>d, <2>2, <2>3, <2>4
    DEF ArriveSignOut, Users, AuthPages, GuestPages
<1>15. CASE ArriveElse
  <2>1. submit' \in CallType(SubmitKinds)
    BY <1>15, CallTypes DEF ArriveElse
  <2>2. authPage' \in AuthPages
    BY <1>0, <1>15, GuardedTypes DEF ArriveElse, AuthPages, GuestPages
  <2>3. profileDraft' \in [editing : BOOLEAN, typed : BOOLEAN]
    BY <1>0, <1>15, <1>d DEF ArriveElse
  <2> QED
    BY <1>15, <2>1, <2>2, <2>3 DEF ArriveElse
<1>16. CASE ArriveSave
  <2>1. me' \in MeType /\ orphan' \in MeType
    BY <1>0, <1>16, MeTypes DEF ArriveSave
  <2>2. save' \in CallType(SaveKinds)
    BY <1>16, CallTypes DEF ArriveSave
  <2>3. profileDraft' \in [editing : BOOLEAN, typed : BOOLEAN]
    BY <1>0, <1>16 DEF ArriveSave
  <2> QED
    BY <1>16, <2>1, <2>2, <2>3 DEF ArriveSave
<1>17. CASE UNCHANGED signInVars
  BY <1>17 DEF signInVars
<1> QED
  BY <1>1, <1>2, <1>3, <1>4, <1>5, <1>6, <1>7, <1>8, <1>9, <1>10, <1>11,
     <1>12, <1>13, <1>14, <1>15, <1>16, <1>17 DEF SignInNext

\* Every variable keeps its type, for any number of sessions.
THEOREM SignInTypeCorrect == SignInSpec => []SignInTypeOK
  BY SignInTypeInit, SignInTypeStep, PTL DEF SignInSpec

-----------------------------------------------------------------------------
(* Sessions are numbered as they are created, so a new one is none of      *)
(* those that the browser, its requests or its history know.               *)

Past == 0..created

SessionsArePast ==
  /\ live \subseteq Past \ {0} /\ left \subseteq Past
  /\ cookie \in Past
  /\ submit.cookie \in Past /\ submit.id \in Past /\ save.cookie \in Past

LEMMA PastGrows ==
  ASSUME SignInTypeOK, SignInTypeOK', created' \in {created, created + 1}
  PROVE  Past \subseteq Past' /\ 0 \in Past'
  BY SignInAssumption DEF SignInTypeOK, Sessions, Past

LEMMA PastInit == SignInInit => SessionsArePast
  BY CallTypes DEF SignInInit, SessionsArePast, Past

LEMMA PastStep ==
  ASSUME SignInTypeOK, SignInTypeOK', SessionsArePast,
         [SignInNext]_signInVars
  PROVE  SessionsArePast'
<1>0. 0 \in Past /\ created \in Nat
  BY SignInAssumption DEF SignInTypeOK, Sessions, Past
<1>c. submit \in CallType(SubmitKinds) /\ save \in CallType(SaveKinds)
  BY DEF SignInTypeOK
<1> USE DEF SessionsArePast
<1>1. CASE \/ FetchSession \/ AnswerMe \/ ArriveMe \/ ArriveOrphan
           \/ StartEditing \/ TypeProfileName \/ UNCHANGED signInVars
           \/ \E target \in AuthPages : GoTo(target)
           \/ \E s \in 1..MaxSessions : Expire(s)
  BY <1>1 DEF FetchSession, AnswerMe, ArriveMe, ArriveOrphan, StartEditing,
              TypeProfileName, signInVars, GoTo, Expire, Past
<1>2. ASSUME NEW kind \in SubmitKinds, Submit(kind)
      PROVE  SessionsArePast'
  BY <1>0, <1>2, SendTypes DEF Submit, Past
<1>3. ASSUME NEW kind \in SaveKinds, StartSave(kind)
      PROVE  SessionsArePast'
  BY <1>0, <1>3, SendTypes DEF StartSave, Past
<1>4. CASE CreateSession
  <2>1. CASE created' = created + 1
    <3>1. created' \in Sessions /\ profileEdits \in Users
      BY DEF SignInTypeOK, Users
    <3>2. created' \in Past' \ {0} /\ Past \subseteq Past'
      BY <1>0, <2>1 DEF Past
    <3>3. live' = live \cup {created'}
          /\ submit' = Done(submit, created', profileEdits)
      BY <1>0, <1>4, <2>1 DEF CreateSession
    <3>4. submit'.cookie = 0 /\ submit'.id = created'
      BY <1>c, <3>1, <3>3, DoneTypes
    <3> QED
      BY <1>0, <1>4, <3>2, <3>3, <3>4 DEF CreateSession
  <2>2. CASE UNCHANGED <<created, live>> /\ submit' = Served(submit, "failed")
    <3>1. submit'.cookie = 0 /\ submit'.id = 0
      BY <1>c, <2>2, ServedTypes DEF CallSteps
    <3> QED
      BY <1>0, <1>4, <2>2, <3>1 DEF CreateSession, Past
  <2> QED
    BY <1>4, <2>1, <2>2 DEF CreateSession
<1>5. CASE EndSessions
  <2>1. live' \subseteq live
    BY <1>5 DEF EndSessions
  <2>2. submit'.cookie = 0 /\ submit'.id \in Past
    <3>1. submit.cookie \in Sessions
      BY <1>c DEF CallType
    <3>2. CASE submit' \in {Served(submit, "done"), Served(submit, "failed")}
      BY <1>0, <1>c, <3>2, ServedTypes DEF CallSteps
    <3>3. CASE submit' = Done(submit, submit.cookie, 0)
      BY <1>c, <3>1, <3>3, Zero, DoneTypes
    <3> QED
      BY <1>5, <3>2, <3>3 DEF EndSessions
  <2> QED
    BY <1>0, <1>5, <2>1, <2>2 DEF EndSessions, Past
<1>6. CASE ServeSave
  <2>1. live' \subseteq live
    BY <1>6 DEF ServeSave, HasSession
  <2>2. save' \in {Served(save, "done"), Served(save, "failed")}
    BY <1>6 DEF ServeSave
  <2>3. save'.cookie = 0
    BY <1>c, <2>2, ServedTypes DEF CallSteps
  <2> QED
    BY <1>0, <1>6, <2>1, <2>3 DEF ServeSave, Past
<1>7. CASE ArriveSignIn \/ ArriveSignOut \/ ArriveElse
  BY <1>0, <1>7, CallTypes DEF ArriveSignIn, ArriveSignOut, ArriveElse, Past
<1>8. CASE ArriveSave
  BY <1>0, <1>8, CallTypes DEF ArriveSave, Past
<1> QED
  BY <1>1, <1>2, <1>3, <1>4, <1>5, <1>6, <1>7, <1>8 DEF SignInNext

-----------------------------------------------------------------------------
(* Signing out.                                                            *)

NotLeft(s) == s = 0 \/ s \notin left

\* What may yet be shown as signed in is no session that was signed out of.
NoneIsLeft ==
  /\ NotLeft(cookie)
  /\ me.at = "sent" => NotLeft(me.cookie)
  /\ me.at = "answered" => NotLeft(me.id)
  /\ submit.at = "done" /\ submit.kind \in {"login", "register"}
     => NotLeft(submit.id)
  /\ session.loaded => NotLeft(session.id)

LEMMA NoneIsLeftInit == SignInInit => NoneIsLeft
  BY DEF SignInInit, NoneIsLeft, NotLeft

LEMMA NoneIsLeftStep ==
  ASSUME SignInTypeOK, SessionsArePast, NoneIsLeft, [SignInNext]_signInVars
  PROVE  NoneIsLeft'
<1>c. submit \in CallType(SubmitKinds) /\ me \in MeType /\ orphan \in MeType
      /\ cookie \in Sessions /\ profileEdits \in Users
  BY DEF SignInTypeOK, Users
<1> USE DEF NoneIsLeft, NotLeft
<1>1. CASE FetchSession
  BY <1>1, <1>c, MeTypes DEF FetchSession
<1>2. CASE AnswerMe
  <2>1. CASE me.at = "sent" /\ me' \in Answered(me)
    <3>1. me'.at = "answered" /\ (me'.id = 0 \/ me'.id = me.cookie)
      BY <1>c, <2>1, AnsweredTypes
    <3> QED
      BY <1>2, <2>1, <3>1 DEF AnswerMe
  <2>2. CASE UNCHANGED me
    BY <1>2, <2>2 DEF AnswerMe
  <2> QED
    BY <1>2, <2>1, <2>2 DEF AnswerMe
<1>3. CASE ArriveMe
  <2>1. me.id \in Sessions /\ me.user \in Users
    BY <1>c DEF MeType, Users
  <2> QED
    BY <1>3, <2>1, LoadedTypes, MeTypes DEF ArriveMe
<1>4. CASE \/ ArriveOrphan \/ StartEditing \/ TypeProfileName \/ ServeSave
           \/ UNCHANGED signInVars
           \/ \E target \in AuthPages : GoTo(target)
           \/ \E kind \in SaveKinds : StartSave(kind)
           \/ \E s \in 1..MaxSessions : Expire(s)
  BY <1>4 DEF ArriveOrphan, StartEditing, TypeProfileName, ServeSave,
              signInVars, GoTo, StartSave, Expire
<1>5. ASSUME NEW kind \in SubmitKinds, Submit(kind)
      PROVE  NoneIsLeft'
  BY <1>5, SendTypes DEF Submit
<1>6. CASE CreateSession
  <2>1. CASE created' = created + 1
    <3>1. created' \in Sessions /\ created' \notin left
      BY <1>6, <2>1, SignInAssumption
      DEF CreateSession, SignInTypeOK, Sessions, SessionsArePast, Past
    <3>2. submit' = Done(submit, created', profileEdits)
      BY <1>6, <2>1 DEF CreateSession, SignInTypeOK, Sessions
    <3>3. submit'.id = created'
      BY <1>c, <3>1, <3>2, DoneTypes
    <3> QED
      BY <1>6, <3>1, <3>3 DEF CreateSession
  <2>2. CASE submit' = Served(submit, "failed")
    <3>1. submit'.at = "failed"
      BY <1>c, <2>2, ServedTypes DEF CallSteps
    <3> QED
      BY <1>6, <3>1 DEF CreateSession
  <2> QED
    BY <1>6, <2>1, <2>2 DEF CreateSession
<1>7. CASE EndSessions
  <2>1. submit.cookie \in Sessions
    BY <1>c DEF CallType
  <2>2. submit.kind \notin {"login", "register"}
    BY <1>7 DEF EndSessions
  <2>3. submit' \in {Served(submit, "done"), Served(submit, "failed"),
                     Done(submit, submit.cookie, 0)}
    BY <1>7 DEF EndSessions
  <2>4. CASE submit' \in {Served(submit, "done"), Served(submit, "failed")}
    <3>1. submit'.kind = submit.kind
      BY <1>c, <2>4, ServedTypes DEF CallSteps
    <3> QED
      BY <1>7, <2>2, <3>1 DEF EndSessions
  <2>5. CASE submit' = Done(submit, submit.cookie, 0)
    <3>1. submit'.kind = submit.kind
      BY <1>c, <2>1, <2>5, Zero, DoneTypes
    <3> QED
      BY <1>7, <2>2, <3>1 DEF EndSessions
  <2> QED
    BY <2>3, <2>4, <2>5
<1>8. CASE ArriveSignIn
  <2>1. submit.id \in Sessions /\ submit.user \in Users
    BY <1>c DEF CallType, Users
  <2> QED
    BY <1>c, <1>8, <2>1, LoadedTypes, MeTypes, CallTypes DEF ArriveSignIn
<1>9. CASE ArriveSignOut
  BY <1>9, Zero, LoadedTypes, MeTypes, CallTypes DEF ArriveSignOut, Cleared
<1>10. CASE ArriveElse
  BY <1>10, CallTypes DEF ArriveElse
<1>11. CASE ArriveSave
  BY <1>c, <1>11, MeTypes DEF ArriveSave
<1> QED
  BY <1>1, <1>2, <1>3, <1>4, <1>5, <1>6, <1>7, <1>8, <1>9, <1>10, <1>11
  DEF SignInNext

\* A session that the browser signed out of is never shown as signed in again,
\* whatever answers are still under way.
THEOREM NoReturnOfASession == SignInSpec => []SignedOutStaysOut
<1>1. NoneIsLeft => SignedOutStaysOut
  BY DEF NoneIsLeft, NotLeft, SignedOutStaysOut
<1>2. /\ SignInTypeOK /\ SessionsArePast /\ NoneIsLeft
      /\ SignInTypeOK' /\ [SignInNext]_signInVars
      => SessionsArePast' /\ NoneIsLeft'
  BY PastStep, NoneIsLeftStep
<1> QED
  BY <1>1, <1>2, PastInit, NoneIsLeftInit, SignInTypeCorrect, PTL
  DEF SignInSpec

-----------------------------------------------------------------------------
(* The tokens.                                                             *)

\* While no answer of /me was overtaken: the token that the browser keeps is
\* that of its session, or of none that the server accepts, and an answer under
\* way is about that session, or was asked for before it.
CsrfFits == cookie \in live /\ csrf # 0 => csrf = cookie
MeFits ==
  /\ me.at = "sent" /\ ~me.old => me.cookie = cookie
  /\ me.at = "answered" /\ ~me.old => me.id \in {0, cookie}

CallFits(c) == c.at = "sent" /\ c.cookie \in live => c.token = c.cookie

TokenInv ==
  ~crossed => CsrfFits /\ MeFits /\ CallFits(submit) /\ CallFits(save)

LEMMA TokenInit == SignInInit => TokenInv
  BY Zero, MeTypes, CallTypes
  DEF SignInInit, TokenInv, CsrfFits, MeFits, CallFits

LEMMA TokenStep ==
  ASSUME SignInTypeOK, SessionsArePast, TokenInv, [SignInNext]_signInVars
  PROVE  TokenInv'
<1>c. /\ submit \in CallType(SubmitKinds) /\ save \in CallType(SaveKinds)
      /\ me \in MeType /\ orphan \in MeType
      /\ cookie \in Sessions /\ profileEdits \in Users
  BY DEF SignInTypeOK, Users
<1> USE DEF TokenInv, CsrfFits, MeFits, CallFits
<1>1. CASE FetchSession
  BY <1>1, <1>c, MeTypes DEF FetchSession
<1>2. CASE AnswerMe
  <2>1. CASE me.at = "sent" /\ me' \in Answered(me)
    <3>1. /\ me'.at = "answered" /\ me'.old = me.old
          /\ (me'.id = 0 \/ me'.id = me.cookie)
      BY <1>c, <2>1, AnsweredTypes
    <3> QED
      BY <1>2, <2>1, <3>1 DEF AnswerMe
  <2>2. CASE UNCHANGED me
    BY <1>2, <2>2 DEF AnswerMe
  <2> QED
    BY <1>2, <2>1, <2>2 DEF AnswerMe
<1>3. CASE ArriveMe
  <2>1. ~crossed' => ~crossed /\ ~me.old
    BY <1>3, Zenon DEF ArriveMe
  <2>2. me.at = "answered" /\ csrf' = me.id /\ me' = NoMe
        /\ UNCHANGED <<live, cookie, submit, save>>
    BY <1>3 DEF ArriveMe
  <2> QED
    BY <2>1, <2>2, MeTypes
<1>4. CASE ArriveOrphan
  BY <1>4 DEF ArriveOrphan
<1>5. CASE \/ StartEditing \/ TypeProfileName \/ UNCHANGED signInVars
           \/ \E target \in AuthPages : GoTo(target)
  BY <1>5 DEF StartEditing, TypeProfileName, signInVars, GoTo
<1>6. ASSUME NEW s \in 1..MaxSessions, Expire(s)
      PROVE  TokenInv'
  BY <1>6 DEF Expire
<1>7. ASSUME NEW kind \in SubmitKinds, Submit(kind)
      PROVE  TokenInv'
  BY <1>7, SendTypes DEF Submit, CsrfToken
<1>8. ASSUME NEW kind \in SaveKinds, StartSave(kind)
      PROVE  TokenInv'
  BY <1>8, SendTypes DEF StartSave, CsrfToken
<1>9. CASE CreateSession
  <2>1. CASE created' = created + 1
    <3>1. created' \in Sessions /\ created' \notin Past
      BY <1>9, <2>1, SignInAssumption
      DEF CreateSession, SignInTypeOK, Sessions, Past
    <3>2. live' = live \cup {created'}
          /\ submit' = Done(submit, created', profileEdits)
      BY <1>9, <2>1 DEF CreateSession, SignInTypeOK, Sessions
    <3>3. submit'.at = "done"
      BY <1>c, <3>1, <3>2, DoneTypes
    <3>4. cookie # created' /\ save.cookie # created'
      BY <3>1 DEF SessionsArePast
    <3> QED
      BY <1>9, <3>2, <3>3, <3>4 DEF CreateSession
  <2>2. CASE UNCHANGED live /\ submit' = Served(submit, "failed")
    <3>1. submit'.at = "failed"
      BY <1>c, <2>2, ServedTypes DEF CallSteps
    <3> QED
      BY <1>9, <2>2, <3>1 DEF CreateSession
  <2> QED
    BY <1>9, <2>1, <2>2 DEF CreateSession
<1>10. CASE EndSessions
  <2>1. live' \subseteq live
    BY <1>10 DEF EndSessions
  <2>2. submit'.at # "sent"
    <3>1. submit.cookie \in Sessions
      BY <1>c DEF CallType
    <3>2. CASE submit' \in {Served(submit, "done"), Served(submit, "failed")}
      BY <1>c, <3>2, ServedTypes DEF CallSteps
    <3>3. CASE submit' = Done(submit, submit.cookie, 0)
      BY <1>c, <3>1, <3>3, Zero, DoneTypes
    <3> QED
      BY <1>10, <3>2, <3>3 DEF EndSessions
  <2> QED
    BY <1>10, <2>1, <2>2 DEF EndSessions
<1>11. CASE ServeSave
  <2>1. live' \subseteq live
    BY <1>11 DEF ServeSave, HasSession
  <2>2. save' \in {Served(save, "done"), Served(save, "failed")}
    BY <1>11 DEF ServeSave
  <2>3. save'.at # "sent"
    BY <1>c, <2>2, ServedTypes DEF CallSteps
  <2> QED
    BY <1>11, <2>1, <2>3 DEF ServeSave
<1>12. CASE ArriveSignIn
  <2>1. me'.at # "none" => me'.old
    BY <1>c, <1>12, MeTypes DEF ArriveSignIn
  <2> QED
    BY <1>12, <2>1, CallTypes DEF ArriveSignIn, SignInToken
<1>13. CASE ArriveSignOut
  <2>1. me'.at = "sent" /\ me'.cookie = cookie'
    BY <1>13, Zero, MeTypes DEF ArriveSignOut, Cleared
  <2> QED
    BY <1>13, <2>1, CallTypes DEF ArriveSignOut
<1>14. CASE ArriveElse
  BY <1>14, CallTypes DEF ArriveElse
<1>15. CASE ArriveSave
  BY <1>c, <1>15, MeTypes, CallTypes DEF ArriveSave
<1> QED
  BY <1>1, <1>2, <1>3, <1>4, <1>5, <1>6, <1>7, <1>8, <1>9, <1>10, <1>11,
     <1>12, <1>13, <1>14, <1>15 DEF SignInNext

\* Unless an answer of /me was overtaken by a sign-in or a sign-out, no request
\* carries a token that the server refuses for the session it accepts.
THEOREM NoTokenIsRefused == SignInSpec => []TokensFit
<1>1. TokenInv => TokensFit
  BY DEF TokenInv, CallFits, TokensFit, HasSession, TokenFits
<1>2. /\ SignInTypeOK /\ SessionsArePast /\ TokenInv
      /\ SignInTypeOK' /\ [SignInNext]_signInVars
      => SessionsArePast' /\ TokenInv'
  BY PastStep, TokenStep
<1> QED
  BY <1>1, <1>2, PastInit, TokenInit, SignInTypeCorrect, PTL DEF SignInSpec

-----------------------------------------------------------------------------
(* What is typed on the page Profile.                                      *)

TypedOnProfile == profileDraft.typed => authPage = "profile"

LEMMA TypedStep ==
  ASSUME SignInTypeOK, TypedOnProfile, [SignInNext]_signInVars
  PROVE  /\ TypedOnProfile'
         /\ \/ UNCHANGED signInVars
            \/ profileDraft.typed => profileDraft'.typed
            \/ authPage' # authPage
            \/ ~(SignedIn(session) /\ SignedIn(session'))
            \/ session'.user # session.user
<1>0. profileDraft \in [editing : BOOLEAN, typed : BOOLEAN]
  BY DEF SignInTypeOK
<1>1. ~NoDraft.typed
  BY DEF NoDraft
<1> USE DEF TypedOnProfile
<1>2. CASE \/ FetchSession \/ AnswerMe \/ ArriveOrphan
           \/ CreateSession \/ EndSessions \/ ServeSave
           \/ \E kind \in SubmitKinds : Submit(kind)
           \/ \E kind \in SaveKinds : StartSave(kind)
           \/ \E s \in 1..MaxSessions : Expire(s)
           \/ UNCHANGED signInVars
  BY <1>2 DEF FetchSession, AnswerMe, ArriveOrphan, CreateSession, EndSessions,
              ServeSave, Submit, StartSave, Expire, signInVars
<1>3. CASE ArriveMe
  <2>1. ASSUME NEW s
        PROVE  /\ Refilled(s).typed => profileDraft.typed
               /\ \/ Refilled(s) = profileDraft
                  \/ ~(SignedIn(session) /\ SignedIn(s))
                  \/ s.user # session.user
    BY <1>0 DEF Refilled
  <2> QED
    BY <1>1, <1>3, <2>1 DEF ArriveMe
<1>4. ASSUME NEW target \in AuthPages, GoTo(target)
      PROVE  TypedOnProfile' /\ authPage' # authPage
  BY <1>1, <1>4 DEF GoTo
<1>5. CASE StartEditing \/ TypeProfileName \/ ArriveSave
  BY <1>0, <1>5 DEF StartEditing, TypeProfileName, ArriveSave
<1>6. CASE ArriveSignIn
  BY <1>1, <1>6 DEF ArriveSignIn
<1>7. CASE ArriveSignOut
  BY <1>1, <1>7 DEF ArriveSignOut
<1>8. CASE ArriveElse
  BY <1>1, <1>8 DEF ArriveElse
<1> QED
  BY <1>2, <1>3, <1>4, <1>5, <1>6, <1>7, <1>8 DEF SignInNext

\* No answer that finds the same user clears what is typed on the page Profile.
THEOREM RefetchesKeepTheForm == SignInSpec => TypedNameStays
<1>1. SignInInit => TypedOnProfile
  BY DEF SignInInit, NoDraft, TypedOnProfile
<1>2. SignInTypeOK /\ TypedOnProfile /\ [SignInNext]_signInVars
      => TypedOnProfile'
  BY TypedStep
<1>3. SignInTypeOK /\ TypedOnProfile /\ [SignInNext]_signInVars
      => [(/\ profileDraft.typed /\ ~profileDraft'.typed
           /\ authPage' = authPage /\ SignedIn(session) /\ SignedIn(session'))
          => session'.user # session.user]_signInVars
  BY TypedStep
<1> QED
  BY <1>1, <1>2, <1>3, SignInTypeCorrect, PTL DEF SignInSpec, TypedNameStays

-----------------------------------------------------------------------------
(* QueryCache: what a page shows.                                          *)

\* What an answer may have missed for good, or until the mutation that runs
\* has invalidated it.
Excused(h) ==
  \/ h = Worker \/ joined \/ Known(h, query)
  \/ mutation.state = "done" /\ mutation.hook = h /\ Changed(h, query)

\* A request that is not under way has read nothing, and neither has one that
\* is not served.  An answer that has missed more is invalid.
Freshness ==
  /\ request.read => request.on
  /\ ~request.read => request.missed = {}
  /\ mutation.state # "none" => mutation.hook \in Pages[page].hooks
  /\ \A h \in answer.missed : invalid \/ Excused(h)
  /\ \A h \in request.missed : Excused(h)

CacheInv == CacheTypeOK /\ Freshness

LEMMA CacheTypes ==
  /\ NoRequest \in [on : BOOLEAN, read : BOOLEAN, missed : SUBSET ChangeType]
  /\ NewRequest \in [on : BOOLEAN, read : BOOLEAN, missed : SUBSET ChangeType]
  /\ ~NoRequest.read /\ NoRequest.missed = {}
  /\ ~NewRequest.read /\ NewRequest.missed = {} /\ NewRequest.on
  /\ NoMutation \in [hook : DOMAIN Hooks \cup {"none"},
                     state : {"none", "open", "done"}, missed : SUBSET {Worker}]
  /\ NoMutation.state = "none"
  BY DEF NoRequest, NewRequest, NoMutation

LEMMA CacheInitHolds == CacheInit => CacheInv
<1> SUFFICES ASSUME CacheInit PROVE CacheInv
  OBVIOUS
<1>1. CacheTypeOK
  <2>1. NoData \in [loaded : BOOLEAN, missed : SUBSET ChangeType]
    BY DEF NoData
  <2>2. 0 \in 0..MaxChanges
    BY CacheAssumption
  <2> QED
    BY <2>1, <2>2, CacheTypes DEF CacheInit, CacheTypeOK
<1>2. Freshness
  BY CacheTypes DEF CacheInit, Freshness, NoData
<1> QED
  BY <1>1, <1>2 DEF CacheInv

\* A change at the server makes what was read before miss it.
LEMMA ChangeIsMissed ==
  ASSUME CacheInv, NEW by \in ChangeType, ServerChanges(by)
  PROVE  /\ answer' \in [loaded : BOOLEAN, missed : SUBSET ChangeType]
         /\ request' \in [on : BOOLEAN, read : BOOLEAN,
                          missed : SUBSET ChangeType]
         /\ answer'.missed \subseteq answer.missed \cup {by}
         /\ request'.missed \subseteq request.missed \cup {by}
         /\ request'.on = request.on /\ request'.read = request.read
         /\ ~request.read => request'.missed = request.missed
<1>1. /\ answer \in [loaded : BOOLEAN, missed : SUBSET ChangeType]
      /\ request \in [on : BOOLEAN, read : BOOLEAN, missed : SUBSET ChangeType]
  BY DEF CacheInv, CacheTypeOK
<1>2. /\ answer' = answer \/ answer' = [answer EXCEPT !.missed = @ \cup {by}]
      /\ \/ request' = request
         \/ /\ request.read
            /\ request' = [request EXCEPT !.missed = @ \cup {by}]
  BY DEF ServerChanges
<1>3. /\ answer' \in [loaded : BOOLEAN, missed : SUBSET ChangeType]
      /\ answer'.missed \subseteq answer.missed \cup {by}
  BY <1>1, <1>2
<1>4. /\ request' \in [on : BOOLEAN, read : BOOLEAN,
                       missed : SUBSET ChangeType]
      /\ request'.missed \subseteq request.missed \cup {by}
      /\ request'.on = request.on /\ request'.read = request.read
      /\ ~request.read => request'.missed = request.missed
  BY <1>1, <1>2
<1> QED
  BY <1>3, <1>4

LEMMA WorkerChangesKeeps == CacheInv /\ WorkerChanges => CacheInv'
<1> SUFFICES ASSUME CacheInv, WorkerChanges PROVE CacheInv'
  OBVIOUS
<1>1. Worker \in ChangeType
  BY DEF ChangeType
<1>2. ServerChanges(Worker) /\ changes' \in 0..MaxChanges
  BY CacheAssumption DEF WorkerChanges, CacheInv, CacheTypeOK
<1>3. /\ mutation' \in [hook : DOMAIN Hooks \cup {"none"},
                        state : {"none", "open", "done"},
                        missed : SUBSET {Worker}]
      /\ mutation'.hook = mutation.hook /\ mutation'.state = mutation.state
      /\ UNCHANGED <<query, page, shown, invalid, joined>>
  BY DEF WorkerChanges, CacheInv, CacheTypeOK
<1>4. CacheTypeOK'
  BY <1>1, <1>2, <1>3, ChangeIsMissed DEF CacheInv, CacheTypeOK
<1>5. \A h : Excused(h) => Excused(h)'
  BY <1>3 DEF Excused
<1>6. Excused(Worker)'
  BY DEF Excused
<1>7. Freshness'
  BY <1>1, <1>2, <1>3, <1>5, <1>6, ChangeIsMissed DEF CacheInv, Freshness
<1> QED
  BY <1>4, <1>7 DEF CacheInv

LEMMA ServeKeeps == CacheInv /\ Serve => CacheInv'
<1> SUFFICES ASSUME CacheInv, Serve PROVE CacheInv'
  OBVIOUS
<1> DEFINE h == mutation.hook
<1>1. /\ mutation.state = "open"
      /\ UNCHANGED <<query, page, shown, invalid, joined, changes>>
  BY DEF Serve
<1>2. h \in Pages[page].hooks /\ h \in ChangeType
  BY <1>1, HooksAssumption DEF CacheInv, CacheTypeOK, Freshness, ChangeType
<1>3. /\ mutation' \in [hook : DOMAIN Hooks \cup {"none"},
                        state : {"none", "open", "done"},
                        missed : SUBSET {Worker}]
      /\ mutation'.hook = h /\ mutation'.state = "done"
  BY DEF Serve, CacheInv, CacheTypeOK
<1>4. \A x : Excused(x) => Excused(x)'
  BY <1>1, <1>3 DEF Excused
<1>5. CASE Changed(h, query)
  <2>1. ServerChanges(h)
    BY <1>5 DEF Serve
  <2>2. Excused(h)'
    BY <1>1, <1>3, <1>5 DEF Excused
  <2>3. CacheTypeOK'
    BY <1>1, <1>2, <1>3, <2>1, ChangeIsMissed DEF CacheInv, CacheTypeOK
  <2>4. Freshness'
    BY <1>1, <1>2, <1>3, <1>4, <2>1, <2>2, ChangeIsMissed
    DEF CacheInv, Freshness
  <2> QED
    BY <2>3, <2>4 DEF CacheInv
<1>6. CASE ~Changed(h, query)
  <2>1. UNCHANGED <<answer, request>>
    BY <1>6 DEF Serve
  <2>2. CacheTypeOK'
    BY <1>1, <1>3, <2>1 DEF CacheInv, CacheTypeOK
  <2>3. Freshness'
    BY <1>1, <1>2, <1>3, <1>4, <2>1 DEF CacheInv, Freshness
  <2> QED
    BY <2>2, <2>3 DEF CacheInv
<1> QED
  BY <1>5, <1>6

\* Every document's mutation that sets the document was served before.
LEMMA SucceededKeeps == CacheInv /\ Succeeded => CacheInv'
<1> SUFFICES ASSUME CacheInv, Succeeded PROVE CacheInv'
  OBVIOUS
<1> DEFINE h == mutation.hook
           set == SetsDocument(h, query)
           loaded == answer.loaded \/ set
<1>1. /\ mutation.state = "done" /\ mutation' = NoMutation
      /\ UNCHANGED <<query, page, shown, changes>>
      /\ answer' = IF set THEN [loaded |-> TRUE, missed |-> mutation.missed]
                   ELSE answer
      /\ Invalidated(h, query) =>
           /\ invalid' = TRUE
           /\ request' = IF Refetches(loaded) THEN NewRequest ELSE request
           /\ joined' = (joined \/ (request.on /\ ~(shown /\ loaded)))
      /\ ~Invalidated(h, query) => UNCHANGED <<invalid, request, joined>>
  BY DEF Succeeded
<1>2. h \in Pages[page].hooks /\ mutation.missed \subseteq {Worker}
      /\ page \in DOMAIN Pages /\ query \in Pages[page].queries
  BY <1>1 DEF CacheInv, CacheTypeOK, Freshness
<1>3. Changed(h, query) => Known(h, query) \/ Invalidated(h, query)
  BY <1>2, HooksAssumption
<1> HIDE DEF set, loaded
<1>4. request' = request \/ request' = NewRequest
  BY <1>1
<1>5. CacheTypeOK'
  <2>1. /\ request' \in [on : BOOLEAN, read : BOOLEAN, missed : SUBSET ChangeType]
        /\ invalid' \in BOOLEAN /\ joined' \in BOOLEAN
    BY <1>1, <1>4, CacheTypes DEF CacheInv, CacheTypeOK, loaded
  <2>2. mutation' \in [hook : DOMAIN Hooks \cup {"none"},
                      state : {"none", "open", "done"}, missed : SUBSET {Worker}]
    BY <1>1, CacheTypes
  <2>3. answer' \in [loaded : BOOLEAN, missed : SUBSET ChangeType]
    BY <1>1, <1>2 DEF CacheInv, CacheTypeOK, ChangeType
  <2> QED
    BY <1>1, <2>1, <2>2, <2>3 DEF CacheInv, CacheTypeOK
<1>6. ASSUME NEW x, Excused(x)
      PROVE  Excused(x)' \/ Invalidated(h, query)
  BY <1>1, <1>3, <1>6 DEF Excused
<1>7. \A x \in answer'.missed : invalid' \/ Excused(x)'
  <2>1. CASE Invalidated(h, query)
    BY <1>1, <2>1
  <2>2. CASE ~Invalidated(h, query) /\ set
    BY <1>1, <1>2, <2>2 DEF Excused
  <2>3. CASE ~Invalidated(h, query) /\ ~set
    BY <1>1, <1>6, <2>3 DEF CacheInv, Freshness
  <2> QED
    BY <2>1, <2>2, <2>3
<1>8. \A x \in request'.missed : Excused(x)'
  <2>1. CASE ~Invalidated(h, query)
    BY <1>1, <1>6, <2>1 DEF CacheInv, Freshness
  <2>2. CASE request' = NewRequest
    BY <2>2, CacheTypes
  <2>3. CASE Invalidated(h, query) /\ request' = request /\ request.on
    <3>1. joined' \/ request' = NewRequest
      BY <1>1, <2>3 DEF Refetches
    <3> QED
      BY <3>1, CacheTypes DEF Excused
  <2>4. CASE request' = request /\ ~request.on
    BY <2>4 DEF CacheInv, Freshness
  <2> QED
    BY <1>4, <2>1, <2>2, <2>3, <2>4 DEF CacheInv, CacheTypeOK
<1>9. Freshness'
  BY <1>1, <1>4, <1>7, <1>8, CacheTypes DEF CacheInv, Freshness
<1> QED
  BY <1>5, <1>9 DEF CacheInv

\* Steps of the query, which leave the server and the mutation alone.
LEMMA RequestsKeep ==
  ASSUME CacheInv,
         UNCHANGED <<query, page, answer, invalid, mutation, joined, changes>>,
         shown' \in BOOLEAN,
         \/ request' = request \/ request' = NewRequest \/ request' = NoRequest
         \/ request' = [request EXCEPT !.read = TRUE] /\ request.on
  PROVE  CacheInv'
<1>1. /\ request' \in [on : BOOLEAN, read : BOOLEAN, missed : SUBSET ChangeType]
      /\ request'.missed \subseteq request.missed
      /\ request'.read => request'.on
      /\ ~request'.read => request'.missed = {}
  BY CacheTypes DEF CacheInv, CacheTypeOK, Freshness
<1>2. CacheTypeOK'
  BY <1>1 DEF CacheInv, CacheTypeOK
<1>3. \A x : Excused(x)' <=> Excused(x)
  BY DEF Excused
<1>4. Freshness'
  BY <1>1, <1>3 DEF CacheInv, Freshness
<1> QED
  BY <1>2, <1>4 DEF CacheInv

LEMMA ReturnKeeps == CacheInv /\ Return => CacheInv'
<1> SUFFICES ASSUME CacheInv, Return PROVE CacheInv'
  OBVIOUS
<1>1. /\ answer' = [loaded |-> TRUE, missed |-> request.missed]
      /\ invalid' = FALSE /\ request' = NoRequest
      /\ UNCHANGED <<query, page, shown, mutation, joined, changes>>
  BY DEF Return
<1>2. CacheTypeOK'
  BY <1>1, CacheTypes DEF CacheInv, CacheTypeOK
<1>3. \A x : Excused(x)' <=> Excused(x)
  BY <1>1 DEF Excused
<1>4. Freshness'
  BY <1>1, <1>3, CacheTypes DEF CacheInv, Freshness
<1> QED
  BY <1>2, <1>4 DEF CacheInv

LEMMA MutateKeeps ==
  ASSUME CacheInv,
         \/ Refused \/ \E h \in Pages[page].hooks : Mutate(h)
  PROVE  CacheInv'
<1>1. UNCHANGED <<query, page, shown, answer, invalid, request, joined>>
  BY DEF Refused, Mutate
<1>2. mutation.state \in {"none", "open"}
  BY CacheTypes DEF Refused, Mutate
<1>3. changes' \in 0..MaxChanges
  <2>1. changes' = changes \/ (changes' = changes + 1 /\ changes < MaxChanges)
    BY DEF Refused, Mutate
  <2>2. changes \in 0..MaxChanges
    BY DEF CacheInv, CacheTypeOK
  <2> QED
    BY <2>1, <2>2, CacheAssumption
<1>4. /\ mutation' \in [hook : DOMAIN Hooks \cup {"none"},
                        state : {"none", "open", "done"},
                        missed : SUBSET {Worker}]
      /\ mutation'.state # "none" => mutation'.hook \in Pages[page].hooks
  <2>1. CASE Refused
    BY <2>1, CacheTypes DEF Refused
  <2>2. ASSUME NEW h \in Pages[page].hooks, Mutate(h)
        PROVE  /\ mutation' \in [hook : DOMAIN Hooks \cup {"none"},
                        state : {"none", "open", "done"},
                        missed : SUBSET {Worker}]
               /\ mutation'.hook = h
    <3>1. h \in DOMAIN Hooks
      BY HooksAssumption DEF CacheInv, CacheTypeOK
    <3> QED
      BY <2>2, <3>1 DEF Mutate, NoMutation
  <2> QED
    BY <2>1, <2>2
<1>5. CacheTypeOK'
  BY <1>1, <1>3, <1>4 DEF CacheInv, CacheTypeOK
<1>6. \A x : Excused(x) => Excused(x)'
  BY <1>1, <1>2 DEF Excused
<1>7. Freshness'
  BY <1>1, <1>4, <1>6 DEF CacheInv, Freshness
<1> QED
  BY <1>5, <1>7 DEF CacheInv

LEMMA CacheInvKept == CacheInv /\ [CacheNext]_cacheVars => CacheInv'
<1> SUFFICES ASSUME CacheInv, [CacheNext]_cacheVars PROVE CacheInv'
  OBVIOUS
<1>1. CASE \/ Mount \/ Unmount \/ Refocus \/ PollQuery \/ Read \/ FetchFails
  <2>1. /\ UNCHANGED <<query, page, answer, invalid, mutation, joined, changes>>
        /\ shown' \in BOOLEAN
    BY <1>1 DEF Mount, Unmount, Refocus, PollQuery, Fetch, Read, FetchFails,
                CacheInv, CacheTypeOK
  <2>2. \/ request' = request \/ request' = NewRequest \/ request' = NoRequest
        \/ request' = [request EXCEPT !.read = TRUE] /\ request.on
    BY <1>1 DEF Mount, Unmount, Refocus, PollQuery, Fetch, Read, FetchFails
  <2> QED
    BY <2>1, <2>2, RequestsKeep
<1>2. CASE UNCHANGED cacheVars
  <2>1. UNCHANGED <<query, page, answer, invalid, mutation, joined, changes>>
        /\ shown' = shown /\ request' = request
    BY <1>2 DEF cacheVars
  <2> QED
    BY <2>1, RequestsKeep DEF CacheInv, CacheTypeOK
<1> QED
  BY <1>1, <1>2, WorkerChangesKeeps, ServeKeeps, SucceededKeeps, ReturnKeeps,
     MutateKeeps DEF CacheNext

\* Every reachable state of a query, its page and its mutations is type
\* correct, for any number of changes.
THEOREM CacheTypeCorrect == CacheSpec => []CacheTypeOK
<1>1. CacheInv => CacheTypeOK
  BY DEF CacheInv
<1> QED
  BY <1>1, CacheInitHolds, CacheInvKept, PTL DEF CacheSpec

\* A page comes to show what its user has done (onSuccess of the hooks, with
\* invalidateQueries and setQueryData): no answer that was on its way during a
\* mutation brings back what was before it.
THEOREM UsersSeeWhatTheyDid == CacheSpec => []OwnChangesAreShown
<1>1. CacheInv => OwnChangesAreShown
  <2> SUFFICES ASSUME CacheInv, mutation = NoMutation, ~joined, ~invalid,
                      NEW h \in answer.missed, h # Worker
               PROVE  Known(h, query)
    BY DEF OwnChangesAreShown
  <2>1. Excused(h)
    BY DEF CacheInv, Freshness
  <2> QED
    BY <2>1, CacheTypes DEF Excused
<1> QED
  BY <1>1, CacheInitHolds, CacheInvKept, PTL DEF CacheSpec
-----------------------------------------------------------------------------
(* The three modules in one instance, as it is checked.                    *)

\* In a run that follows one of them while the others rest, every variable of all
\* three keeps its type.
THEOREM AccountsTypeCorrect == WebSpec => []AccountsTypeOK
<1>1. WebInit => CacheInit /\ UserAdminInit /\ SignInInit
  BY DEF WebInit
<1>2. [WebNext]_webVars => [CacheNext]_cacheVars
  BY DEF WebNext, webVars
<1>3. [WebNext]_webVars => [UserAdminNext]_userVars
  BY DEF WebNext, webVars
<1>4. [WebNext]_webVars => [SignInNext]_signInVars
  BY DEF WebNext, webVars
<1>5. WebSpec => CacheSpec /\ UserAdminSpec /\ SignInSpec
  BY <1>1, <1>2, <1>3, <1>4, PTL
  DEF WebSpec, CacheSpec, UserAdminSpec, SignInSpec
<1> QED
  BY <1>5, CacheTypeCorrect, UserAdminTypeCorrect, SignInTypeCorrect, PTL
  DEF AccountsTypeOK
=============================================================================
