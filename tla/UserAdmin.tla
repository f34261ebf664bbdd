------------------------------ MODULE UserAdmin ------------------------------
(***************************************************************************)
(* The page Users of the settings (components/settings/UsersSettings.tsx)  *)
(* in the browsers of several administrators at once, and the service that *)
(* it changes accounts by (services/users.py).                             *)
(*                                                                         *)
(* Each browser shows rows of its last load.  A dialog keeps the row it    *)
(* was opened for; what it asks is confirmed, checked by the server and    *)
(* written in one transaction, which reads first and commits later: two    *)
(* transactions may overlap.                                               *)
(***************************************************************************)
EXTENDS Naturals, FiniteSets

CONSTANTS
  Accounts,   \* the accounts of the deployment
  Admins,     \* those that are administrators, each with a browser
  MaxCalls,   \* bound: how many requests the administrators make
  MaxResets   \* bound: how often a password reset is asked for

ASSUME UserAdminAssumption ==
  /\ IsFiniteSet(Accounts) /\ Admins \subseteq Accounts /\ Admins # {}
  /\ MaxCalls \in Nat /\ MaxResets \in Nat

VARIABLES
  account,     \* the accounts of the server
  resets,      \* a request for a password reset, per account
  asked,       \* how often one was asked for
  userRows,    \* per browser: useAdminUsers and usePasswordResetRequests
  userDialog,  \* per browser: confirm, and what was typed into it
  userCall,    \* per browser: the request of runConfirm
  calls,       \* how many requests so far
  overlapped   \* history: two transactions have overlapped

userVars == <<account, resets, asked, userRows, userDialog, userCall, calls,
              overlapped>>

-----------------------------------------------------------------------------
(* Rows, dialogs and requests.                                             *)

AccountType == [exists : BOOLEAN, admin : BOOLEAN, active : BOOLEAN]
ResetStates == {"none", "pending", "approved", "rejected"}
NewAccount == [exists |-> TRUE, admin |-> FALSE, active |-> TRUE]

\* The types of ConfirmAction, and what they ask of the account: an absolute
\* value and not the opposite of what there is.
RoleTypes == {"make_admin", "remove_admin"}
ActiveTypes == {"activate", "deactivate"}
ResetTypes == {"approve_reset", "reject_reset"}
ConfirmTypes ==
  RoleTypes \cup ActiveTypes \cup ResetTypes \cup {"delete", "set_password"}

NoDialog == [type |-> "none", user |-> "none", typed |-> "none"]
Dialog(type, u) == [type |-> type, user |-> u, typed |-> "none"]

NoCall == [type |-> "none", user |-> "none", step |-> "none", admins |-> 0]
NewCall(type, u) == [type |-> type, user |-> u, step |-> "sent", admins |-> 0]

Busy(b) == userCall[b] # NoCall

\* The page of b is open and signed in; b's own row has no buttons.
PageOpen(b) == userRows[b] # <<>>
Row(b, u) == userRows[b].users[u]
RowOffered(b, u) == PageOpen(b) /\ u # b /\ Row(b, u).exists

RoleOffered(b, type, u) ==
  RowOffered(b, u) /\ (type = "make_admin") = ~Row(b, u).admin
ActiveOffered(b, type, u) ==
  RowOffered(b, u) /\ (type = "activate") = ~Row(b, u).active
ResetOffered(b, u) == PageOpen(b) /\ userRows[b].resets[u] = "pending"

DialogOffered(b, type, u) ==
  CASE type \in RoleTypes -> RoleOffered(b, type, u)
    [] type \in ActiveTypes -> ActiveOffered(b, type, u)
    [] type \in ResetTypes -> ResetOffered(b, u)
    [] OTHER -> RowOffered(b, u)

\* The button of the dialog: not while a request runs, and only for a password
\* that is long enough (one that is too short is as good as none).
ConfirmOffered(b) ==
  /\ userDialog[b] # NoDialog /\ ~Busy(b)
  /\ userDialog[b].type = "set_password" =>
       userDialog[b].typed \in {"mismatch", "good"}

-----------------------------------------------------------------------------
(* The page.                                                               *)

\* The page is opened, polled or fetched anew.
LoadUsers(b) ==
  /\ account[b].exists /\ account[b].active /\ account[b].admin
  /\ userRows' = [userRows EXCEPT ![b] = [users |-> account, resets |-> resets]]
  /\ UNCHANGED <<account, resets, asked, userDialog, userCall, calls,
                 overlapped>>

OpenDialog(b, type, u) ==
  /\ userDialog[b] = NoDialog
  /\ DialogOffered(b, type, u)
  /\ userDialog' = [userDialog EXCEPT ![b] = Dialog(type, u)]
  /\ UNCHANGED <<account, resets, asked, userRows, userCall, calls,
                 overlapped>>

TypePassword(b) ==
  /\ userDialog[b].type = "set_password" /\ userDialog[b].typed = "none"
  /\ \E t \in {"mismatch", "good"} :
       userDialog' = [userDialog EXCEPT ![b].typed = t]
  /\ UNCHANGED <<account, resets, asked, userRows, userCall, calls,
                 overlapped>>

\* Cancel is disabled while a request runs, Escape is not.
CloseDialog(b) ==
  /\ userDialog[b] # NoDialog
  /\ userDialog' = [userDialog EXCEPT ![b] = NoDialog]
  /\ UNCHANGED <<account, resets, asked, userRows, userCall, calls,
                 overlapped>>

\* The checks of runConfirm.
PasswordFits(d) == d.type = "set_password" => d.typed = "good"

RunConfirm(b) ==
  LET d == userDialog[b]
  IN  /\ ConfirmOffered(b) /\ PasswordFits(d)
      /\ calls < MaxCalls
      /\ calls' = calls + 1
      /\ userCall' = [userCall EXCEPT ![b] = NewCall(d.type, d.user)]
      /\ UNCHANGED <<account, resets, asked, userRows, userDialog, overlapped>>

-----------------------------------------------------------------------------
(* The server: authentication and reads, then the checks and writes.       *)

ActiveAdmins == {u \in Accounts : account[u].exists /\ account[u].admin
                                  /\ account[u].active}
AllAdmins == {u \in Accounts : account[u].exists /\ account[u].admin}

\* Mutant: a page that was opened as an administrator is enough.
AuthorisedOnce(b) == account[b].exists

\* The dependency AdminUser.
Authorised(b) == b \in ActiveAdmins

InTransaction == {b \in Admins : userCall[b].step = "read"}

BeginCall(b) ==
  LET c == userCall[b]
      counted == IF c.type = "delete" THEN AllAdmins ELSE ActiveAdmins
  IN  /\ c.step = "sent"
      /\ IF Authorised(b)
         THEN /\ userCall' = [userCall EXCEPT ![b].step = "read",
                                ![b].admins = Cardinality(counted)]
              /\ overlapped' = (overlapped \/ InTransaction # {})
         ELSE /\ userCall' = [userCall EXCEPT ![b].step = "failed"]
              /\ UNCHANGED overlapped
      /\ UNCHANGED <<account, resets, asked, userRows, userDialog, calls>>

\* What admin_update_user, delete_user and admin_set_password refuse.
ChangeAllowed(c, b) ==
  /\ account[c.user].exists
  /\ c.type = "remove_admin" /\ account[c.user].admin =>
       c.admins > 1 /\ c.user # b
  /\ c.type = "deactivate" => c.user # b
  /\ c.type = "delete" => c.user # b /\ (account[c.user].admin => c.admins > 1)

\* Mutant: a request that was settled is settled once more.
ResetKnown(c) == resets[c.user] # "none"

\* What approve_password_reset and reject_password_reset refuse.
ResetAllowed(c) == resets[c.user] = "pending"

CallAllowed(c, b) ==
  IF c.type \in ResetTypes THEN ResetAllowed(c) ELSE ChangeAllowed(c, b)

\* Mutant: what is left of it is no account.
DeletedRow == [exists |-> FALSE]

Deleted == [NewAccount EXCEPT !.exists = FALSE]

Applied(c, a) ==
  CASE c.type \in RoleTypes -> [a EXCEPT !.admin = c.type = "make_admin"]
    [] c.type \in ActiveTypes -> [a EXCEPT !.active = c.type = "activate"]
    [] c.type = "delete" -> Deleted
    [] OTHER -> a

ResetAfter(c, r) ==
  CASE c.type = "approve_reset" -> "approved"
    [] c.type = "reject_reset" -> "rejected"
    [] c.type = "delete" -> "none"
    [] OTHER -> r

CommitCall(b) ==
  LET c == userCall[b]
  IN  /\ c.step = "read"
      /\ IF CallAllowed(c, b)
         THEN /\ account' = [account EXCEPT ![c.user] = Applied(c, @)]
              /\ resets' = [resets EXCEPT ![c.user] = ResetAfter(c, @)]
              /\ userCall' = [userCall EXCEPT ![b].step = "done"]
         ELSE /\ userCall' = [userCall EXCEPT ![b].step = "failed"]
              /\ UNCHANGED <<account, resets>>
      /\ UNCHANGED <<asked, userRows, userDialog, calls, overlapped>>

\* The end of runConfirm: whatever dialog is open by then is closed, or stays
\* with the error.  What was typed is cleared once a password is set.
SettleCall(b) ==
  LET c == userCall[b]
  IN  /\ c.step \in {"done", "failed"}
      /\ userCall' = [userCall EXCEPT ![b] = NoCall]
      /\ userDialog' = IF c.step = "done"
                       THEN [userDialog EXCEPT ![b] = NoDialog] ELSE userDialog
      /\ userRows' = IF c.step = "done" /\ PageOpen(b)
                     THEN [userRows EXCEPT ![b] = [users |-> account,
                                                   resets |-> resets]]
                     ELSE userRows
      /\ UNCHANGED <<account, resets, asked, calls, overlapped>>

\* request_password_reset, from the page of someone who forgot the password.
RequestReset(u) ==
  /\ account[u].exists /\ account[u].active
  /\ resets[u] # "pending" /\ asked < MaxResets
  /\ asked' = asked + 1
  /\ resets' = [resets EXCEPT ![u] = "pending"]
  /\ UNCHANGED <<account, userRows, userDialog, userCall, calls, overlapped>>

-----------------------------------------------------------------------------
UserAdminInit ==
  /\ account = [u \in Accounts |-> [NewAccount EXCEPT !.admin = u \in Admins]]
  /\ resets = [u \in Accounts |-> "none"] /\ asked = 0
  /\ userRows = [b \in Admins |-> <<>>]
  /\ userDialog = [b \in Admins |-> NoDialog]
  /\ userCall = [b \in Admins |-> NoCall] /\ calls = 0
  /\ overlapped = FALSE

UserAdminNext ==
  \/ \E b \in Admins :
       \/ LoadUsers(b) \/ TypePassword(b) \/ CloseDialog(b) \/ RunConfirm(b)
       \/ \E type \in ConfirmTypes, u \in Accounts : OpenDialog(b, type, u)
       \/ BeginCall(b) \/ CommitCall(b) \/ SettleCall(b)
  \/ \E u \in Accounts : RequestReset(u)

UserAdminSpec == UserAdminInit /\ [][UserAdminNext]_userVars

-----------------------------------------------------------------------------
(* Properties.                                                             *)

UserTarget == Accounts \cup {"none"}

\* Every variable keeps its type.
UserAdminTypeOK ==
  /\ account \in [Accounts -> AccountType]
  /\ resets \in [Accounts -> ResetStates] /\ asked \in 0..MaxResets
  /\ userRows \in [Admins -> {<<>>} \cup
                              [users : [Accounts -> AccountType],
                               resets : [Accounts -> ResetStates]]]
  /\ userDialog \in
       [Admins -> [type : ConfirmTypes \cup {"none"}, user : UserTarget,
                   typed : {"none", "mismatch", "good"}]]
  /\ userCall \in
       [Admins -> [type : ConfirmTypes \cup {"none"}, user : UserTarget,
                   step : {"none", "sent", "read", "done", "failed"},
                   admins : Nat]]
  /\ calls \in 0..MaxCalls /\ overlapped \in BOOLEAN

\* Whatever old rows and open dialogs the administrators go by, somebody who
\* can administrate is left, as long as their transactions do not overlap.
AnAdminRemains == ~overlapped => ActiveAdmins # {}

\* A reset that one administrator has rejected is not approved by the dialog of
\* another, nor the other way round: it takes a new request.
SettledResetStays ==
  [][~overlapped /\ ~overlapped' =>
       \A u \in Accounts :
         resets[u] \in {"approved", "rejected"} =>
           resets'[u] \in {resets[u], "pending", "none"}]_userVars
=============================================================================
