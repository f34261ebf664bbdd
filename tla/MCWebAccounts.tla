---------------------------- MODULE MCWebAccounts ----------------------------
(* Accounts, sessions and the query cache of the web client, each on a     *)
(* small instance.                                                         *)
(* They share only the query cache, which QueryCache models: TLC follows   *)
(* one of them at a time and leaves the others as they are at the start.   *)
EXTENDS QueryCache, UserAdmin, SignIn

CONSTANTS a1, a2

VARIABLE followed   \* the module whose page is used

AdminSymmetry == Permutations(Accounts)

webVars ==
  <<followed, cacheVars, userVars, signInVars>>

WebInit ==
  /\ followed \in {"QueryCache", "UserAdmin", "SignIn"}
  /\ CacheInit
  /\ (followed = "QueryCache" \/ (page = "profile" /\ query = "usage"))
  /\ UserAdminInit
  /\ SignInInit /\ (followed = "SignIn" \/ authPage = "documents")

WebNext ==
  \/ /\ followed = "QueryCache" /\ CacheNext
     /\ UNCHANGED <<followed, userVars, signInVars>>
  \/ /\ followed = "UserAdmin" /\ UserAdminNext
     /\ UNCHANGED <<followed, cacheVars, signInVars>>
  \/ /\ followed = "SignIn" /\ SignInNext
     /\ UNCHANGED <<followed, cacheVars, userVars>>

WebSpec == WebInit /\ [][WebNext]_webVars

\* The type invariants of the three modules.
AccountsTypeOK == CacheTypeOK /\ UserAdminTypeOK /\ SignInTypeOK
=============================================================================
