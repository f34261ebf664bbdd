\* The query cache, the administration of users and the session of a browser,
\* each on its own small instance.
SPECIFICATION WebSpec
CONSTANTS
  \* Every query of every page, two changes.
  MaxChanges = 2
  \* Two administrators, of each other.
  a1 = a1
  a2 = a2
  Accounts = {a1, a2}
  Admins = {a1, a2}
  MaxCalls = 2
  MaxResets = 1
  \* Two sessions of one browser, whose profile changes once.
  MaxSessions = 2
  MaxProfileEdits = 1
SYMMETRY AdminSymmetry
\* Users may stop at any time.
CHECK_DEADLOCK FALSE
INVARIANTS
  AccountsTypeOK
  OwnChangesAreShown
  AnAdminRemains
  SignedOutStaysOut
  TokensFit
PROPERTIES
  SettledResetStays
