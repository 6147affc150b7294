\* Two data sources of one account, each with a record of the login, and a restart.
CONSTANTS
  Calls = {c1}
  Sources = {s1, s2}
  Holders = {h1}
  Nil = Nil
  MaxLogins = 1
  MaxGrants = 3
  MaxCodes = 1
  Kinds = {"open"}
SPECIFICATION MCSpec
INVARIANT RestartKeepsLogin
