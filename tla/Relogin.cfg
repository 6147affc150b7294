\* One request, and a user who scans again after the provider has ended the login.
CONSTANTS
  Calls = {c1}
  Sources = {s1}
  Holders = {h1}
  Nil = Nil
  MaxLogins = 2
  MaxGrants = 3
  MaxCodes = 2
  Kinds = {"open", "web"}
SPECIFICATION MCSpec
INVARIANT NewLoginUsed
