\* Two requests, two data sources of the account, every interruption.
CONSTANTS
  Calls = {c1, c2}
  Sources = {s1, s2}
  Holders = {h1, h2}
  Nil = Nil
  MaxLogins = 2
  MaxGrants = 3
  MaxCodes = 2
  Kinds = {"open", "web", "baidu", "quark", "qr"}
SPECIFICATION MCSpec
SYMMETRY Symmetry
INVARIANTS
  RefusedForCause
  OnDisk
  OneRenewsForAll
  ExchangedOnce
