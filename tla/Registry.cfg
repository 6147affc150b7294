\* Updates that overlap, with every interruption.
CONSTANTS
  Handlers = {h1, h2}
  Passwords = {p1, p2, p3}
  None = None
  Envelopes = {e1, e2}
  Chains = 2
  MaxRotations = 2
  MaxUpdates = 3
SYMMETRY MCSymmetry
CONSTRAINT Regular
SPECIFICATION Spec
INVARIANTS
  TypeOK
  EnvelopesOpen
  TokenIsLast
