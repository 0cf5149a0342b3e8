SPECIFICATION TrustSpec
CONSTANTS
  Requests = {q1, q2}
  Codes = {c1, c2}
  NoCode = none
  Blocks = {1}
  MaxEdits = 1
  MaxIncidents = 1
SYMMETRY Symmetry
INVARIANT
  ApprovalNeedsVerification
  TrustedAsConfigured
CHECK_DEADLOCK FALSE
