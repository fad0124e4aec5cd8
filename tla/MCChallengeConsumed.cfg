SPECIFICATION Spec
CONSTANTS
  Tasks = {t1, t2}
  Users = {u1, u2}
  Challenges = {c1, c2, c3}
  Responses <- MCResponses
  rp_id = "rp"
  allowed_origins = {"app"}
  MaxSignCount = 2
  MaxCredentials = 2
  Consuming = FALSE
  None = None
SYMMETRY Symmetry
INVARIANT
  ChallengeExistedAndIsConsumed
