CONSTANTS
  None = None
  Wallets = {w1, w2}
  Browsers = {b1, b2}
  ChallengeIds = {c1, c2}
  PairIds = {p1}
  ChallengeTTL = 1
  PairTTL = 1
  SessionTTL = 2
  MaxTime = 3
SPECIFICATION Spec
INVARIANTS
  SessionIsProved
  OneSessionPerGrant
  GrantsInTime
  RegularUseStaysSignedIn
