SPECIFICATION Spec
CONSTANTS
  None = None
  Nothing = Nothing
  Users = {ann}
  Threads = {t1, t2}
  Here = {t1}
  MAX_FAILURES = 2
  LOCKOUT = 2
  Requests = {r1, r2}
  Kids = {k1, k2}
  Unknown = k0
  TTL = 3
  INTERVAL = 2
INVARIANTS
  TypeOK
  LockoutBounded
PROPERTIES
  LockoutEnds
  PostLostOnlyByLapse
  BannerTruthful
  LapseIsShown
  SubmitResolves
  WithdrawnKeyDies
  NewKeyRefusedBriefly
  RefetchesSpaced
  RequestsAnswered
