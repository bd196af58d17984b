SPECIFICATION Spec
CONSTANTS
  k1 = k1
  k2 = k2
  f1 = f1
  f2 = f2
  Key = {k1, k2}
  CurveKey = {k1}
  Fingerprint = {f1, f2}
  ComputeFingerprint <- FingerprintOf
  Caller = {c1, c2}
  TTL = 1
  MaxAttempts = 2
  MaxDraws = 3
  None = None
SYMMETRY Callers
INVARIANTS
  TypeOK
  RegistrationsProved
  ProofsOnTime
  AttemptsBounded
  SpentNonceNeverLive
CHECK_DEADLOCK FALSE
