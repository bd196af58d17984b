SPECIFICATION LifeSpec
CONSTANTS
  k1 = k1
  f1 = f1
  Key = {k1}
  CurveKey = {k1}
  Fingerprint = {f1}
  ComputeFingerprint <- FingerprintOf
  Caller = {c1, c2, c3}
  TTL = 1
  MaxAttempts = 5
  MaxDraws = 8
  None = None
  publicKey = k1
  MaxFailures = 2
  MaxRestarts = 1
INVARIANT
  SecretCurrent
PROPERTY
  ComesUpUnlessForgotten
