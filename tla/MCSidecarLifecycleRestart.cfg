SPECIFICATION LifeSpec
CONSTANTS
  k1 = k1
  f1 = f1
  Key = {k1}
  CurveKey = {k1}
  Fingerprint = {f1}
  ComputeFingerprint <- FingerprintOf
  Caller = {c1, c2}
  TTL = 1
  MaxAttempts = 5
  MaxDraws = 7
  None = None
  publicKey = k1
  MaxFailures = 0
  MaxRestarts = 1
PROPERTY
  TunnelComesUp
