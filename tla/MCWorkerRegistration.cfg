SPECIFICATION FairSpec
CONSTANTS
  Key = {k1, k2}
  Registrant = {k1}
  Handler = {h1, h2}
  TUNNEL_SECRET = TUNNEL_SECRET
  MaxNonces = 2
  MaxSecrets = 2
  MaxFailures = 1
  MaxStale = 1
  None = None
INVARIANTS
  TypeOK
  RegistrationsProved
  SpentNonceNeverLive
PROPERTY
  SecretWorks
CHECK_DEADLOCK FALSE
