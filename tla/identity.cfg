SPECIFICATION IdentitySpec
CONSTANTS
  u1 = u1
  u2 = u2
  Uids = {u1, u2}
  Emails = {e1}
  Clients = {c1, c2}
  MaxTokens = 3
  Settings <- MCSettings
  Pasts <- MCPasts
  NoUid = NoUid
  NoEmail = NoEmail
  CodeIds = {1, 2}
  CodeClients = {c1, c2}
  RequestLimit = 4
  MaxAttempts = 2
  Secrets = {1, 2}
  RecoveryIds = {r1, r2, r3, r4}
  CodesPerSet = 2
  FactorClients = {c1, c2}
  MaxKeys = 3
  KeyClients = {c1, c2}
  Names = {n1, n2}
  PanelClients = {c1, c2}
  Ips = {i1, i2}
  LoginClients = {c1, c2}
  IpLimit = 2
  AcctLimit = 1
  Devices = {c1, c2}
  MaxSessions = 3
  LastHour = 2
SYMMETRY ServedAlike
INVARIANTS IdentityTypeOK  
           ActiveSecretProven AdmissionsHold
PROPERTIES OverStaysOver TeamKept
