SPECIFICATION Spec
CONSTANTS
  a = a
  b = b
  wa = wa
  wb = wb
  la = la
  Streamers = {a, b}
  Workers = {wa, wb}
  Listers = {la}
  StreamerOf <- MCStreamerOf
  Setups <- MCSetups
  Env <- MCEnv
  Endpoints <- MCEndpoints
  DefaultPlugin = "S3"
  Missing = {"GCS"}
  Clients = {c1, c2, c3}
  MaxLive = 2
  NoPlugin = "none"
  NoClient = NoClient
INVARIANTS
  ClientsAreAccounted
  CredentialsAreTheStreamers
SYMMETRY Symmetry
