CONSTANTS
  v1 = v1
  v2 = v2
  r1 = r1
  r2 = r2
  r3 = r3
  t1 = t1
  c1 = c1
  c2 = c2
  w1 = w1
  w2 = w2
  w3 = w3
  None = None
  Viewers = {v1, v2}
  Txids = {t1}
  Peers = {}
  TxOf <- BothTxOf
  Requests = {r1, r2, r3}
  Wallets = {w1, w2, w3}
  Clients = {c1}
  Owner <- ThreeOwner
  ClientOf <- OneClientOf
SPECIFICATION Spec
CHECK_DEADLOCK FALSE
INVARIANT TypeOK
INVARIANT RunningFlightIsRegistered
PROPERTY ImplementsService
PROPERTY SpinnerStops
PROPERTY SuccessLeadsToSync
