CONSTANTS
  v1 = v1
  v2 = v2
  r1 = r1
  r2 = r2
  r3 = r3
  t1 = t1
  c1 = c1
  c2 = c2
  w1 = w1
  w2 = w2
  w3 = w3
  None = None
  Viewers = {v1, v2}
  Txids = {t1}
  Peers = {p1}
  TxOf <- BothTxOf
  Requests = {r1, r2}
  Wallets = {w1, w2, w3}
  Clients = {c1, c2}
  Owner <- TwoOwner
  ClientOf <- TwoClientOf
SPECIFICATION Spec
SYMMETRY Symmetry
CHECK_DEADLOCK FALSE
INVARIANT OutcomeIsTruthful
PROPERTY NoSendAfterSuccess
