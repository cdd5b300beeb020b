CONSTANTS
  v1 = v1
  v2 = v2
  v3 = v3
  t1 = t1
  t2 = t2
  Half = 2
  TxIds <- TwoTxIds
  Validators <- TwoValidators
  Self <- v1
  ClientTimeout = 1
  Validity = 2
  Latency = 1
  Logs <- NoRelayerLog
  SignaturesExpiration = 1
  MaxCrashes = 0
  Submitters = {}
  NoRecord = NoRecord
  Unknown = Unknown
  Idle = Idle
SPECIFICATION FairSpec
PROPERTIES StreamerStartsBackUp
