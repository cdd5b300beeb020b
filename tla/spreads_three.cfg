CONSTANTS
  v1 = v1
  v2 = v2
  v3 = v3
  Validators <- ThreeValidators
  TxType = "koinos"
  SourceLog <- LogLock
  SignaturesExpiration = 1
  NetworkFails = FALSE
  MayReset = FALSE
  MaxRestarts = 0
  NoTx = NoTx
  Idle = Idle
SPECIFICATION FairSpec
INVARIANT AllButOneReportSigned
PROPERTIES EverySignatureSpreads SomebodyReportsSigned
