CONSTANTS
  v1 = v1
  v2 = v2
  v3 = v3
  Validators <- TwoValidators
  TxType = "ethereum"
  SourceLog <- LogResign
  SignaturesExpiration = 1
  NetworkFails = FALSE
  MayReset = FALSE
  MaxRestarts = 1
  NoTx = NoTx
  Idle = Idle
SPECIFICATION FairSpec
PROPERTIES StreamersCatchUp
