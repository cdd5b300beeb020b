CONSTANTS
  v1 = v1
  v2 = v2
  v3 = v3
  Validators <- TwoValidators
  TxType = "ethereum"
  SourceLog <- LogResignTwice
  SignaturesExpiration = 1
  NetworkFails = FALSE
  MayReset = FALSE
  MaxRestarts = 0
  NoTx = NoTx
  Idle = Idle
SPECIFICATION FairSpec
INVARIANTS SettledRecordsAreFull MismatchNeedsFailure
PROPERTIES StreamersCatchUp EverybodyCompletes
