CONSTANTS
  v1 = v1
  v2 = v2
  v3 = v3
  Validators <- TwoValidators
  TxType = "koinos"
  SourceLog <- LogResign
  SignaturesExpiration = 1
  NetworkFails = FALSE
  MayReset = FALSE
  MaxRestarts = 0
  NoTx = NoTx
  Idle = Idle
SPECIFICATION Spec
SYMMETRY ValidatorSymmetry
INVARIANTS KeptSignaturesMatch
