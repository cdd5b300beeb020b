CONSTANTS
  v1 = v1
  v2 = v2
  v3 = v3
  Validators <- TwoValidators
  TxType = "koinos"
  SourceLog <- LogResignTwice
  SignaturesExpiration = 1
  NetworkFails = TRUE
  MayReset = TRUE
  MaxRestarts = 1
  NoTx = NoTx
  Idle = Idle
SPECIFICATION Spec
SYMMETRY ValidatorSymmetry
INVARIANTS TypeOK SignaturesMatchHash OwnSignatureIsCurrent SignedIsBacked CompletionNeedsLocks SignaturesNeverOverlap RecordsAgree
PROPERTIES KeepsLedger CompletedIsFinal HashNeverGoesBack SignaturesAreKept
