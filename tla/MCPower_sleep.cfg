SPECIFICATION Spec
CONSTANTS
  MAX_RETRIES_FOR_PLL = 2
  MAX_RETRIES_FOR_PGF = 2
  RxCodes <- Rx
  TxCodes <- Tx
  WakeModes <- Modes
INVARIANTS
  TunedAsConfigured
  BufferModesAgree
PROPERTY SuccessMeansReady
