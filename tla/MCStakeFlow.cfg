CONSTANTS
  None = None
  Validators = {v}
  Wallet = w
  Devices = {"pay", "web"}
  MaxIntents = 2
  MaxTxs = 2
  MaxCancels = 1
  PayMounts = 2
  WebMounts = 1
SPECIFICATION FairSpec
INVARIANT TypeOK
INVARIANT SuccessIsConfirmed
INVARIANT OneTransactionPerReview
INVARIANT RecordWasSent
PROPERTY DialogComesBack
CHECK_DEADLOCK FALSE
