CONSTANTS
  None = None
  Validators = {v}
  Wallet = w
  Devices = {"pay"}
  MaxIntents = 1
  MaxTxs = 1
  MaxCancels = 1
  PayMounts = 1
  WebMounts = 1
SPECIFICATION Spec
PROPERTY CloseAbandonsNothingSent
CHECK_DEADLOCK FALSE
