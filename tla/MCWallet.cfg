CONSTANTS
  None = None
  Wallets = {a, b, c}
  Devices = {"pay", "mobile", "desktop"}
  HubDevices = {"desktop"}
  PairDevices = {"desktop"}
  MaxLoads = 8

SPECIFICATION WalletFairSpec

INVARIANT WalletTypeOK
INVARIANT ShownWasGranted
PROPERTY ButtonComesBack
CHECK_DEADLOCK FALSE
