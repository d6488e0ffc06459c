SPECIFICATION AuthFairSpec
CONSTANTS
  Poller = poller
  Pages = {w1}
  MaxToken = 2
  MaxDevice = 0
  MaxFault = 0
  MaxExpiry = 1
  MaxCrash = 1
  MaxTarget = 0
PROPERTY NeverSilentlyStuck
