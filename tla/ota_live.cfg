SPECIFICATION FairSpec
CONSTANTS
  Version = {1, 2}
  Factory = 1
  Blocks <- TwoImages
  BankLen = 2
  EraseLen = 2
  RetryMax = 2
  MaxPress = 1
PROPERTY MasterReturns
PROPERTY SlaveReturns
