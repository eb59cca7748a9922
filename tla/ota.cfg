SPECIFICATION Spec
CONSTANTS
  Version = {1, 2}
  Factory = 1
  Blocks <- TwoImages
  BankLen = 2
  EraseLen = 2
  RetryMax = 2
  MaxPress = 2
INVARIANT TypeOK
INVARIANT FlaggedIsIntact
INVARIANT SomeBankBoots
INVARIANT OneImage
INVARIANT AnsweredIsWhole
PROPERTY RunningBankKept
PROPERTY ConfirmedIsWhole
CHECK_DEADLOCK FALSE
