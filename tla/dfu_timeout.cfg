CONSTANTS
  low = low
  high = high
  v1 = v1
  v2 = v2
  Bank <- MCBank
  Other <- MCOther
  Version <- MCVersion1
  ImageSize = 2
  MaxSize = 2
  Payload = 2
  Sampled = {1}
  ResendCnt = 2
  TimeOut = 2
  EvtNum = 1
  Covered = TRUE
  Orderly = TRUE
  Prompt = FALSE
SPECIFICATION FairSpec
PROPERTY EndRestarts
CHECK_DEADLOCK FALSE
