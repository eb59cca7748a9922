CONSTANTS
  host = host
  ctrl = ctrl
  Side <- MCSide
  Peer <- MCPeer
  SeqMod = 8
  Win <- MCWin1
  UartNum = 2
  RxNum = 1
  TxNum = 2
  Unreliable = {}
  MaxMsg <- MCMsg10
  Damageable <- MCAllFrames
  MaxLoss = 1
  MaxReboot = 0
  MaxBusy = 1
  MaxOverrun = 0
  SlowTimers = TRUE
SPECIFICATION FairSpec
PROPERTY Delivery
