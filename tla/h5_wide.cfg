CONSTANTS
  host = host
  ctrl = ctrl
  Side <- MCSide
  Peer <- MCPeer
  SeqMod = 4
  Win <- MCWin2
  UartNum = 2
  RxNum = 2
  TxNum = 2
  Unreliable = {1}
  MaxMsg <- MCMsg21
  Damageable <- MCAllFrames
  MaxLoss = 1
  MaxReboot = 0
  MaxBusy = 0
  MaxOverrun = 1
  SlowTimers = TRUE
SPECIFICATION Spec
INVARIANT WindowInFifo
