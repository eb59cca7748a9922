CONSTANTS
  host = host
  ctrl = ctrl
  Side <- MCSide
  Peer <- MCPeer
  SeqMod = 2
  Win <- MCWin1
  UartNum = 1
  RxNum = 1
  TxNum = 2
  Unreliable = {}
  MaxMsg <- MCMsg11
  Damageable <- MCAllButAck
  MaxLoss = 1
  MaxReboot = 1
  MaxBusy = 1
  MaxOverrun = 1
  SlowTimers = TRUE
SPECIFICATION FairSpec
INVARIANT NoSilentLoss
PROPERTY Delivery
PROPERTY LinkUp
