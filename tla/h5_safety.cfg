CONSTANTS
  host = host
  ctrl = ctrl
  Side <- MCSide
  Peer <- MCPeer
  SeqMod = 2
  Win <- MCWin1
  UartNum = 2
  RxNum = 1
  TxNum = 2
  Unreliable = {}
  MaxMsg <- MCMsg21
  Damageable <- MCAllFrames
  MaxLoss = 1
  MaxReboot = 1
  MaxBusy = 0
  MaxOverrun = 0
  SlowTimers = FALSE
SPECIFICATION Spec
INVARIANT TypeOK
INVARIANT WindowInFifo
INVARIANT NoSilentLoss
INVARIANT NoDuplicate
INVARIANT RxFifoNotOverrun
PROPERTY NoSpuriousReset
