CONSTANTS
  NFunctions <- MCFunctions
  Concurrency = 2
  MaxAttempts = 2
  Transports = {"live", "record", "replay"}
  Testnet = Testnet
  Futurenet = Futurenet
  Network = Testnet
  DefaultNetwork = Testnet
  NoHang = NoHang
  NoTask = NoHang
  MayHang <- MCMayHang
SPECIFICATION Spec
INVARIANTS SimulatedOnce NoneForgotten OneUserOfSharedTransport
PROPERTIES ReportsSequentially Terminates NoHeadOfLineBlocking
