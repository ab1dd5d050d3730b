\* One function deployed to futurenet by a live run: its simulate request.
CONSTANTS
  NFunctions <- MCOneFunction
  Concurrency = 1
  MaxAttempts = 2
  Transports = {"live"}
  Testnet = Testnet
  Futurenet = Futurenet
  Network = Futurenet
  DefaultNetwork = Testnet
  NoHang = NoHang
  NoTask = NoHang
  MayHang <- MCNoHang
SPECIFICATION Spec
INVARIANT SimulatesOnTargetNetwork
