\* config.xml has 4 data servers and 2 parity servers.  Three threads share a client.
CONSTANTS
  Shapes <- MCShapes
  Samples = {0, 200}
  Elements <- Byte
  add <- MCAdd
  multiply <- Multiply
  divide <- Divide
  exp <- Exp
  Threads = {1, 2, 3}
  Methods <- MCMethods
  MaxSeq = 3
  NoThread = NoThread
  NoMessage = NoMessage
SPECIFICATION LibrariesSpec
INVARIANTS TablesMakeField HalvesAgree NeverSingular DecodeRestores DeltaUpdatesParity TablesGenerated LoopsAgree
  OwnAnswers NobodyForgotten RpcInv BothEndsAgree
PROPERTIES RpcCallsEnd
