SPECIFICATION MSpec
CONSTANTS
  Threads = {w1, w2, app}
  Workers = {w1, w2}
  Tokens = {"k1"}
  Sessions = {"s1", "s2"}
  Ttl = 1
  MaxEntries = 1
  Clock = {0, 1}
  MinTime = 0
  MaxTime = 1
  NoEntry = NoEntry
  NoCall = NoCall
  NoThread = NoThread
  NoBinding = NoBinding
  NoRequest = NoRequest
  NoText = NoText
  Decode <- MCDecode
  Size <- MCSize
  HttpRequests <- MCHttpRequests
SYMMETRY Symmetry
INVARIANTS
  ForwardedWasLive
  MismatchWasDead
