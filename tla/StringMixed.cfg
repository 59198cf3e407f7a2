\* The daemon and a callback each make a byte array and a String of it.
CONSTANTS
  p0 = p0
  p1 = p1
  p2 = p2
  p3 = p3
  cb = cb
  None = None
  Daemon = Daemon
  Addr <- Addresses
  Startup <- AtStart
  Engine <- Callbacks
  Grace = 2
  CallTicks = 1
  SinglesLimit = 1
  MaxGlobals = 1
  MaxFields = 1
SPECIFICATION Spec
SYMMETRY Symmetry
PROPERTY StringOwnBytes
