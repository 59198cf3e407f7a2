\* A refused partial pick, then another letter.
CONSTANTS
  a = a
  b = b
  i1 = i1
  i2 = i2
  NoIc = NoIc
  Boot = Boot
  Failed = Failed
  Letter <- ab
  IC <- OneIC
  Line <- MCLine
  Handler <- MCHandler
  Text <- MCText
  Local <- MCLocal
  Keys <- PickKeys
  Callbacks = {}
  Answers <- PrefixFirst
  SentSize = 3
  QueueLimit = 3
  MaxEvents = 4
  MaxCrashes = 0
  GiveUpAfter = 2
  ForkMayFail = FALSE
SPECIFICATION Spec
SYMMETRY Symmetry
INVARIANT ResultsForBuffer
\* A behaviour ends when its events are used up and all is answered.
CHECK_DEADLOCK FALSE
