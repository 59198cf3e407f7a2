\* Every kind of key but punctuation, with one letter and its release, one death; two
\* keys too many behind a Space.
CONSTANTS
  a = a
  b = b
  i1 = i1
  i2 = i2
  NoIc = NoIc
  Boot = Boot
  Failed = Failed
  Letter <- ab
  IC <- OneIC
  Line <- MCLine
  Handler <- MCHandler
  Text <- MCText
  Local <- MCLocal
  Keys <- EachKey
  Callbacks = {}
  Answers <- PrefixFirst
  SentSize = 3
  QueueLimit = 2
  MaxEvents = 4
  MaxCrashes = 1
  GiveUpAfter = 1
  ForkMayFail = FALSE
SPECIFICATION Spec
SYMMETRY Symmetry
INVARIANTS LettersKept CurrentMatches RequestHeld PendingFrozen
\* A behaviour ends when its events are used up and all is answered.
CHECK_DEADLOCK FALSE
