\* The harness may hang, or answer; one death.
CONSTANTS
  a = a
  b = b
  i1 = i1
  i2 = i2
  NoIc = NoIc
  Boot = Boot
  Failed = Failed
  Letter <- ab
  IC <- OneIC
  Line <- MCLine
  Handler <- MCHandler
  Text <- MCText
  Local <- MCLocal
  Keys <- WaitKeys
  Callbacks = {}
  Answers <- WholeFirst
  SentSize = 3
  QueueLimit = 3
  MaxEvents = 3
  MaxCrashes = 1
  GiveUpAfter = 1
  ForkMayFail = FALSE
SPECIFICATION LoopFairSpec
PROPERTIES PendingEnds CandidatesArrive
\* A behaviour ends when its events are used up and all is answered.
CHECK_DEADLOCK FALSE
