\* The request/reply protocol: five requests, two starts without READY before
\* giving up, a harness that may die at any step, or hang.
CONSTANTS
  MaxAsks = 5
  GiveUpAfter = 2
  ForkMayFail = TRUE
  Boot = Boot
  Failed = Failed
  h = h
  t = t
  Line <- MCLine
  Local <- MCLocal
  Handler <- MCHandler
  Text <- MCText
  Programs <- MCPrograms
SPECIFICATION LoopFairSpec
INVARIANTS TypeOK Pairing OwnReply NoLostHandler ProcShape
PROPERTIES ImplementsCalls EveryAskTold StartingEnds
