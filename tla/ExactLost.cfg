\* An exact hit, then an older search, in one batch of events.
CONSTANTS
  l = l
  Letter <- OneLetter
  Batches <- OneOrTwo
  QueueSize = 2
  SentSize = 3
  MaxSearches = 4
SPECIFICATION Spec
PROPERTY ExactReturned
\* A behaviour ends when its searches are used up.
CHECK_DEADLOCK FALSE
