\* Four searches, an event queue of two, room for three letters.
CONSTANTS
  l = l
  Letter <- OneLetter
  Batches <- OneOrTwo
  QueueSize = 2
  SentSize = 3
  MaxSearches = 4
SPECIFICATION Spec
INVARIANTS TypeOK IteratorOwned ListHeld SentTracks
\* A behaviour ends when its searches are used up.
CHECK_DEADLOCK FALSE
