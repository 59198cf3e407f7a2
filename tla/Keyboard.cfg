\* Two contexts, pages of two or three of at most four candidates, two letters.
CONSTANTS
  i1 = i1
  i2 = i2
  double = double
  single = single
  IC <- Contexts
  Quote <- Quotes
  MaxPageSize = 3
  FallbackPageSize = 2
  Settings = {3, 4}
  QueueLimit = 2
  MaxBuf = 2
  MaxCandidates = 4
SYMMETRY Symmetric
SPECIFICATION Spec
INVARIANTS TypeOK PanelSound LabelsPick QuotesPair DigitKnown
